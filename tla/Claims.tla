--------------------------------- MODULE Claims ---------------------------------
(***************************************************************************)
(* Who serves a node: gateway processes (authorities) that share one claim *)
(* table (claim.ts, claim-store.ts), the connection part of each gateway   *)
(* (ws.ts, core.ts), the node's client (gateway-client.ts, weak-net.ts)    *)
(* and the registry's suspension of the node.                              *)
(*                                                                         *)
(* One node.  Every authenticated connection is issued its own generation, *)
(* so a generation names a connection.  A connection may break at one end  *)
(* before the other notices, a process may stall for any time or die, and  *)
(* the message that closes a connection may be lost with it.  The close    *)
(* and error events of a socket come at any time, also after the gateway   *)
(* has closed and replaced it.  Abstracted:                                *)
(* sockets that are not authenticated yet, and what travels on a           *)
(* connection (Custody).                                                   *)
(***************************************************************************)
EXTENDS Naturals, FiniteSets

CONSTANTS
  Authority,      \* gateway processes
  Ttl,            \* leaseTtlMs, in ticks
  MaxAttempts,    \* maxReconnectAttempts (20 in the code)
  MaxGeneration,  \* bound: connections ever authenticated
  MaxClock,       \* bound: ticks
  NoClaim         \* no active row

ASSUME ClaimsAssumption ==
  /\ Ttl \in Nat \ {0}
  /\ MaxAttempts \in Nat \ {0}
  /\ MaxGeneration \in Nat
  /\ MaxClock \in Nat
  /\ NoClaim \notin [authority : Authority, generation : Nat, lease : Nat]

VARIABLES
  now,
  claim,      \* the row of gateway_claim, or NoClaim
  highWater,  \* gateway_claim_seq.last_generation
  lease,      \* history: the lease of generation highWater, kept when its row goes
  current,    \* per authority: currentConnByNode, 0 for none
  routed,     \* per authority: connection in GatewayCore.connections, 0 for none
  online,     \* per authority: registry.presence
  open,       \* per authority: authenticated sockets it has not closed
  closing,    \* per authority: sockets it has closed whose close event is to come
  up,         \* per authority: running; not after failClosed or a crash
  status,     \* the node's status in the registry
  peer,       \* the client's connection, 0 for none
  client,     \* the client: idle, authed or stopped
  attempts,   \* reconnectAttempts
  closes,     \* <<connection, code>>: close frames under way that stop the client
  notices,    \* generations that pump notices under way carry
  pumped      \* history: the connection that a pump notice served last

claimTable == <<claim, highWater, lease>>
tables == <<current, routed, online>>
sockets == <<open, closing>>
gatewayVars == <<tables, sockets, up>>
clientVars == <<peer, client, attempts>>
claimsVars == <<now, claimTable, gatewayVars, status, clientVars, closes, notices, pumped>>

Generation == 0..MaxGeneration
\* The codes of frames that stop the client.  A close with 1001 or 1011 is to
\* the client what Break is, so those frames are not kept.
Code == {4000, 4001}

\* Codes 4000 to 4004 stop a client for good.
PermanentClose(code) == code >= 4000 /\ code <= 4004

ClaimsInit ==
  /\ now = 0
  /\ claim = NoClaim /\ highWater = 0 /\ lease = 0
  /\ current = [a \in Authority |-> 0]
  /\ routed = [a \in Authority |-> 0]
  /\ online = [a \in Authority |-> FALSE]
  /\ open = [a \in Authority |-> {}]
  /\ closing = [a \in Authority |-> {}]
  /\ up = [a \in Authority |-> TRUE]
  /\ status = "active"
  /\ peer = 0 /\ client = "idle" /\ attempts = 0
  /\ closes = {} /\ notices = {} /\ pumped = 0

--------------------------------------------------------------------------------
(* The claim table. *)

Owns(a, g) == claim # NoClaim /\ claim.authority = a /\ claim.generation = g

\* Fault: the next generation is counted from the active row.
ClaimFromRow(a) ==
  LET g == IF claim = NoClaim THEN 1 ELSE claim.generation + 1
  IN /\ highWater' = g
     /\ lease' = now + Ttl
     /\ claim' = [authority |-> a, generation |-> g, lease |-> now + Ttl]

\* claim(): the next generation, whoever had the last one.
Claim(a) ==
  /\ highWater' = highWater + 1
  /\ lease' = now + Ttl
  /\ claim' = [authority |-> a, generation |-> highWater + 1, lease |-> now + Ttl]

\* Fault: the row is deleted by authority and not by generation.
ReleaseAny(a, g) == IF claim # NoClaim THEN NoClaim ELSE claim

\* release(): fenced by authority and generation.
Release(a, g) == IF Owns(a, g) THEN NoClaim ELSE claim

\* renew(), when it succeeds.
Renewed == [claim EXCEPT !.lease = now + Ttl]

\* reapExpired() on the row c.
Reaped(c) == IF c # NoClaim /\ c.lease <= now THEN NoClaim ELSE c

--------------------------------------------------------------------------------
(* A gateway process. *)

\* closeSocket() of the sockets G.
CloseSockets(a, G) ==
  /\ open' = [open EXCEPT ![a] = @ \ G]
  /\ closing' = [closing EXCEPT ![a] = @ \union G]

\* The end of a process is the end of its sockets: with no connection to come
\* there is nothing their events could meet.
SocketsEnd(a) ==
  /\ open' = [open EXCEPT ![a] = {}]
  /\ closing' = [closing EXCEPT ![a] = {}]

\* The node is taken out of the tables and its presence is taken back.
Leave(a) ==
  /\ current' = [current EXCEPT ![a] = 0]
  /\ routed' = [routed EXCEPT ![a] = 0]
  /\ online' = [online EXCEPT ![a] = FALSE]

\* Fault: no guard, so the event of any socket takes the node out; only the
\* claim goes by the connection.
DisconnectUnguarded(a, g) ==
  /\ claim' = Release(a, g)
  /\ Leave(a)

\* disconnect(): tables, then the claim, then the presence; a connection that
\* is not the current one of its node changes nothing.
Disconnect(a, g) ==
  IF current[a] = g THEN claim' = Release(a, g) /\ Leave(a) ELSE UNCHANGED <<claim, tables>>

\* The auth frame of a new connection: authenticate, claim, replace the old
\* connection, core.connect, presence, auth_ok.
Open(a) ==
  /\ client = "idle" /\ attempts < MaxAttempts
  /\ up[a] /\ status = "active"
  /\ highWater < MaxGeneration
  /\ Claim(a)
  /\ current' = [current EXCEPT ![a] = highWater']
  /\ routed' = [routed EXCEPT ![a] = highWater']
  /\ online' = [online EXCEPT ![a] = TRUE]
  /\ open' = [open EXCEPT ![a] = (@ \ {current[a]}) \union {highWater'}]
  /\ closing' = [closing EXCEPT ![a] = @ \union ({current[a]} \ {0})]
  /\ closes' = IF current[a] # 0 THEN closes \union {<<current[a], 4000>>} ELSE closes
  /\ peer' = highWater' /\ client' = "authed" /\ attempts' = 0
  /\ UNCHANGED <<now, up, status, notices, pumped>>

\* A token that does not belong to an active node is refused with 4003.
OpenRefused(a) ==
  /\ client = "idle" /\ attempts < MaxAttempts
  /\ up[a] /\ status # "active"
  /\ client' = "stopped"
  /\ UNCHANGED <<now, claimTable, gatewayVars, status, peer, attempts, closes, notices, pumped>>

\* The close event of a socket, which may have been replaced long ago.
SocketCloses(a, g) ==
  /\ g \in open[a] \union closing[a]
  /\ Disconnect(a, g)
  /\ open' = [open EXCEPT ![a] = @ \ {g}]
  /\ closing' = [closing EXCEPT ![a] = @ \ {g}]
  /\ UNCHANGED <<now, highWater, lease, up, status, clientVars, closes, notices, pumped>>

\* Its error event: the socket is closed, its close event follows.
SocketErrors(a, g) ==
  /\ g \in open[a] \union closing[a]
  /\ Disconnect(a, g)
  /\ CloseSockets(a, {g})
  /\ UNCHANGED <<now, highWater, lease, up, status, clientVars, closes, notices, pumped>>

\* Fault: a refused renewal is ignored.
RenewTimerKeeps(a) ==
  /\ up[a]
  /\ IF current[a] # 0 /\ Owns(a, current[a])
     THEN claim' = Reaped(Renewed) /\ lease' = now + Ttl
     ELSE claim' = Reaped(claim) /\ UNCHANGED lease
  /\ UNCHANGED <<now, highWater, gatewayVars, status, clientVars, closes, notices, pumped>>

\* The renew timer: renew the current connection, drop it if that is refused,
\* then reap.
RenewTimer(a) ==
  /\ up[a]
  /\ IF current[a] # 0 /\ Owns(a, current[a])
     THEN /\ claim' = Reaped(Renewed)
          /\ lease' = now + Ttl
          /\ UNCHANGED <<tables, sockets, closes>>
     ELSE /\ claim' = Reaped(claim)
          /\ IF current[a] # 0
             THEN /\ closes' = closes \union {<<current[a], 4000>>}
                  /\ CloseSockets(a, {current[a]}) /\ Leave(a)
             ELSE UNCHANGED <<tables, sockets, closes>>
          /\ UNCHANGED lease
  /\ UNCHANGED <<now, highWater, up, status, clientVars, notices, pumped>>

\* Fault: a suspended node is told, and its connection stays.
SyncTellsOnly(a) ==
  /\ up[a] /\ status # "active" /\ current[a] # 0
  /\ closes' = closes \union {<<current[a], 4001>>}
  /\ UNCHANGED <<now, claimTable, gatewayVars, status, clientVars, notices, pumped>>

\* syncRegistry(): a suspended or revoked node is told and disconnected.
SyncRegistry(a) ==
  /\ up[a] /\ status # "active" /\ current[a] # 0
  /\ closes' = closes \union {<<current[a], 4001>>}
  /\ CloseSockets(a, {current[a]})
  /\ Disconnect(a, current[a])
  /\ UNCHANGED <<now, highWater, lease, up, status, clientVars, notices, pumped>>

\* failClosed(): every connection is closed; release() may fail as well.
FailClosed(a) ==
  /\ up[a]
  /\ up' = [up EXCEPT ![a] = FALSE]
  /\ \/ claim' = IF current[a] # 0 THEN Release(a, current[a]) ELSE claim
     \/ UNCHANGED claim
  /\ Leave(a) /\ SocketsEnd(a)
  /\ UNCHANGED <<now, highWater, lease, status, clientVars, closes, notices, pumped>>

\* shutdown(): the owner stops the process, and the claim is released.
Shutdown(a) ==
  /\ up[a]
  /\ up' = [up EXCEPT ![a] = FALSE]
  /\ claim' = IF current[a] # 0 THEN Release(a, current[a]) ELSE claim
  /\ Leave(a) /\ SocketsEnd(a)
  /\ UNCHANGED <<now, highWater, lease, status, clientVars, closes, notices, pumped>>

\* The process dies: its claim stays until somebody reaps it.
Crash(a) ==
  /\ up[a]
  /\ up' = [up EXCEPT ![a] = FALSE]
  /\ Leave(a) /\ SocketsEnd(a)
  /\ UNCHANGED <<now, claimTable, status, clientVars, closes, notices, pumped>>

Restart(a) ==
  /\ ~up[a]
  /\ up' = [up EXCEPT ![a] = TRUE]
  /\ UNCHANGED <<now, claimTable, tables, sockets, status, clientVars, closes, notices, pumped>>

\* admitCustody() at an authority without the target: notify the one that
\* holds a live lease, with its generation.  One notice is followed at a time:
\* a later one replaces it, which loses it, as the network may.
Relay(a) ==
  /\ up[a] /\ current[a] = 0
  /\ claim # NoClaim /\ claim.authority # a /\ claim.lease > now
  /\ notices' = {claim.generation}
  /\ UNCHANGED <<now, claimTable, gatewayVars, status, clientVars, closes, pumped>>

\* Fault: the notice is obeyed without asking the claim table.
PumpNotifyUnfenced(a, g) ==
  /\ up[a] /\ g \in notices /\ current[a] # 0
  /\ pumped' = current[a]
  /\ UNCHANGED <<now, claimTable, gatewayVars, status, clientVars, closes, notices>>

\* pumpNotify(): only the owner of exactly that generation pumps.  Notices go
\* to every peer and may be late, so they are not used up.
PumpNotify(a, g) ==
  /\ up[a] /\ g \in notices /\ current[a] # 0
  /\ Owns(a, g)
  /\ pumped' = current[a]
  /\ UNCHANGED <<now, claimTable, gatewayVars, status, clientVars, closes, notices>>

--------------------------------------------------------------------------------
(* The client, the owner and time. *)

\* The close handler: scheduleReconnect counts an attempt.
Closed(code) ==
  /\ peer' = 0
  /\ client' = IF PermanentClose(code) THEN "stopped" ELSE "idle"
  /\ attempts' = IF PermanentClose(code) THEN attempts ELSE attempts + 1

\* A close frame; on a connection the client has left it is ignored.
GetClose(g, code) ==
  /\ <<g, code>> \in closes
  /\ closes' = closes \ {<<g, code>>}
  /\ IF g = peer THEN Closed(code) ELSE UNCHANGED clientVars
  /\ UNCHANGED <<now, claimTable, gatewayVars, status, notices, pumped>>

\* The client notices that its connection is gone, or gets a close with 1001 or
\* 1011: it will try again.
Break ==
  /\ client = "authed"
  /\ Closed(1011)
  /\ UNCHANGED <<now, claimTable, gatewayVars, status, closes, notices, pumped>>

\* An attempt to connect fails; after MaxAttempts in a row there is no other.
OpenFails ==
  /\ client = "idle" /\ attempts < MaxAttempts
  /\ attempts' = attempts + 1
  /\ UNCHANGED <<now, claimTable, gatewayVars, status, peer, client, closes, notices, pumped>>

RestartClient ==
  /\ peer' = 0 /\ client' = "idle" /\ attempts' = 0
  /\ UNCHANGED <<now, claimTable, gatewayVars, status, closes, notices, pumped>>

Suspend ==
  /\ status = "active"
  /\ status' = "suspended"
  /\ UNCHANGED <<now, claimTable, gatewayVars, clientVars, closes, notices, pumped>>

Resume ==
  /\ status = "suspended"
  /\ status' = "active"
  /\ UNCHANGED <<now, claimTable, gatewayVars, clientVars, closes, notices, pumped>>

Tick ==
  /\ now < MaxClock
  /\ now' = now + 1
  /\ UNCHANGED <<claimTable, gatewayVars, status, clientVars, closes, notices, pumped>>

ClaimsNext ==
  \/ Break \/ OpenFails \/ RestartClient \/ Suspend \/ Resume \/ Tick
  \/ \E g \in Generation, code \in Code : GetClose(g, code)
  \/ \E a \in Authority : \/ Open(a) \/ OpenRefused(a) \/ RenewTimer(a)
                          \/ SyncRegistry(a) \/ FailClosed(a) \/ Shutdown(a) \/ Crash(a)
                          \/ Restart(a) \/ Relay(a)
                          \/ \E g \in Generation : \/ SocketCloses(a, g) \/ SocketErrors(a, g)
                                                   \/ PumpNotify(a, g)

ClaimsSpec == ClaimsInit /\ [][ClaimsNext]_claimsVars

\* The timers of a running gateway fire.
ClaimsFairSpec ==
  ClaimsSpec /\ \A a \in Authority : WF_claimsVars(RenewTimer(a)) /\ WF_claimsVars(SyncRegistry(a))

--------------------------------------------------------------------------------
\* Every variable keeps its type.
ClaimsTypeOK ==
  /\ now \in 0..MaxClock
  /\ claim = NoClaim \/ claim \in [authority : Authority, generation : Generation \ {0}, lease : Nat]
  /\ highWater \in Generation /\ lease \in Nat
  /\ current \in [Authority -> Generation]
  /\ routed \in [Authority -> Generation] /\ online \in [Authority -> BOOLEAN]
  /\ open \in [Authority -> SUBSET Generation] /\ closing \in [Authority -> SUBSET Generation]
  /\ up \in [Authority -> BOOLEAN]
  /\ status \in {"active", "suspended"}
  /\ peer \in Generation /\ client \in {"idle", "authed", "stopped"} /\ attempts \in 0..MaxAttempts
  /\ closes \subseteq Generation \X Code
  /\ notices \subseteq Generation /\ pumped \in Generation

\* A generation is never issued twice: the row holds the newest one, no two
\* processes hold one connection's generation, and an owner with a connection
\* has the connection that its row names.
FencingTokens ==
  /\ claim # NoClaim => /\ claim.generation = highWater
                        /\ current[claim.authority] \in {0, highWater}
  /\ \A a, b \in Authority : current[a] = current[b] /\ current[a] # 0 => a = b
  /\ \A a \in Authority : current[a] <= highWater
  /\ peer <= highWater

\* The newest connection keeps its claim until its lease has run out, whatever
\* older connections at other gateways still do when they go.
OwnerKeepsClaim ==
  \A a \in Authority : current[a] = highWater /\ highWater # 0 /\ now < lease => Owns(a, highWater)

\* The one socket that a process keeps open for the node is the connection its
\* tables route to, and the presence says that it is there: no late close or
\* error of a replaced, superseded or suspended connection takes a newer one
\* out of the tables and leaves its client connected to nothing (M2-03), and
\* none stays in them after its own end.  All variables are well typed.
RoutesMatchConnections ==
  /\ ClaimsTypeOK
  /\ \A a \in Authority : /\ open[a] = {current[a]} \ {0}
                          /\ routed[a] = current[a]
                          /\ online[a] = (current[a] # 0)

\* A pump notice serves nobody but the newest connection, however late it comes.
NoticeServesOwner == [][pumped' # pumped => pumped' = highWater]_claimsVars

\* Two gateways do not serve one node for ever.
SplitBrainEnds ==
  \A a, b \in Authority : a # b =>
    ((current[a] # 0 /\ current[b] # 0) ~> (current[a] = 0 \/ current[b] = 0))

\* A suspended node loses its connections, or is resumed.
SuspendedLeaves ==
  (status = "suspended") ~> (status = "active" \/ \A a \in Authority : current[a] = 0)

\* claim.ts: a refused renewal means that a newer generation has taken over;
\* only then is a connection closed with 4000, which stops the client.
DropMeansSuperseded == \A g \in Generation : <<g, 4000>> \in closes => g < highWater
================================================================================

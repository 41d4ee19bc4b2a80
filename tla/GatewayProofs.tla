------------------------------ MODULE GatewayProofs ------------------------------
(***************************************************************************)
(* Proofs about the gateways.  Claims: for any set of gateway processes,   *)
(* any lease and any number of connections.  LegacyRelay: for any set of   *)
(* processes and peer lists, any messages, any mailbox capacity and any    *)
(* number of routes under way.                                             *)
(***************************************************************************)
EXTENDS Claims, LegacyRelay, TLAPS

-----------------------------------------------------------------------------
(* Claims.                                                                 *)

(* The lease of the row is the one remembered for its generation, which is *)
(* what reapExpired goes by.                                               *)
RowLease == claim # NoClaim => claim.lease = lease

(* A client that holds a connection has just authenticated: its count of   *)
(* reconnects is zero, so a close never takes it past MaxAttempts.  Close  *)
(* frames name a connection.                                               *)
ClientInv ==
  /\ (peer # 0) <=> (client = "authed")
  /\ client = "authed" => attempts = 0
  /\ \A c \in closes : c[1] # 0

(* The inductive invariant.                                                *)
CInv ==
  /\ RoutesMatchConnections
  /\ FencingTokens
  /\ OwnerKeepsClaim
  /\ RowLease
  /\ ClientInv

ClaimRow == [authority : Authority, generation : Generation \ {0}, lease : Nat]

TablesAgree ==
  \A a \in Authority : /\ open[a] = {current[a]} \ {0}
                        /\ routed[a] = current[a]
                        /\ online[a] = (current[a] # 0)

--------------------------------------------------------------------------------
LEMMA InitInv == ClaimsInit => CInv
<1> SUFFICES ASSUME ClaimsInit PROVE CInv
  OBVIOUS
<1> USE DEF ClaimsInit
<1>1. ClaimsTypeOK
  BY ClaimsAssumption DEF ClaimsTypeOK, Generation
<1>2. TablesAgree
  BY DEF TablesAgree
<1>3. FencingTokens
  BY DEF FencingTokens
<1>4. OwnerKeepsClaim /\ RowLease /\ ClientInv
  BY DEF OwnerKeepsClaim, RowLease, ClientInv
<1> QED
  BY <1>1, <1>2, <1>3, <1>4 DEF CInv, RoutesMatchConnections, TablesAgree

(* A row that is written is not NoClaim, and has the fields written.       *)
LEMMA RowIs ==
  ASSUME NEW a \in Authority, NEW g \in Generation \ {0}, NEW l \in Nat,
         NEW c, c = [authority |-> a, generation |-> g, lease |-> l]
  PROVE  /\ c \in ClaimRow /\ c # NoClaim
         /\ c.authority = a /\ c.generation = g /\ c.lease = l
<1>1. MaxGeneration \in Nat /\ NoClaim \notin [authority : Authority, generation : Nat, lease : Nat]
  BY ClaimsAssumption
<1>2. c \in [authority : Authority, generation : Nat, lease : Nat]
  BY <1>1 DEF Generation
<1> QED
  BY <1>1, <1>2 DEF ClaimRow

--------------------------------------------------------------------------------
(* Every way a gateway gives up its connection, and a timer that has none: *)
(* the tables are cleared, no socket stays open, and the row goes only if  *)
(* it is the gateway's own or its lease has run out.                       *)
GivesUp(a) ==
  /\ Leave(a)
  /\ open' = [open EXCEPT ![a] = {}]
  /\ closing' \in [Authority -> SUBSET Generation]
  /\ \/ claim' = claim
     \/ claim' = NoClaim /\ (claim = NoClaim \/ Owns(a, current[a]) \/ claim.lease <= now)
  /\ \/ closes' = closes
     \/ \E code \in Code : current[a] # 0 /\ closes' = closes \union {<<current[a], code>>}
  /\ up' \in [Authority -> BOOLEAN]
  /\ UNCHANGED <<now, highWater, lease, status, clientVars, notices, pumped>>

LEMMA GivesUpInv ==
  ASSUME CInv, NEW a \in Authority, GivesUp(a)
  PROVE  CInv'
<1> USE DEF CInv, GivesUp, Leave, clientVars
<1>1. ClaimsTypeOK'
  BY ClaimsAssumption DEF RoutesMatchConnections, ClaimsTypeOK, Generation
<1>2. TablesAgree'
  BY DEF RoutesMatchConnections, ClaimsTypeOK, TablesAgree, Generation
<1>3. FencingTokens'
  BY ClaimsAssumption DEF RoutesMatchConnections, ClaimsTypeOK, FencingTokens, Generation
<1>4. OwnerKeepsClaim'
  BY ClaimsAssumption
  DEF RoutesMatchConnections, ClaimsTypeOK, FencingTokens, OwnerKeepsClaim, RowLease, Owns,
      Generation
<1>5. RowLease' /\ ClientInv'
  BY DEF RowLease, ClientInv
<1> QED
  BY <1>1, <1>2, <1>3, <1>4, <1>5 DEF RoutesMatchConnections, TablesAgree

LEMMA OpenInv ==
  ASSUME CInv, NEW a \in Authority, Open(a)
  PROVE  CInv'
<1> USE ClaimsAssumption DEF CInv, Open, Claim
<1>0. /\ highWater \in Generation /\ highWater' = highWater + 1 /\ highWater' \in Generation \ {0}
      /\ now \in Nat /\ now + Ttl \in Nat /\ lease' = now + Ttl /\ now + Ttl > now
      /\ claim' = [authority |-> a, generation |-> highWater', lease |-> now + Ttl]
  BY DEF RoutesMatchConnections, ClaimsTypeOK, Generation
<1>1. /\ claim' \in ClaimRow /\ claim' # NoClaim /\ claim'.authority = a
      /\ claim'.generation = highWater' /\ claim'.lease = lease'
  BY <1>0, RowIs
<1>2. current' = [current EXCEPT ![a] = highWater'] /\ current \in [Authority -> Generation]
  BY DEF RoutesMatchConnections, ClaimsTypeOK
<1>3. ClaimsTypeOK'
  BY <1>0, <1>1, <1>2 DEF RoutesMatchConnections, ClaimsTypeOK, ClaimRow, Code
<1>4. TablesAgree'
  <2>1. highWater' # 0 BY <1>0
  <2>2. open[a] \ {current[a]} = {}
    BY DEF RoutesMatchConnections
  <2>3. open' = [open EXCEPT ![a] = {highWater'}]
    BY <2>2
  <2>4. TablesAgree /\ open \in [Authority -> SUBSET Generation]
          /\ routed \in [Authority -> Generation] /\ online \in [Authority -> BOOLEAN]
    BY DEF RoutesMatchConnections, ClaimsTypeOK, TablesAgree
  <2>5. /\ routed' = [routed EXCEPT ![a] = highWater']
        /\ online' = [online EXCEPT ![a] = TRUE]
    OBVIOUS
  <2>6. ASSUME NEW b \in Authority
        PROVE  /\ open'[b] = {current'[b]} \ {0}
               /\ routed'[b] = current'[b]
               /\ online'[b] = (current'[b] # 0)
    <3> HIDE DEF CInv, Open, Claim
    <3>1. CASE b = a
      <4>1. /\ open'[b] = {highWater'} /\ current'[b] = highWater'
            /\ routed'[b] = highWater' /\ online'[b] = TRUE
        BY ONLY <3>1, <1>2, <2>3, <2>4, <2>5
      <4>2. {highWater'} = {highWater'} \ {0}
        BY ONLY <2>1
      <4>3. online'[b] = (current'[b] # 0)
        BY ONLY <2>1, <4>1
      <4> QED BY ONLY <4>1, <4>2, <4>3
    <3>2. CASE b # a BY ONLY <3>2, <1>2, <2>3, <2>4, <2>5 DEF TablesAgree
    <3> QED BY <3>1, <3>2
  <2> QED BY ONLY <2>6 DEF TablesAgree
<1>5. FencingTokens'
  BY <1>0, <1>1, <1>2 DEF FencingTokens, Generation
<1>6. OwnerKeepsClaim'
  BY <1>0, <1>1, <1>2 DEF FencingTokens, OwnerKeepsClaim, Owns, Generation
<1>7. RowLease' /\ ClientInv'
  BY <1>0, <1>1 DEF RowLease, ClientInv
<1> QED
  BY <1>3, <1>4, <1>5, <1>6, <1>7 DEF RoutesMatchConnections, TablesAgree

(* A renewal moves the lease of the row and of its generation together.    *)
LEMMA RenewInv ==
  ASSUME CInv, NEW a \in Authority, RenewTimer(a), current[a] # 0, Owns(a, current[a])
  PROVE  CInv'
<1> USE ClaimsAssumption DEF CInv, RenewTimer
<1>0. /\ claim \in ClaimRow /\ now \in Nat /\ now + Ttl \in Nat /\ now + Ttl > now
      /\ lease' = now + Ttl /\ claim' = Reaped(Renewed)
      /\ UNCHANGED <<now, highWater, gatewayVars, status, clientVars, closes, notices, pumped>>
  BY DEF RoutesMatchConnections, ClaimsTypeOK, Owns, gatewayVars, tables, sockets, ClaimRow
<1>1. claim' = [claim EXCEPT !.lease = now + Ttl]
  BY <1>0 DEF Reaped, Renewed, ClaimRow
<1>2. /\ claim' \in ClaimRow /\ claim' # NoClaim /\ claim'.authority = claim.authority
      /\ claim'.generation = claim.generation /\ claim'.lease = lease'
  <2>1. claim' = [authority |-> claim.authority, generation |-> claim.generation,
                  lease |-> now + Ttl]
    BY <1>0, <1>1 DEF ClaimRow
  <2> QED BY <1>0, <2>1, RowIs DEF ClaimRow
<1>3. ClaimsTypeOK'
  BY <1>0, <1>2 DEF RoutesMatchConnections, ClaimsTypeOK, ClaimRow, gatewayVars, tables, sockets, clientVars
<1>4. TablesAgree'
  BY <1>0 DEF RoutesMatchConnections, TablesAgree, gatewayVars, tables, sockets
<1>5. FencingTokens'
  BY <1>0, <1>2 DEF FencingTokens, gatewayVars, tables, clientVars, Owns
<1>6. OwnerKeepsClaim'
  BY <1>0, <1>2 DEF FencingTokens, OwnerKeepsClaim, Owns, gatewayVars, tables, RoutesMatchConnections,
     ClaimsTypeOK, Generation
<1>7. RowLease' /\ ClientInv'
  BY <1>0, <1>2 DEF RowLease, ClientInv, clientVars
<1> QED
  BY <1>3, <1>4, <1>5, <1>6, <1>7 DEF RoutesMatchConnections, TablesAgree

(* Steps of the client, the owner, the clock and the notices leave the     *)
(* gateways and the claim table alone.                                     *)
Apart == UNCHANGED <<claimTable, gatewayVars>>

LEMMA ApartInv ==
  ASSUME CInv, Apart, ClaimsTypeOK', ClientInv', peer' <= highWater, now <= now'
  PROVE  CInv'
<1> USE DEF CInv, Apart, claimTable, gatewayVars, tables, sockets
<1>1. TablesAgree'
  BY DEF RoutesMatchConnections, TablesAgree
<1>2. FencingTokens' /\ RowLease'
  BY DEF FencingTokens, RowLease
<1>3. OwnerKeepsClaim'
  BY DEF OwnerKeepsClaim, Owns, RoutesMatchConnections, ClaimsTypeOK
<1> QED
  BY <1>1, <1>2, <1>3 DEF RoutesMatchConnections, TablesAgree

LEMMA ClosedIs ==
  ASSUME CInv, NEW code, client = "authed", Closed(code),
         closes' \subseteq closes,
         UNCHANGED <<now, claimTable, gatewayVars, status, notices, pumped>>
  PROVE  CInv'
<1>1. ClaimsTypeOK'
  BY ClaimsAssumption
  DEF CInv, ClientInv, RoutesMatchConnections, ClaimsTypeOK, Closed, claimTable, gatewayVars,
      tables, sockets, Generation
<1>2. ClientInv' /\ peer' = 0
  BY DEF CInv, ClientInv, Closed
<1>3. peer' <= highWater /\ now <= now'
  BY <1>2 DEF CInv, RoutesMatchConnections, ClaimsTypeOK, Generation
<1> QED
  BY <1>1, <1>2, <1>3, ApartInv DEF Apart

LEMMA ClientSteps ==
  ASSUME CInv,
         \/ Break \/ OpenFails \/ RestartClient \/ Suspend \/ Resume \/ Tick
         \/ \E g \in Generation, code \in Code : GetClose(g, code)
         \/ \E a \in Authority : \/ OpenRefused(a) \/ Relay(a)
                                 \/ \E g \in Generation : PumpNotify(a, g)
  PROVE  CInv'
<1> USE DEF claimTable, gatewayVars, tables, sockets, clientVars
<1>0. ClaimsTypeOK /\ ClientInv /\ peer <= highWater /\ highWater \in Nat
  BY ClaimsAssumption DEF CInv, RoutesMatchConnections, FencingTokens, ClaimsTypeOK, Generation
<1>1. CASE Break
  BY <1>0, <1>1, ClosedIs DEF Break, Code
<1>2. ASSUME NEW g \in Generation, NEW code \in Code, GetClose(g, code)
      PROVE  CInv'
  <2>1. CASE g = peer
    <3>1. client = "authed" BY <1>0, <1>2, <2>1 DEF GetClose, ClientInv
    <3> QED BY <1>2, <2>1, <3>1, ClosedIs DEF GetClose
  <2>2. CASE g # peer
    BY <1>0, <1>2, <2>2, ApartInv DEF GetClose, Apart, ClaimsTypeOK, ClientInv
  <2> QED BY <2>1, <2>2
<1>3. CASE OpenFails
  BY <1>0, <1>3, ApartInv, ClaimsAssumption DEF OpenFails, Apart, ClaimsTypeOK, ClientInv
<1>4. CASE RestartClient
  BY <1>0, <1>4, ApartInv, ClaimsAssumption
  DEF RestartClient, Apart, ClaimsTypeOK, ClientInv, Generation
<1>5. CASE Suspend \/ Resume
  <2>1. /\ UNCHANGED <<now, claimTable, gatewayVars, clientVars, closes, notices, pumped>>
        /\ status' \in {"active", "suspended"}
    BY <1>5 DEF Suspend, Resume
  <2> QED BY <1>0, <2>1, ApartInv, ClaimsAssumption DEF Apart, ClaimsTypeOK, ClientInv
<1>6. CASE Tick
  BY <1>0, <1>6, ApartInv, ClaimsAssumption DEF Tick, Apart, ClaimsTypeOK, ClientInv
<1>7. ASSUME NEW a \in Authority, OpenRefused(a) \/ Relay(a) \/ \E g \in Generation : PumpNotify(a, g)
      PROVE  CInv'
  <2>1. claim # NoClaim => claim.generation \in Generation
    BY <1>0 DEF ClaimsTypeOK
  <2> DEFINE Small == /\ Apart /\ UNCHANGED <<now, peer, attempts, closes, status>>
                      /\ client' \in {client, "stopped"} /\ (client' # client => client = "idle")
                      /\ notices' \subseteq Generation /\ pumped' \in Generation
  <2>2. Small
    <3>1. CASE OpenRefused(a) BY <1>0, <3>1 DEF OpenRefused, Apart, ClaimsTypeOK
    <3>2. CASE Relay(a) BY <1>0, <2>1, <3>2 DEF Relay, Apart, ClaimsTypeOK
    <3>3. ASSUME NEW g \in Generation, PumpNotify(a, g)
          PROVE  Small
      BY <1>0, <3>3 DEF PumpNotify, Apart, ClaimsTypeOK
    <3> QED BY <1>7, <3>1, <3>2, <3>3
  <2>3. ClaimsTypeOK' /\ ClientInv'
    BY <1>0, <2>2 DEF Apart, ClaimsTypeOK, ClientInv
  <2> QED BY <1>0, <2>2, <2>3, ApartInv DEF ClaimsTypeOK
<1> QED
  BY <1>1, <1>2, <1>3, <1>4, <1>5, <1>6, <1>7

LEMMA GatewaySteps ==
  ASSUME CInv, NEW a \in Authority,
         \/ SocketCloses(a, current[a]) \/ SocketErrors(a, current[a]) \/ SyncRegistry(a)
         \/ FailClosed(a) \/ Shutdown(a) \/ Crash(a)
         \/ RenewTimer(a) /\ ~(current[a] # 0 /\ Owns(a, current[a]))
  PROVE  GivesUp(a)
<1> USE DEF GivesUp, Release, claimTable, clientVars
<1>0. /\ up \in [Authority -> BOOLEAN] /\ current \in [Authority -> Generation]
      /\ open \in [Authority -> SUBSET Generation] /\ closing \in [Authority -> SUBSET Generation]
      /\ open[a] \ {current[a]} = {} /\ current[a] \in Generation
  BY DEF CInv, RoutesMatchConnections, ClaimsTypeOK
<1>1. CASE SocketCloses(a, current[a])
  <2>1. claim' = Release(a, current[a]) /\ Leave(a)
    BY <1>1 DEF SocketCloses, Disconnect
  <2>2. open' = [open EXCEPT ![a] = {}] /\ closing' \in [Authority -> SUBSET Generation]
    BY <1>0, <1>1 DEF SocketCloses
  <2> QED BY <1>0, <1>1, <2>1, <2>2 DEF SocketCloses
<1>7. CASE SocketErrors(a, current[a])
  <2>1. claim' = Release(a, current[a]) /\ Leave(a)
    BY <1>7 DEF SocketErrors, Disconnect
  <2>2. open' = [open EXCEPT ![a] = {}] /\ closing' \in [Authority -> SUBSET Generation]
    BY <1>0, <1>7 DEF SocketErrors, CloseSockets
  <2> QED BY <1>0, <1>7, <2>1, <2>2 DEF SocketErrors
<1>2. CASE SyncRegistry(a)
  <2>1. claim' = Release(a, current[a]) /\ Leave(a)
    BY <1>2 DEF SyncRegistry, Disconnect
  <2>2. open' = [open EXCEPT ![a] = {}] /\ closing' \in [Authority -> SUBSET Generation]
    BY <1>0, <1>2 DEF SyncRegistry, CloseSockets
  <2> QED BY <1>0, <1>2, <2>1, <2>2 DEF SyncRegistry, Code
<1>3. CASE FailClosed(a)
  BY <1>0, <1>3 DEF FailClosed, SocketsEnd
<1>4. CASE Shutdown(a)
  BY <1>0, <1>4 DEF Shutdown, SocketsEnd
<1>5. CASE Crash(a)
  BY <1>0, <1>5 DEF Crash, SocketsEnd
<1>6. CASE RenewTimer(a) /\ ~(current[a] # 0 /\ Owns(a, current[a]))
  <2>1. claim' = Reaped(claim) /\ UNCHANGED <<now, highWater, lease, up, status, clientVars, notices, pumped>>
    BY <1>6 DEF RenewTimer
  <2>2. claim' = claim \/ (claim' = NoClaim /\ claim.lease <= now)
    BY <2>1 DEF Reaped
  <2>3. CASE current[a] # 0
    <3>1. /\ CloseSockets(a, {current[a]}) /\ Leave(a)
          /\ closes' = closes \union {<<current[a], 4000>>}
      BY <1>6, <2>3 DEF RenewTimer
    <3>2. open' = [open EXCEPT ![a] = {}] /\ closing' \in [Authority -> SUBSET Generation]
      BY <1>0, <3>1 DEF CloseSockets
    <3> QED BY <1>0, <2>1, <2>2, <2>3, <3>1, <3>2 DEF Code
  <2>4. CASE current[a] = 0
    <3>1. UNCHANGED <<current, routed, online, open, closing, closes>>
      BY <1>6, <2>4 DEF RenewTimer, tables, sockets
    <3>2. /\ routed[a] = 0 /\ online[a] = FALSE /\ open[a] = {}
          /\ routed \in [Authority -> Generation] /\ online \in [Authority -> BOOLEAN]
      BY <2>4 DEF CInv, RoutesMatchConnections, ClaimsTypeOK
    <3>3. Leave(a) /\ open' = [open EXCEPT ![a] = {}]
      BY <1>0, <2>4, <3>1, <3>2 DEF Leave
    <3> QED BY <1>0, <2>1, <2>2, <3>1, <3>3
  <2> QED BY <2>3, <2>4
<1> QED
  BY <1>1, <1>2, <1>3, <1>4, <1>5, <1>6, <1>7

(* The events of a socket that is not the current connection: the guard of *)
(* disconnect() lets nothing through, and the socket was not open, because *)
(* a replaced socket has been closed in the step that replaced it.         *)
LEMMA LateEvent ==
  ASSUME CInv, NEW a \in Authority, NEW g \in Generation, g # current[a],
         SocketCloses(a, g) \/ SocketErrors(a, g)
  PROVE  CInv'
<1>0. g \notin open[a] /\ open \in [Authority -> SUBSET Generation]
  BY DEF CInv, RoutesMatchConnections, ClaimsTypeOK
<1>1. /\ UNCHANGED <<now, claimTable, tables, up, status, clientVars, closes, notices, pumped>>
      /\ open' = [open EXCEPT ![a] = @ \ {g}]
      /\ closing' \in [Authority -> SUBSET Generation]
  BY DEF SocketCloses, SocketErrors, CloseSockets, Disconnect, claimTable, CInv,
     RoutesMatchConnections, ClaimsTypeOK
<1>2. open' = open
  BY <1>0, <1>1
<1> QED
  BY <1>1, <1>2
  DEF claimTable, tables, clientVars, CInv, RoutesMatchConnections, ClaimsTypeOK, FencingTokens,
      OwnerKeepsClaim, Owns, RowLease, ClientInv

LEMMA StepInv == CInv /\ [ClaimsNext]_claimsVars => CInv'
<1> SUFFICES ASSUME CInv, [ClaimsNext]_claimsVars PROVE CInv'
  OBVIOUS
<1>1. ASSUME NEW a \in Authority, Open(a)
      PROVE  CInv'
  BY <1>1, OpenInv
<1>2. ASSUME NEW a \in Authority,
             SyncRegistry(a) \/ FailClosed(a) \/ Shutdown(a) \/ Crash(a)
      PROVE  CInv'
  BY <1>2, GatewaySteps, GivesUpInv
<1>6. ASSUME NEW a \in Authority, NEW g \in Generation, SocketCloses(a, g) \/ SocketErrors(a, g)
      PROVE  CInv'
  <2>1. CASE g # current[a] BY <1>6, <2>1, LateEvent
  <2>2. CASE g = current[a]
    <3>1. GivesUp(a) BY <1>6, <2>2, GatewaySteps
    <3> QED BY <3>1, GivesUpInv
  <2> QED BY <2>1, <2>2
<1>3. ASSUME NEW a \in Authority, RenewTimer(a)
      PROVE  CInv'
  BY <1>3, RenewInv, GatewaySteps, GivesUpInv
<1>4. ASSUME NEW a \in Authority, Restart(a)
      PROVE  CInv'
  <2> USE <1>4 DEF Restart, claimTable, clientVars, tables, sockets
  <2>1. ClaimsTypeOK'
    BY DEF CInv, RoutesMatchConnections, ClaimsTypeOK
  <2>2. TablesAgree'
    BY DEF CInv, RoutesMatchConnections, TablesAgree
  <2>3. FencingTokens' /\ OwnerKeepsClaim' /\ RowLease' /\ ClientInv'
    BY DEF CInv, FencingTokens, OwnerKeepsClaim, Owns, RowLease, ClientInv
  <2> QED BY <2>1, <2>2, <2>3 DEF CInv, RoutesMatchConnections, TablesAgree
<1>5. CASE UNCHANGED claimsVars
  BY <1>5
  DEF claimsVars, claimTable, gatewayVars, tables, sockets, clientVars, CInv, RoutesMatchConnections, ClaimsTypeOK,
      FencingTokens, OwnerKeepsClaim, Owns, RowLease, ClientInv
<1> QED
  BY <1>1, <1>2, <1>3, <1>4, <1>5, <1>6, ClientSteps DEF ClaimsNext

--------------------------------------------------------------------------------
(* CInv holds in every reachable state.                                    *)
THEOREM ClaimsInvariant == ClaimsSpec => []CInv
<1> QED BY InitInv, StepInv, PTL DEF ClaimsSpec

(* Generations are fencing tokens: never issued twice, never behind the    *)
(* row, one connection each (claim.ts, claim-store.ts).                    *)
THEOREM GenerationsFence == ClaimsSpec => []FencingTokens
<1>1. CInv => FencingTokens BY DEF CInv
<1> QED BY ClaimsInvariant, <1>1, PTL

(* No release, reap or replacement of an older connection takes the claim  *)
(* of the newest one while its lease runs.                                 *)
THEOREM OwnersKeep == ClaimsSpec => []OwnerKeepsClaim
<1>1. CInv => OwnerKeepsClaim BY DEF CInv
<1> QED BY ClaimsInvariant, <1>1, PTL

(* The late close or error of a replaced socket never takes the node's     *)
(* newer connection out of the tables, and a connection that ends leaves   *)
(* none of them behind (the guard of disconnect(), ws.ts).                 *)
THEOREM TablesMatch == ClaimsSpec => []RoutesMatchConnections
<1>1. CInv => RoutesMatchConnections BY DEF CInv
<1> QED BY ClaimsInvariant, <1>1, PTL

(* A pump notice, however late, only serves the newest connection.         *)
THEOREM NoticesServeOwner == ClaimsSpec => NoticeServesOwner
<1>1. CInv /\ [ClaimsNext]_claimsVars => [pumped' # pumped => pumped' = highWater]_claimsVars
  <2> SUFFICES ASSUME CInv, ClaimsNext, pumped' # pumped
               PROVE  pumped' = highWater
    BY DEF claimsVars
  <2>1. PICK a \in Authority, g \in Generation : PumpNotify(a, g)
    <3>1. ~(Break \/ OpenFails \/ RestartClient \/ Suspend \/ Resume \/ Tick)
      BY DEF Break, OpenFails, RestartClient, Suspend, Resume, Tick
    <3>2. \A g \in Generation, code \in Code : ~GetClose(g, code)
      BY DEF GetClose
    <3>3. \A a \in Authority : ~(Open(a) \/ OpenRefused(a) \/ SyncRegistry(a))
      BY DEF Open, OpenRefused, SyncRegistry
    <3>5. \A a \in Authority, g \in Generation : ~(SocketCloses(a, g) \/ SocketErrors(a, g))
      BY DEF SocketCloses, SocketErrors
    <3>4. \A a \in Authority : ~(RenewTimer(a) \/ FailClosed(a) \/ Shutdown(a) \/ Crash(a)
                                  \/ Restart(a) \/ Relay(a))
      BY DEF RenewTimer, FailClosed, Shutdown, Crash, Restart, Relay
    <3> QED BY <3>1, <3>2, <3>3, <3>4, <3>5 DEF ClaimsNext
  <2> QED BY <2>1 DEF PumpNotify, Owns, CInv, FencingTokens
<1> QED BY ClaimsInvariant, <1>1, PTL DEF ClaimsSpec, NoticeServesOwner

-----------------------------------------------------------------------------
(* LegacyRelay.                                                            *)

Box == {box \in Seq(Messages) : Len(box) <= Capacity}

Mail == UNION {In(inbox[g]) : g \in Gateways}

(* A mailbox file never holds more than a mailbox may: what a restart      *)
(* loads fits again.                                                       *)
RelayTyped ==
  /\ clustered \in BOOLEAN
  /\ outbox \subseteq Messages /\ sent \subseteq Messages
  /\ expired \subseteq Messages /\ ended \subseteq Messages
  /\ source \in Gateways \cup {NoGateway} /\ has \subseteq Gateways
  /\ inbox \in [Gateways -> Box] /\ file \in [Gateways -> Box]
  /\ routes \subseteq Route

AllAccounted == \A m \in sent : m \in outbox \cup ended \cup Mail

(* The inductive invariant.                                                *)
LInv == RelayTyped /\ NoMailBesideConnection /\ AllAccounted

LEMMA InAppend ==
  ASSUME NEW s \in Seq(Messages), NEW m \in Messages
  PROVE  In(Append(s, m)) = In(s) \cup {m}
<1>1. Len(Append(s, m)) = Len(s) + 1 /\ Len(s) \in Nat
  OBVIOUS
<1>2. \A i \in 1..Len(s) : Append(s, m)[i] = s[i]
  OBVIOUS
<1>3. Append(s, m)[Len(s) + 1] = m
  OBVIOUS
<1> QED BY <1>1, <1>2, <1>3 DEF In

LEMMA InTail ==
  ASSUME NEW s \in Seq(Messages), s # <<>>
  PROVE  In(s) = {Head(s)} \cup In(Tail(s))
<1>1. Len(s) \in Nat /\ Len(s) >= 1 /\ Len(Tail(s)) = Len(s) - 1
  OBVIOUS
<1>2. Head(s) = s[1] /\ \A i \in 1..Len(Tail(s)) : Tail(s)[i] = s[i + 1]
  OBVIOUS
<1>3. \A i \in 2..Len(s) : i - 1 \in 1..Len(Tail(s)) /\ Tail(s)[i - 1] = s[i]
  BY <1>1, <1>2
<1>4. \A x \in In(s) : x \in {Head(s)} \cup In(Tail(s))
  <2> SUFFICES ASSUME NEW i \in 1..Len(s) PROVE s[i] \in {Head(s)} \cup In(Tail(s))
    BY DEF In
  <2>1. CASE i = 1 BY <2>1, <1>2
  <2>2. CASE i # 1
    <3>1. i - 1 \in 1..Len(Tail(s)) /\ Tail(s)[i - 1] = s[i]
      BY <1>1, <1>3, <2>2
    <3> QED BY <3>1 DEF In
  <2> QED BY <2>1, <2>2
<1>5. Head(s) \in In(s) BY <1>1, <1>2 DEF In
<1>6. \A x \in In(Tail(s)) : x \in In(s)
  <2> SUFFICES ASSUME NEW i \in 1..Len(Tail(s)) PROVE Tail(s)[i] \in In(s)
    BY DEF In
  <2>1. i + 1 \in 1..Len(s) /\ Tail(s)[i] = s[i + 1]
    BY <1>1, <1>2
  <2> QED BY <2>1 DEF In
<1> QED BY <1>4, <1>5, <1>6

(* offer keeps the capacity; what is not in the new box made room for it.  *)
LEMMA OfferedBox ==
  ASSUME NEW box \in Box, NEW m \in Messages
  PROVE  /\ Offered(box, m) \in Box /\ Overflow(box) \subseteq Messages
         /\ m \in In(Offered(box, m))
         /\ In(box) \subseteq In(Offered(box, m)) \cup Overflow(box)
<1>1. box \in Seq(Messages) /\ Len(box) \in Nat /\ Len(box) <= Capacity
      /\ Capacity \in Nat /\ Capacity >= 1
  BY RelayAssumption DEF Box
<1>2. CASE Len(box) >= Capacity
  <2>1. box # <<>> /\ Head(box) \in Messages /\ Tail(box) \in Seq(Messages)
        /\ Len(Tail(box)) = Len(box) - 1
    BY <1>1, <1>2
  <2>2. Offered(box, m) = Append(Tail(box), m) /\ Overflow(box) = {Head(box)}
    BY <1>2 DEF Offered, Overflow
  <2>3. Append(Tail(box), m) \in Seq(Messages) /\ Len(Append(Tail(box), m)) <= Capacity
    BY <1>1, <2>1
  <2>4. In(Append(Tail(box), m)) = In(Tail(box)) \cup {m}
    BY <2>1, InAppend
  <2>5. In(box) = {Head(box)} \cup In(Tail(box))
    BY <1>1, <2>1, InTail
  <2>6. Offered(box, m) \in Box
    BY <2>2, <2>3 DEF Box
  <2> QED BY <2>1, <2>2, <2>4, <2>5, <2>6
<1>3. CASE ~(Len(box) >= Capacity)
  <2>1. Offered(box, m) = Append(box, m) /\ Overflow(box) = {}
    BY <1>3 DEF Offered, Overflow
  <2>2. Append(box, m) \in Seq(Messages) /\ Len(Append(box, m)) <= Capacity
    BY <1>1, <1>3
  <2> QED BY <1>1, <2>1, <2>2, InAppend DEF Box
<1> QED BY <1>2, <1>3

(* A message stays accounted for when the outbox gives it up only to a     *)
(* mailbox or an end, and a mailbox only to an end.                        *)
LEMMA Accounted ==
  ASSUME LInv, RelayTyped', NoMailBesideConnection',
         sent' = sent, ended \subseteq ended',
         outbox \subseteq outbox' \cup ended' \cup Mail', Mail \subseteq Mail' \cup ended'
  PROVE  LInv'
BY DEF LInv, AllAccounted

(* Writing one mailbox.                                                    *)
LEMMA BoxSet ==
  ASSUME RelayTyped, NEW g \in Gateways, NEW box \in Box, SetBox(g, box),
         In(inbox[g]) \subseteq In(box) \cup ended'
  PROVE  /\ inbox' \in [Gateways -> Box] /\ file' \in [Gateways -> Box]
         /\ inbox'[g] = box /\ \A h \in Gateways \ {g} : inbox'[h] = inbox[h]
         /\ Mail \subseteq Mail' \cup ended' /\ In(box) \subseteq Mail'
<1>1. inbox \in [Gateways -> Box] /\ file \in [Gateways -> Box]
  BY DEF RelayTyped
<1>2. inbox' = [inbox EXCEPT ![g] = box] /\ file' \in {file, [file EXCEPT ![g] = box]}
  BY DEF SetBox
<1>3. inbox' \in [Gateways -> Box] /\ file' \in [Gateways -> Box]
  BY <1>1, <1>2
<1>4. inbox'[g] = box /\ \A h \in Gateways \ {g} : inbox'[h] = inbox[h]
  BY <1>1, <1>2
<1>5. In(box) \subseteq Mail'
  BY <1>4 DEF Mail
<1>6. Mail \subseteq Mail' \cup ended'
  <2> SUFFICES ASSUME NEW h \in Gateways PROVE In(inbox[h]) \subseteq Mail' \cup ended'
    BY DEF Mail
  <2>1. CASE h = g BY <1>5, <2>1
  <2>2. CASE h # g BY <1>4, <2>2 DEF Mail
  <2> QED BY <2>1, <2>2
<1> QED BY <1>3, <1>4, <1>5, <1>6

(* What the mailboxes and the ends may become in a step of routing: a      *)
(* message that is queued lies in a mailbox, one that is delivered has     *)
(* ended, and the mailbox beside a connection stays empty.                 *)
Routed(m) ==
  /\ inbox' \in [Gateways -> Box] /\ file' \in [Gateways -> Box]
  /\ \A g \in has : inbox'[g] = <<>>
  /\ ended' \subseteq Messages /\ ended \subseteq ended'
  /\ Mail \subseteq Mail' \cup ended' /\ m \in Mail' \cup ended'

LEMMA QueueRoutes ==
  ASSUME LInv, NEW g \in Gateways \ has, NEW m \in Messages, QueueInbox(g, m)
  PROVE  Routed(m)
<1>1. RelayTyped /\ \A h \in has : inbox[h] = <<>>
  BY DEF LInv, NoMailBesideConnection
<1>2. inbox[g] \in Box /\ ended \subseteq Messages /\ has \subseteq Gateways
  BY <1>1 DEF RelayTyped
<1>3. PICK box \in Box : /\ box = Offered(inbox[g], m) /\ m \in In(box)
                         /\ In(inbox[g]) \subseteq In(box) \cup Overflow(inbox[g])
                         /\ Overflow(inbox[g]) \subseteq Messages
  BY <1>2, OfferedBox
<1>4. SetBox(g, box) /\ ended' = ended \cup Overflow(inbox[g])
  BY <1>3 DEF QueueInbox
<1>5. /\ inbox' \in [Gateways -> Box] /\ file' \in [Gateways -> Box]
      /\ \A h \in Gateways \ {g} : inbox'[h] = inbox[h]
      /\ Mail \subseteq Mail' \cup ended' /\ In(box) \subseteq Mail'
  BY <1>1, <1>3, <1>4, BoxSet
<1>6. \A h \in has : inbox'[h] = <<>>
  BY <1>1, <1>2, <1>5
<1> QED BY <1>2, <1>3, <1>4, <1>5, <1>6 DEF Routed

LEMMA TakeEmpties ==
  ASSUME LInv, NEW g \in Gateways, NEW box \in Seq(Messages),
         In(inbox[g]) \subseteq In(box), TakeInbox(g, box)
  PROVE  /\ inbox' \in [Gateways -> Box] /\ file' \in [Gateways -> Box]
         /\ \A h \in has \cup {g} : inbox'[h] = <<>>
         /\ ended' \subseteq Messages /\ ended \subseteq ended' /\ In(box) \subseteq ended'
         /\ Mail \subseteq Mail' \cup ended'
<1>1. RelayTyped /\ \A h \in has : inbox[h] = <<>>
  BY DEF LInv, NoMailBesideConnection
<1>2. SetBox(g, <<>>) /\ ended' = ended \cup In(box) /\ <<>> \in Box
  BY RelayAssumption DEF TakeInbox, Drain, Box
<1>3. /\ inbox' \in [Gateways -> Box] /\ file' \in [Gateways -> Box]
      /\ inbox'[g] = <<>> /\ \A h \in Gateways \ {g} : inbox'[h] = inbox[h]
      /\ Mail \subseteq Mail' \cup ended'
  BY <1>1, <1>2, BoxSet
<1>4. In(box) \subseteq Messages
  BY DEF In
<1>5. ended \subseteq Messages /\ has \subseteq Gateways
  BY <1>1 DEF RelayTyped
<1> QED BY <1>1, <1>2, <1>3, <1>4, <1>5

LEMMA DeliverRoutes ==
  ASSUME LInv, NEW m \in Messages, ended' = ended \cup {m}, UNCHANGED boxVars
  PROVE  Routed(m)
<1>1. RelayTyped /\ \A h \in has : inbox[h] = <<>>
  BY DEF LInv, NoMailBesideConnection
<1>2. UNCHANGED <<inbox, file>> /\ Mail' = Mail
  BY DEF boxVars, Mail
<1> QED BY <1>1, <1>2 DEF Routed, RelayTyped

(* A step of routing that gives up no message, or only the one it routed.  *)
LEMMA RoutingKeeps ==
  ASSUME LInv, NEW m \in Messages, UNCHANGED nodeVars, routes' \subseteq Route,
         \/ Routed(m) /\ outbox' \in {outbox, outbox \ {m}}
         \/ UNCHANGED <<outbox, boxVars, ended>>
  PROVE  LInv'
<1>1. RelayTyped /\ \A h \in has : inbox[h] = <<>>
  BY DEF LInv, NoMailBesideConnection
<1>2. UNCHANGED <<clustered, source, has, expired, sent>>
  BY DEF nodeVars
<1>3. CASE Routed(m) /\ outbox' \in {outbox, outbox \ {m}}
  <2>1. RelayTyped'
    BY <1>1, <1>2, <1>3 DEF RelayTyped, Routed
  <2>2. NoMailBesideConnection'
    BY <1>2, <1>3 DEF NoMailBesideConnection, Routed
  <2>3. ended \subseteq ended' /\ Mail \subseteq Mail' \cup ended' /\ m \in Mail' \cup ended'
    BY <1>3 DEF Routed
  <2>4. outbox \subseteq outbox' \cup ended' \cup Mail'
    BY <1>3, <2>3
  <2> QED BY <1>2, <2>1, <2>2, <2>3, <2>4, Accounted
<1>4. CASE UNCHANGED <<outbox, boxVars, ended>>
  <2>1. UNCHANGED <<inbox, file>> /\ Mail' = Mail
    BY <1>4 DEF boxVars, Mail
  <2>2. RelayTyped'
    BY <1>1, <1>2, <1>4, <2>1 DEF RelayTyped
  <2>3. NoMailBesideConnection'
    BY <1>1, <1>2, <2>1 DEF NoMailBesideConnection
  <2> QED BY <1>2, <1>4, <2>1, <2>2, <2>3, Accounted
<1> QED BY <1>3, <1>4

LEMMA UplinkKeeps ==
  ASSUME LInv, NEW m \in Messages,
         UplinkDenied(m) \/ UplinkNotStored(m) \/ UplinkLocal(m)
           \/ UplinkQueued(m) \/ UplinkDeferred(m)
  PROVE  LInv'
<1>1. UNCHANGED nodeVars /\ routes \subseteq Route /\ source \in Gateways
  BY DEF UplinkDenied, UplinkNotStored, UplinkLocal, UplinkQueued, UplinkDeferred,
         Uplinked, LInv, RelayTyped
<1>2. CASE UplinkDenied(m) \/ UplinkNotStored(m) \/ UplinkLocal(m)
  <2>1. /\ outbox' = outbox \ {m} /\ routes' = routes
        /\ ended' = ended \cup {m} /\ UNCHANGED boxVars
    BY <1>2 DEF UplinkDenied, UplinkNotStored, UplinkLocal, Deliver, Acknowledged
  <2> QED BY <1>1, <2>1, DeliverRoutes, RoutingKeeps
<1>3. CASE UplinkQueued(m)
  <2>1. /\ source \notin has /\ QueueInbox(source, m)
        /\ outbox' = outbox \ {m} /\ routes' = routes
    BY <1>3 DEF UplinkQueued, Acknowledged
  <2> QED BY <1>1, <2>1, QueueRoutes, RoutingKeeps
<1>4. CASE UplinkDeferred(m)
  <2>1. /\ routes' = routes \cup {[msg |-> m, at |-> source, next |-> 1, acks |-> TRUE]}
        /\ UNCHANGED <<outbox, boxVars, ended>>
    BY <1>4 DEF UplinkDeferred
  <2>2. [msg |-> m, at |-> source, next |-> 1, acks |-> TRUE] \in Route
    BY <1>1 DEF Route
  <2> QED BY <1>1, <2>1, <2>2, RoutingKeeps
<1> QED BY <1>2, <1>3, <1>4

(* A route ends with or without an acknowledgement, or goes to the next    *)
(* peer; only its own message can leave the outbox.                        *)
LEMMA RouteMoves ==
  ASSUME LInv, NEW r \in routes, Finish(r) \/ TryNext(r)
  PROVE  /\ routes' \subseteq Route
         /\ outbox' \in {outbox, outbox \ {r.msg}}
<1>1. routes \subseteq Route /\ r.next \in Nat \ {0}
  BY DEF LInv, RelayTyped, Route
<1>2. CASE Finish(r)
  BY <1>1, <1>2 DEF Finish, Acknowledged
<1>3. CASE TryNext(r)
  <2>1. PICK n \in Nat \ {0} : n = r.next + 1
    BY <1>1
  <2>2. [r EXCEPT !.next = n] \in Route
    BY <1>1 DEF Route
  <2> QED BY <1>1, <1>3, <2>1, <2>2 DEF TryNext
<1> QED BY <1>2, <1>3

LEMMA RouteKeeps ==
  ASSUME LInv, NEW r \in routes, PeerHandles(r) \/ PeerFails(r) \/ HomeQueues(r)
  PROVE  LInv'
<1>1. /\ r.msg \in Messages /\ r.at \in Gateways /\ r.next \in Nat \ {0}
      /\ routes \subseteq Route
  BY DEF LInv, RelayTyped, Route
<1>2. UNCHANGED nodeVars
  BY DEF PeerHandles, PeerFails, HomeQueues
<1>3. CASE PeerHandles(r)
  <2>1. PICK p \in Gateways : p = Peers[r.at][r.next]
    <3>1. r.next \in 1..Len(Peers[r.at]) /\ Peers[r.at] \in Seq(Gateways)
      BY <1>1, <1>3, RelayAssumption DEF PeerHandles
    <3> QED BY <3>1
  <2>2. PICK result : result = InternalDeliver(p, r.msg) OBVIOUS
  <2>3. /\ CASE result = "delivered" -> Deliver(r.msg)
             [] result = "queued"    -> QueueInbox(p, r.msg)
             [] OTHER                -> UNCHANGED <<boxVars, ended>>
        /\ (TakesOver(result) /\ Finish(r)) \/ TryNext(r)
    BY <1>3, <2>1, <2>2 DEF PeerHandles
  <2>4. routes' \subseteq Route /\ outbox' \in {outbox, outbox \ {r.msg}}
    BY <2>3, RouteMoves
  <2>5. CASE result = "delivered"
    <3>1. Routed(r.msg)
      BY <1>1, <2>3, <2>5, DeliverRoutes DEF Deliver
    <3> QED BY <1>1, <1>2, <2>4, <3>1, RoutingKeeps
  <2>6. CASE result = "queued"
    <3>1. p \notin has
      BY <2>2, <2>6 DEF InternalDeliver
    <3>2. QueueInbox(p, r.msg)
      BY <2>3, <2>6
    <3>3. Routed(r.msg)
      BY <1>1, <3>1, <3>2, QueueRoutes
    <3> QED BY <1>1, <1>2, <2>4, <3>3, RoutingKeeps
  <2>7. CASE result \notin {"delivered", "queued"}
    <3>1. UNCHANGED <<boxVars, ended>> /\ TryNext(r)
      BY <2>3, <2>7 DEF TakesOver
    <3>2. UNCHANGED outbox
      BY <3>1 DEF TryNext
    <3> QED BY <1>1, <1>2, <2>4, <3>1, <3>2, RoutingKeeps
  <2> QED BY <2>5, <2>6, <2>7
<1>4. CASE PeerFails(r)
  <2>1. TryNext(r) /\ UNCHANGED <<boxVars, ended>>
    BY <1>4 DEF PeerFails
  <2>2. UNCHANGED outbox
    BY <2>1 DEF TryNext
  <2> QED BY <1>1, <1>2, <2>1, <2>2, RouteMoves, RoutingKeeps
<1>5. CASE HomeQueues(r)
  <2>1. routes' \subseteq Route /\ outbox' \in {outbox, outbox \ {r.msg}}
    BY <1>5, RouteMoves DEF HomeQueues
  <2>2. Routed(r.msg)
    <3>1. CASE r.at \in has
      <4>1. inbox[r.at] \in Seq(Messages)
        BY <1>1 DEF LInv, RelayTyped, Box
      <4>2. PICK box : box = Append(inbox[r.at], r.msg) OBVIOUS
      <4> box \in Seq(Messages)
        BY <1>1, <4>1, <4>2
      <4>3. In(box) = In(inbox[r.at]) \cup {r.msg}
        BY <1>1, <4>1, <4>2, InAppend
      <4>4. TakeInbox(r.at, box)
        BY <1>5, <3>1, <4>2 DEF HomeQueues
      <4>5. /\ inbox' \in [Gateways -> Box] /\ file' \in [Gateways -> Box]
            /\ \A h \in has \cup {r.at} : inbox'[h] = <<>>
            /\ ended' \subseteq Messages /\ ended \subseteq ended' /\ In(box) \subseteq ended'
            /\ Mail \subseteq Mail' \cup ended'
        BY <1>1, <4>3, <4>4, TakeEmpties
      <4> QED BY <4>3, <4>5 DEF Routed
    <3>2. CASE r.at \notin has
      BY <1>1, <1>5, <3>2, QueueRoutes DEF HomeQueues
    <3> QED BY <3>1, <3>2
  <2> QED BY <1>1, <1>2, <2>1, <2>2, RoutingKeeps
<1> QED BY <1>3, <1>4, <1>5

(* Connections and processes that come and go.                             *)
LEMMA ConnectionsKeep ==
  ASSUME LInv, NEW g \in Gateways,
         SenderConnects(g) \/ RecipientConnects(g) \/ RecipientLeaves(g) \/ GatewayRestarts(g)
  PROVE  LInv'
<1>1. RelayTyped /\ \A h \in has : inbox[h] = <<>>
  BY DEF LInv, NoMailBesideConnection
<1>2. CASE SenderConnects(g) \/ RecipientLeaves(g)
  <2>1. /\ UNCHANGED <<clustered, outbox, inbox, file, routes, expired, sent, ended>>
        /\ has' \subseteq has /\ source' \in Gateways \cup {NoGateway}
    BY <1>1, <1>2 DEF SenderConnects, RecipientLeaves, boxVars, RelayTyped
  <2>2. Mail' = Mail BY <2>1 DEF Mail
  <2>3. RelayTyped' BY <1>1, <2>1 DEF RelayTyped
  <2>4. NoMailBesideConnection' BY <1>1, <2>1 DEF NoMailBesideConnection
  <2> QED BY <2>1, <2>2, <2>3, <2>4, Accounted
<1>3. CASE RecipientConnects(g)
  <2>1. /\ TakeInbox(g, inbox[g]) /\ has' = has \cup {g}
        /\ UNCHANGED <<clustered, outbox, source, routes, expired, sent>>
    BY <1>3 DEF RecipientConnects
  <2>2. inbox[g] \in Seq(Messages)
    BY <1>1 DEF RelayTyped, Box
  <2>3. /\ inbox' \in [Gateways -> Box] /\ file' \in [Gateways -> Box]
        /\ \A h \in has \cup {g} : inbox'[h] = <<>>
        /\ ended' \subseteq Messages /\ ended \subseteq ended'
        /\ Mail \subseteq Mail' \cup ended'
    BY <2>1, <2>2, TakeEmpties
  <2>4. RelayTyped' BY <1>1, <2>1, <2>3 DEF RelayTyped
  <2>5. NoMailBesideConnection' BY <2>1, <2>3 DEF NoMailBesideConnection
  <2> QED BY <2>1, <2>3, <2>4, <2>5, Accounted
<1>4. CASE GatewayRestarts(g)
  <2>1. /\ inbox' = [inbox EXCEPT ![g] = file[g]]
        /\ ended' = ended \cup (In(inbox[g]) \ In(file[g]))
        /\ has' = has \ {g} /\ source' \in {source, NoGateway} /\ routes' \subseteq routes
        /\ UNCHANGED <<clustered, outbox, file, expired, sent>>
    BY <1>4 DEF GatewayRestarts
  <2>2. inbox[g] \in Box /\ file[g] \in Box
    BY <1>1 DEF RelayTyped
  <2>3. In(inbox[g]) \subseteq Messages
    BY <2>2 DEF In, Box
  <2>4. inbox'[g] = file[g] /\ \A h \in Gateways \ {g} : inbox'[h] = inbox[h]
    BY <1>1, <2>1 DEF RelayTyped
  <2>5. RelayTyped'
    BY <1>1, <2>1, <2>2, <2>3 DEF RelayTyped
  <2>6. NoMailBesideConnection'
    BY <1>1, <2>1, <2>4 DEF NoMailBesideConnection, RelayTyped
  <2>7. Mail \subseteq Mail' \cup ended'
    <3> SUFFICES ASSUME NEW h \in Gateways PROVE In(inbox[h]) \subseteq Mail' \cup ended'
      BY DEF Mail
    <3>1. CASE h = g BY <2>1, <2>4, <3>1 DEF Mail
    <3>2. CASE h # g BY <2>4, <3>2 DEF Mail
    <3> QED BY <3>1, <3>2
  <2> QED BY <2>1, <2>5, <2>6, <2>7, Accounted
<1> QED BY <1>2, <1>3, <1>4

LEMMA RelayInitInv ==
  ASSUME RelayInit PROVE LInv
<1>1. <<>> \in Box
  BY RelayAssumption DEF Box
<1> QED BY <1>1 DEF RelayInit, LInv, RelayTyped, NoMailBesideConnection, AllAccounted

LEMMA RelayStepInv ==
  ASSUME LInv, [RelayNext]_relayVars PROVE LInv'
<1>1. ASSUME NEW m \in Messages, Send(m) PROVE LInv'
  <2>1. /\ sent' = sent \cup {m} /\ outbox' = outbox \cup {m}
        /\ UNCHANGED <<clustered, source, has, inbox, file, routes, expired, ended>>
    BY <1>1 DEF Send, boxVars
  <2>2. Mail' = Mail BY <2>1 DEF Mail
  <2> QED BY <2>1, <2>2 DEF LInv, RelayTyped, NoMailBesideConnection, AllAccounted
<1>2. ASSUME \/ \E m \in Messages : Expire(m)
             \/ SenderLeaves
             \/ UNCHANGED relayVars
      PROVE  LInv'
  <2>1. UNCHANGED <<clustered, outbox, has, inbox, file, sent, ended>>
    BY <1>2 DEF Expire, SenderLeaves, relayVars, boxVars
  <2>2. expired' \subseteq Messages
    BY <1>2 DEF Expire, SenderLeaves, relayVars, LInv, RelayTyped
  <2>3. source' \in Gateways \cup {NoGateway}
    BY <1>2 DEF Expire, SenderLeaves, relayVars, LInv, RelayTyped
  <2>4. routes' \subseteq Route
    <3>1. routes \subseteq Route BY DEF LInv, RelayTyped
    <3>2. \A r \in Route : [r EXCEPT !.acks = FALSE] \in Route BY DEF Route
    <3>3. CASE SenderLeaves
      BY <3>1, <3>2, <3>3 DEF SenderLeaves
    <3>4. CASE ~SenderLeaves
      BY <1>2, <3>1, <3>4 DEF Expire, relayVars
    <3> QED BY <3>3, <3>4
  <2>5. Mail' = Mail BY <2>1 DEF Mail
  <2>6. RelayTyped' BY <2>1, <2>2, <2>3, <2>4 DEF LInv, RelayTyped
  <2>7. NoMailBesideConnection' BY <2>1 DEF LInv, NoMailBesideConnection
  <2> QED BY <2>1, <2>5, <2>6, <2>7, Accounted
<1>3. Used \subseteq Gateways
  BY RelayAssumption DEF Used
<1> QED BY <1>1, <1>2, <1>3, UplinkKeeps, RouteKeeps, ConnectionsKeep DEF RelayNext

-----------------------------------------------------------------------------
(* Mailboxes and their files stay within capacity, the mailbox beside a    *)
(* connection of the recipient is empty, and every message given to send() *)
(* is somewhere, whatever the peers answer and whoever restarts.           *)
THEOREM RelayInvariant == RelaySpec => []LInv
<1>1. RelayInit => LInv BY RelayInitInv
<1>2. LInv /\ [RelayNext]_relayVars => LInv' BY RelayStepInv
<1> QED BY <1>1, <1>2, PTL DEF RelaySpec

(* A message queued while routeAsync awaited its peers does not lie beside *)
(* a connection that was made meanwhile.                                   *)
THEOREM MailIsHandedOver == RelaySpec => []NoMailBesideConnection
<1>1. LInv => NoMailBesideConnection BY DEF LInv
<1> QED BY <1>1, RelayInvariant, PTL

(* An envelope leaves the outbox only for a mailbox or a named end (R11).  *)
THEOREM NothingIsLost == RelaySpec => []NothingVanishes
<1>1. ASSUME LInv PROVE NothingVanishes
  <2>1. RelayTypeOK
    BY <1>1 DEF LInv, RelayTyped, RelayTypeOK, Box
  <2> QED BY <1>1, <2>1 DEF LInv, AllAccounted, Mail, NothingVanishes
<1> QED BY <1>1, RelayInvariant, PTL
=============================================================================

----------------------------- MODULE RegistryProofs -----------------------------
(***************************************************************************)
(* Proofs about Registry, for all sets of identifiers (finite or not), all *)
(* limits and all lifetimes.                                               *)
(*                                                                         *)
(* The inductive invariant has one part per table.  Besides what           *)
(* validateRegistryState() asks, it says that the tables are finite, so    *)
(* that the epoch can count them, that the gateway's copy is the           *)
(* directory's view, and that an owner request was authorised for the team *)
(* it names.                                                               *)
(***************************************************************************)
EXTENDS Registry, FiniteSetTheorems, TLAPS

TeamsOK ==
  /\ teams \in [Team -> Nat \union {None}]
  /\ IsFiniteSet(Known(teams) \ Owned)

NodesOK ==
  /\ nodes \in [Node -> NodeRecord \union {None}]
  /\ IsFiniteSet(Known(nodes))
  /\ \A n \in Known(nodes) : /\ teams[nodes[n].team] # None
                             /\ nodes[n].oldest <= nodes[n].key /\ nodes[n].key <= epoch

TokensOK ==
  /\ tokens \in [Token -> TokenRecord \union {None}]
  /\ \A k \in Known(tokens) : /\ teams[tokens[k].team] # None
                              /\ tokens[k].usedBy # None => nodes[tokens[k].usedBy] # None

GrantsOK ==
  /\ grants \in [Grant -> GrantRecord \union {None}]
  /\ IsFiniteSet(Known(grants))
  /\ \A g \in Known(grants) : /\ grants[g].from # grants[g].to
                              /\ teams[grants[g].from] # None /\ teams[grants[g].to] # None

TasksOK ==
  /\ tasks \in [Task -> TaskRecord \union {None}]
  /\ \A t \in Known(tasks) : teams[tasks[t].team] # None /\ nodes[tasks[t].lead] # None

EpochOK ==
  /\ epoch \in 0..MaxEpoch
  /\ epoch >= Cardinality(Known(nodes)) + Cardinality(Known(grants))

GatewayOK ==
  /\ snapshot = View(nodes)
  /\ conn \in [Node -> Team \union {None}]

(* A request on a node was authorised for the team it names, and the node  *)
(* is known.                                                               *)
OwnerOK ==
  /\ session \in Session \union {None}
  /\ request \in Request \union {None}
  /\ request # None /\ request.kind \in {"suspend", "revoke"} =>
       nodes[request.node] # None /\ (request.global \/ request.team \in Owned)

(* The inductive invariant.                                                *)
RInv ==
  /\ now \in 0..MaxClock
  /\ TeamsOK /\ NodesOK /\ TokensOK /\ GrantsOK /\ TasksOK /\ EpochOK /\ GatewayOK /\ OwnerOK

---------------------------------------------------------------------------------
(* Facts about values.                                                     *)

LEMMA NoneIs ==
  /\ None \notin NodeRecord /\ None \notin TokenRecord /\ None \notin GrantRecord
  /\ None \notin TaskRecord /\ None \notin Session /\ None \notin Request
  /\ None \notin Team /\ None \notin Node /\ None \notin Nat
BY NoneAssumption, RegistryAssumption

(* What the parts refer to has its type.                                   *)
LEMMA RecordsTyped ==
  ASSUME RInv
  PROVE  /\ DOMAIN teams = Team /\ DOMAIN nodes = Node /\ DOMAIN tokens = Token
         /\ DOMAIN grants = Grant /\ DOMAIN tasks = Task
         /\ \A t \in Team : teams[t] # None => teams[t] \in Nat
         /\ \A n \in Node : nodes[n] # None => nodes[n] \in NodeRecord
         /\ \A k \in Token : tokens[k] # None => tokens[k] \in TokenRecord
         /\ \A g \in Grant : grants[g] # None => grants[g] \in GrantRecord
         /\ \A t \in Task : tasks[t] # None => tasks[t] \in TaskRecord
         /\ now \in Nat /\ epoch \in Nat
BY RegistryAssumption DEF RInv, TeamsOK, NodesOK, TokensOK, GrantsOK, TasksOK, EpochOK

LEMMA ViewOf ==
  ASSUME NEW ns, NEW ms, DOMAIN ns = DOMAIN ms, Known(ns) = Known(ms),
         \A n \in Known(ns) : ns[n].team = ms[n].team /\ ns[n].status = ms[n].status
  PROVE  View(ns) = View(ms)
BY DEF View

---------------------------------------------------------------------------------
(* References.  A table that a step does not write stays good as long as   *)
(* no team and no node goes away.                                          *)

Grows ==
  /\ \A t \in Team : teams[t] # None => teams'[t] # None
  /\ \A n \in Node : nodes[n] # None => nodes'[n] # None

LEMMA TokensKept ==
  ASSUME RInv, Grows, tokens' = tokens
  PROVE  TokensOK'
BY RecordsTyped DEF RInv, TokensOK, Grows, Known, TokenRecord

LEMMA GrantsKept ==
  ASSUME RInv, Grows, grants' = grants
  PROVE  GrantsOK'
BY RecordsTyped DEF RInv, GrantsOK, Grows, Known, GrantRecord

LEMMA TasksKept ==
  ASSUME RInv, Grows, tasks' = tasks
  PROVE  TasksOK'
BY RecordsTyped DEF RInv, TasksOK, Grows, Known, TaskRecord

(* A team that is created.                                                 *)
LEMMA TeamsGrow ==
  ASSUME RInv, NEW t \in Team, teams' = [teams EXCEPT ![t] = now]
  PROVE  /\ TeamsOK' /\ teams'[t] # None
         /\ \A s \in Team : teams[s] # None => teams'[s] # None
<1>1. now \in Nat /\ now # None
  BY RecordsTyped, NoneIs
<1>2. /\ teams' \in [Team -> Nat \union {None}] /\ teams'[t] = now
      /\ \A s \in Team \ {t} : teams'[s] = teams[s]
  BY <1>1 DEF RInv, TeamsOK
<1>3. Known(teams') \ Owned \subseteq (Known(teams) \ Owned) \union {t}
  BY <1>2 DEF Known, RInv, TeamsOK
<1>4. IsFiniteSet((Known(teams) \ Owned) \union {t})
  BY FS_AddElement DEF RInv, TeamsOK
<1>5. IsFiniteSet(Known(teams') \ Owned)
  BY <1>3, <1>4, FS_Subset
<1> QED BY <1>1, <1>2, <1>5 DEF TeamsOK, Known

(* One node record is written, with k changes of the epoch.                *)
LEMMA NodeWritten ==
  ASSUME RInv, NEW n \in Node, NEW r \in NodeRecord, NEW k \in Nat,
         nodes' = [nodes EXCEPT ![n] = r], epoch' = epoch + k, epoch' <= MaxEpoch,
         nodes[n] = None => k >= 1,
         \A s \in Team : teams[s] # None => teams'[s] # None,
         teams'[r.team] # None, r.oldest <= r.key, r.key <= epoch + k,
         grants' = grants
  PROVE  NodesOK' /\ EpochOK' /\ Grows /\ nodes'[n] = r
<1>0. r # None
  BY NoneIs
<1>1. /\ nodes' \in [Node -> NodeRecord \union {None}] /\ nodes'[n] = r
      /\ \A m \in Node \ {n} : nodes'[m] = nodes[m]
  BY DEF RInv, NodesOK
<1>2. Grows
  BY <1>0, <1>1 DEF Grows
<1>3. Known(nodes') = Known(nodes) \union {n}
  BY <1>0, <1>1, RecordsTyped DEF Known
<1>4. /\ IsFiniteSet(Known(nodes')) /\ Cardinality(Known(nodes)) \in Nat
      /\ Cardinality(Known(nodes')) = IF n \in Known(nodes) THEN Cardinality(Known(nodes))
                                      ELSE Cardinality(Known(nodes)) + 1
  <2>1. IsFiniteSet(Known(nodes)) BY DEF RInv, NodesOK
  <2>2. Cardinality(Known(nodes)) \in Nat BY <2>1, FS_CardinalityType
  <2>3. /\ IsFiniteSet(Known(nodes) \union {n})
        /\ Cardinality(Known(nodes) \union {n}) = IF n \in Known(nodes) THEN Cardinality(Known(nodes))
                                                   ELSE Cardinality(Known(nodes)) + 1
    BY <2>1, FS_AddElement
  <2> QED BY <1>3, <2>2, <2>3
<1>5. Cardinality(Known(grants)) \in Nat
  BY FS_CardinalityType DEF RInv, GrantsOK
<1>6. epoch \in Nat /\ epoch' \in 0..MaxEpoch /\ epoch' >= epoch
  BY RecordsTyped, RegistryAssumption
<1>7. EpochOK'
  <2>1. nodes[n] # None => n \in Known(nodes)
    BY RecordsTyped DEF Known
  <2> QED BY <1>4, <1>5, <1>6, <2>1 DEF RInv, EpochOK
<1>8. NodesOK'
  <2> SUFFICES ASSUME NEW m \in Known(nodes')
               PROVE  /\ teams'[nodes'[m].team] # None
                      /\ nodes'[m].oldest <= nodes'[m].key /\ nodes'[m].key <= epoch'
    BY <1>1, <1>4 DEF NodesOK
  <2>1. CASE m = n
    BY <1>1, <2>1
  <2>2. CASE m # n
    <3>1. m \in Known(nodes) /\ m \in Node /\ nodes[m] # None
      BY <1>3, <2>2, RecordsTyped DEF Known
    <3>2. nodes'[m] = nodes[m] /\ nodes[m] \in NodeRecord
      BY <1>1, <2>2, <3>1, RecordsTyped
    <3>3. nodes[m].team \in Team /\ nodes[m].key \in Nat
      BY <3>2 DEF NodeRecord
    <3> QED BY <1>6, <3>1, <3>2, <3>3 DEF RInv, NodesOK
  <2> QED BY <2>1, <2>2
<1> QED BY <1>1, <1>2, <1>7, <1>8

(* Publishing it keeps the gateway's copy, when team and status only       *)
(* change together with the epoch.                                         *)
LEMMA NodePublished ==
  ASSUME RInv, NEW n \in Node, NEW r \in NodeRecord, NEW k \in Nat,
         Publish([nodes EXCEPT ![n] = r], k),
         k = 0 => nodes[n] # None /\ r.team = nodes[n].team /\ r.status = nodes[n].status,
         \A s \in Team : teams[s] # None => teams'[s] # None,
         teams'[r.team] # None, r.oldest <= r.key, r.key <= epoch + k,
         grants' = grants
  PROVE  NodesOK' /\ EpochOK' /\ GatewayOK' /\ Grows /\ nodes'[n] = r /\ now' = now
<1>1. /\ nodes' = [nodes EXCEPT ![n] = r] /\ epoch' = epoch + k /\ epoch' <= MaxEpoch
      /\ now' = now
  BY DEF Publish, Commit
<1>2. NodesOK' /\ EpochOK' /\ Grows /\ nodes'[n] = r
  <2>1. nodes[n] = None => k >= 1 OBVIOUS
  <2> QED BY <1>1, <2>1, NodeWritten
<1>3. GatewayOK'
  <2>1. CASE k > 0
    <3>1. snapshot' = View(nodes') /\ conn' = Remaining(nodes')
      BY <1>1, <2>1 DEF Publish
    <3> QED BY <3>1 DEF GatewayOK, Remaining, RInv
  <2>2. CASE k = 0
    <3>1. UNCHANGED <<snapshot, conn>>
      BY <2>2 DEF Publish
    <3>2. View(nodes') = View(nodes)
      <4>1. DOMAIN nodes' = DOMAIN nodes
        BY <1>1
      <4>2. Known(nodes') = Known(nodes)
        BY <1>1, <1>2, <2>2, NoneIs, RecordsTyped DEF Known, RInv, NodesOK
      <4>3. \A m \in Known(nodes') : nodes'[m].team = nodes[m].team
                                      /\ nodes'[m].status = nodes[m].status
        BY <1>1, <2>2, RecordsTyped DEF Known
      <4> QED BY <4>1, <4>2, <4>3, ViewOf
    <3> QED BY <3>1, <3>2 DEF GatewayOK, RInv
  <2> QED BY <2>1, <2>2
<1> QED BY <1>1, <1>2, <1>3

---------------------------------------------------------------------------------
LEMMA RegistryInitInv == RegistryInit => RInv
<1> SUFFICES ASSUME RegistryInit PROVE RInv
  OBVIOUS
<1> USE DEF RegistryInit
<1>0. Cardinality({}) = 0 /\ IsFiniteSet({})
  BY FS_EmptySet
<1>1. Known(nodes) = {} /\ Known(grants) = {} /\ Known(tokens) = {} /\ Known(tasks) = {}
      /\ Known(teams) \ Owned = {}
  BY DEF Known
<1>2. TeamsOK
  BY <1>0, <1>1 DEF TeamsOK
<1>3. NodesOK /\ TokensOK /\ GrantsOK /\ TasksOK
  BY <1>0, <1>1 DEF NodesOK, TokensOK, GrantsOK, TasksOK
<1>4. EpochOK
  BY <1>0, <1>1, RegistryAssumption DEF EpochOK
<1>5. GatewayOK /\ OwnerOK
  BY DEF GatewayOK, OwnerOK
<1>6. now \in 0..MaxClock
  BY RegistryAssumption
<1> QED BY <1>2, <1>3, <1>4, <1>5, <1>6 DEF RInv

(* Steps that write no node record.                                        *)
LEMMA NodesKept ==
  ASSUME RInv, nodes' = nodes, epoch' = epoch,
         \A s \in Team : teams[s] # None => teams'[s] # None
  PROVE  NodesOK' /\ Grows
BY RecordsTyped DEF RInv, NodesOK, Grows, Known, NodeRecord

LEMMA RestKept ==
  ASSUME RInv, nodes' = nodes, epoch' = epoch, grants' = grants, UNCHANGED gatewayVars
  PROVE  EpochOK' /\ GatewayOK'
BY DEF RInv, EpochOK, GatewayOK, gatewayVars

(* The directory is left alone: sessions, requests, connections, time.     *)
LEMMA DirectoryKept ==
  ASSUME RInv, UNCHANGED directoryVars, now' \in 0..MaxClock, GatewayOK', OwnerOK'
  PROVE  RInv'
<1> USE DEF directoryVars
<1>1. Grows /\ NodesOK'
  BY NodesKept
<1>2. TeamsOK'
  BY DEF RInv, TeamsOK
<1>3. EpochOK'
  BY DEF RInv, EpochOK
<1> QED BY <1>1, <1>2, <1>3, TokensKept, GrantsKept, TasksKept DEF RInv

LEMMA OwnerKept ==
  ASSUME RInv, Grows, UNCHANGED session, request' \in {request, None}
  PROVE  OwnerOK'
BY DEF RInv, OwnerOK, Grows, Request

LEMMA SessionInv ==
  ASSUME RInv, Login \/ Logout \/ Refuse \/ Tick
  PROVE  RInv'
<1>1. UNCHANGED <<directoryVars, gatewayVars>>
  BY DEF Login, Logout, Refuse, Tick
<1>g. Grows
  BY <1>1, NodesKept DEF directoryVars
<1>2. GatewayOK'
  BY <1>1 DEF RInv, GatewayOK, gatewayVars, directoryVars
<1>3. now' \in 0..MaxClock
  BY RegistryAssumption DEF Login, Logout, Refuse, Tick, RInv
<1>4. OwnerOK'
  <2>1. CASE Login
    <3>1. now + SessionTtl \in Nat
      BY RecordsTyped, RegistryAssumption
    <3>2. session' \in Session /\ request' = request
      BY <2>1, <3>1 DEF Login, Session
    <3> QED BY <1>1, <3>2 DEF RInv, OwnerOK, directoryVars
  <2>2. CASE Logout
    BY <1>1, <2>2 DEF Logout, RInv, OwnerOK, directoryVars
  <2>3. CASE Refuse \/ Tick
    BY <1>g, <2>3, OwnerKept DEF Refuse, Tick
  <2> QED BY <2>1, <2>2, <2>3
<1> QED BY <1>1, <1>2, <1>3, <1>4, DirectoryKept

LEMMA AuthorizeInv ==
  ASSUME RInv,
         \/ \E n \in Node, kind \in {"suspend", "revoke"} : AuthorizeNode(kind, n)
         \/ \E t \in Team, kind \in {"grant", "token"} : AuthorizeTeam(kind, t)
  PROVE  RInv'
<1>1. UNCHANGED <<now, directoryVars, session, gatewayVars>>
  BY DEF AuthorizeNode, AuthorizeTeam
<1>2. GatewayOK'
  BY <1>1 DEF RInv, GatewayOK, gatewayVars, directoryVars
<1> DEFINE Authorised ==
      /\ request' \in Request
      /\ request'.kind \in {"suspend", "revoke"} =>
           nodes[request'.node] # None /\ (request'.global \/ request'.team \in Owned)
<1>3. Authorised
  <2>1. ASSUME NEW n \in Node, NEW kind \in {"suspend", "revoke"}, AuthorizeNode(kind, n)
        PROVE  Authorised
    <3>1. session \in Session /\ nodes[n] \in NodeRecord
          /\ (session.global \/ nodes[n].team \in Owned)
      BY <2>1, RecordsTyped DEF AuthorizeNode, OwnerOf, Valid, RInv, OwnerOK
    <3>2. session.global \in BOOLEAN /\ nodes[n].team \in Team
      BY <3>1 DEF Session, NodeRecord
    <3>3. request' = [kind |-> kind, team |-> nodes[n].team, node |-> n, global |-> session.global]
      BY <2>1 DEF AuthorizeNode
    <3>4. nodes[n] # None
      BY <2>1 DEF AuthorizeNode
    <3> QED BY <3>1, <3>2, <3>3, <3>4 DEF Request
  <2>2. ASSUME NEW t \in Team, NEW kind \in {"grant", "token"}, AuthorizeTeam(kind, t)
        PROVE  Authorised
    <3>1. request' = [kind |-> kind, team |-> t]
      BY <2>2 DEF AuthorizeTeam
    <3> QED BY <3>1 DEF Request
  <2> QED BY <2>1, <2>2
<1>4. OwnerOK'
  BY <1>1, <1>3 DEF RInv, OwnerOK, directoryVars
<1> QED BY <1>1, <1>2, <1>4, DirectoryKept DEF RInv

LEMMA ProcessInv ==
  ASSUME RInv, RestartCenter \/ \E n \in Node : Disconnect(n)
  PROVE  RInv'
<1>1. UNCHANGED <<now, directoryVars, session>> /\ request' \in {request, None}
  BY DEF RestartCenter, Disconnect
<1>2. GatewayOK'
  <2>1. CASE RestartCenter
    BY <1>1, <2>1 DEF RestartCenter, GatewayOK, directoryVars
  <2>2. CASE \E n \in Node : Disconnect(n)
    BY <1>1, <2>2 DEF Disconnect, GatewayOK, directoryVars, RInv
  <2> QED BY <2>1, <2>2
<1>3. Grows
  BY <1>1, NodesKept DEF directoryVars
<1> QED BY <1>1, <1>2, <1>3, OwnerKept, DirectoryKept DEF RInv

---------------------------------------------------------------------------------
(* Actions that write one node record.                                     *)

(* What is left to show for them, once the record is written.              *)
LEMMA NodeStep ==
  ASSUME RInv, NodesOK', EpochOK', GatewayOK', Grows, now' = now,
         TeamsOK', TokensOK', grants' = grants, TasksOK', OwnerOK'
  PROVE  RInv'
BY GrantsKept DEF RInv

LEMMA TouchedIs ==
  ASSUME RInv, NEW n \in Node, Active(n)
  PROVE  /\ nodes[n] \in NodeRecord /\ teams[nodes[n].team] # None
         /\ nodes[n].team \in Team /\ nodes[n].key \in Nat /\ nodes[n].oldest \in Nat
         /\ nodes[n].oldest <= nodes[n].key /\ nodes[n].key <= epoch
         /\ [nodes[n] EXCEPT !.seen = now] \in NodeRecord
         /\ Touched(n) = [nodes EXCEPT ![n] = [nodes[n] EXCEPT !.seen = now]]
<1>1. nodes[n] \in NodeRecord /\ n \in Known(nodes) /\ now \in Nat
  BY RecordsTyped DEF Active, Known
<1>2. Touched(n) = [nodes EXCEPT ![n] = [nodes[n] EXCEPT !.seen = now]]
  BY RecordsTyped DEF Touched
<1> QED BY <1>1, <1>2 DEF RInv, NodesOK, NodeRecord

(* touch of last_seen, a task report and a connection: no change that the  *)
(* gateway could see.                                                      *)
LEMMA TouchInv ==
  ASSUME RInv, NEW n \in Node, Active(n), Publish(Touched(n), 0),
         UNCHANGED <<teams, tokens, grants, session, request>>, TasksOK'
  PROVE  RInv'
<1> DEFINE r == [nodes[n] EXCEPT !.seen = now]
<1>1. /\ r \in NodeRecord /\ r.team = nodes[n].team /\ r.status = nodes[n].status
      /\ r.oldest = nodes[n].oldest /\ r.key = nodes[n].key /\ nodes[n] # None
      /\ Publish([nodes EXCEPT ![n] = r], 0)
  BY TouchedIs DEF NodeRecord, Active
<1>2. teams'[r.team] # None /\ r.oldest <= r.key /\ r.key <= epoch + 0
  BY <1>1, TouchedIs, RecordsTyped
<1> HIDE DEF r
<1>3. NodesOK' /\ EpochOK' /\ GatewayOK' /\ Grows /\ now' = now
  BY <1>1, <1>2, NodePublished
<1> QED BY <1>3, NodeStep, TokensKept, OwnerKept DEF RInv, TeamsOK

LEMMA ReportTaskInv ==
  ASSUME RInv, NEW n \in Node, NEW t \in Task, ReportTask(n, t)
  PROVE  RInv'
<1> DEFINE r == [nodes[n] EXCEPT !.seen = now]
           k == [team |-> nodes[n].team, lead |-> n]
<1>1. /\ nodes[n] \in NodeRecord /\ nodes[n].team \in Team /\ teams[nodes[n].team] # None
      /\ nodes' = [nodes EXCEPT ![n] = r] /\ r \in NodeRecord
  BY TouchedIs DEF ReportTask, Publish, Commit
<1>2. k \in TaskRecord /\ k.team = nodes[n].team /\ k.lead = n /\ teams' = teams
      /\ tasks' = [tasks EXCEPT ![t] = k]
  BY <1>1 DEF TaskRecord, ReportTask
<1>3. nodes'[n] # None /\ \A m \in Node : nodes[m] # None => nodes'[m] # None
  BY <1>1, NoneIs, RecordsTyped
<1> HIDE DEF k, r
<1>4. /\ tasks' \in [Task -> TaskRecord \union {None}] /\ tasks'[t] = k
      /\ \A s \in Task \ {t} : tasks'[s] = tasks[s]
  BY <1>2 DEF RInv, TasksOK
<1>5. TasksOK'
  <2> SUFFICES ASSUME NEW s \in Known(tasks')
               PROVE  teams'[tasks'[s].team] # None /\ nodes'[tasks'[s].lead] # None
    BY <1>4 DEF TasksOK
  <2>1. CASE s = t
    BY <1>1, <1>2, <1>3, <1>4, <2>1
  <2>2. CASE s # t
    <3>1. s \in Known(tasks) /\ tasks'[s] = tasks[s] /\ tasks[s] \in TaskRecord
      BY <1>4, <2>2, RecordsTyped DEF Known
    <3>2. tasks[s].lead \in Node
      BY <3>1 DEF TaskRecord
    <3> QED BY <1>2, <1>3, <3>1, <3>2 DEF RInv, TasksOK
  <2> QED BY <2>1, <2>2
<1> QED BY <1>5, TouchInv DEF ReportTask

LEMMA ConnectInv ==
  ASSUME RInv, NEW n \in Node, Connect(n)
  PROVE  RInv'
<1> USE DEF Connect
<1> DEFINE r == [nodes[n] EXCEPT !.seen = now]
<1>1. /\ r \in NodeRecord /\ r.team = nodes[n].team /\ r.status = nodes[n].status
      /\ r.oldest = nodes[n].oldest /\ r.key = nodes[n].key /\ nodes[n] # None
      /\ nodes' = [nodes EXCEPT ![n] = r] /\ nodes[n].team \in Team
  BY TouchedIs DEF NodeRecord, Active
<1>2. /\ teams'[r.team] # None /\ r.oldest <= r.key /\ r.key <= epoch + 0
      /\ epoch' = epoch + 0 /\ epoch' <= MaxEpoch
      /\ grants' = grants /\ \A s \in Team : teams[s] # None => teams'[s] # None
  BY <1>1, TouchedIs, RecordsTyped DEF RInv, EpochOK
<1> HIDE DEF r, Connect
<1>3. NodesOK' /\ EpochOK' /\ Grows /\ nodes'[n] = r
  BY ONLY RInv, n \in Node, <1>1, <1>2, NodeWritten, Zenon
<1> USE DEF Connect
<1>4. View(nodes') = View(nodes)
  <2>1. DOMAIN nodes' = DOMAIN nodes
    BY <1>1
  <2>2. Known(nodes') = Known(nodes)
    BY <1>1, <1>3, NoneIs, RecordsTyped DEF Known
  <2>3. \A m \in Known(nodes') : nodes'[m].team = nodes[m].team
                                  /\ nodes'[m].status = nodes[m].status
    BY <1>1, RecordsTyped DEF Known
  <2> QED BY <2>1, <2>2, <2>3, ViewOf
<1>5. GatewayOK'
  BY <1>1, <1>4 DEF GatewayOK, RInv
<1> QED BY <1>3, <1>5, NodeStep, TokensKept, TasksKept, OwnerKept DEF RInv, TeamsOK

(* rotateKeys: the kept keys stay in order, and the epoch moves with them. *)
LEMMA RotateKeysInv ==
  ASSUME RInv, NEW n \in Node, RotateKeys(n)
  PROVE  RInv'
<1>0. nodes[n] \in NodeRecord /\ Active(n) /\ nodes[n].key \in Nat /\ nodes[n].oldest \in Nat
      /\ nodes[n].oldest <= nodes[n].key /\ nodes[n].key <= epoch /\ epoch \in Nat
      /\ now \in Nat /\ teams[nodes[n].team] # None
  BY TouchedIs, RecordsTyped DEF RotateKeys
<1>1. PICK key \in Nat : key = nodes[n].key + 1
  BY <1>0
<1>2. PICK old \in Nat : /\ old = IF key - nodes[n].oldest >= MaxKeys THEN key - MaxKeys + 1
                                  ELSE nodes[n].oldest
                         /\ old <= key
  BY <1>0, <1>1, RegistryAssumption
<1> DEFINE r == [nodes[n] EXCEPT !.seen = now, !.key = key, !.oldest = old]
<1>3. Publish([Touched(n) EXCEPT ![n].key = key, ![n].oldest = old], 1)
  BY <1>1, <1>2 DEF RotateKeys
<1>4. [Touched(n) EXCEPT ![n].key = key, ![n].oldest = old] = [nodes EXCEPT ![n] = r]
  BY <1>0, RecordsTyped DEF Touched, NodeRecord
<1>5. /\ r \in NodeRecord /\ r.team = nodes[n].team /\ r.oldest = old /\ r.key = key
  BY <1>0, <1>1, <1>2 DEF NodeRecord
<1> HIDE DEF r
<1>6. UNCHANGED <<teams, tokens, grants, tasks, session, request>>
  BY DEF RotateKeys
<1>7. Publish([nodes EXCEPT ![n] = r], 1) /\ r.oldest <= r.key /\ r.key <= epoch + 1
  BY <1>0, <1>1, <1>2, <1>3, <1>4, <1>5
<1>8. NodesOK' /\ EpochOK' /\ GatewayOK' /\ Grows /\ now' = now
  BY <1>0, <1>5, <1>6, <1>7, NodePublished
<1> QED BY <1>6, <1>8, NodeStep, TokensKept, TasksKept, OwnerKept DEF RInv, TeamsOK

(* suspend, revoke and resume: the status of a known node.                 *)
LEMMA StatusInv ==
  ASSUME RInv, NEW n \in Node, nodes[n] # None, NEW st \in {"active", "suspended", "revoked"},
         Publish([nodes EXCEPT ![n].status = st], 1),
         UNCHANGED <<teams, tokens, grants, tasks, session>>, request' \in {request, None}
  PROVE  RInv'
<1> DEFINE r == [nodes[n] EXCEPT !.status = st]
<1>1. /\ nodes[n] \in NodeRecord /\ n \in Known(nodes)
      /\ nodes[n].key \in Nat /\ epoch \in Nat
      /\ [nodes EXCEPT ![n].status = st] = [nodes EXCEPT ![n] = r]
  BY RecordsTyped DEF Known, NodeRecord
<1>2. r \in NodeRecord /\ r.team = nodes[n].team /\ r.key = nodes[n].key /\ r.oldest = nodes[n].oldest
  BY <1>1 DEF NodeRecord
<1>3. Publish([nodes EXCEPT ![n] = r], 1)
  BY <1>1
<1>4. teams'[r.team] # None /\ r.oldest <= r.key /\ r.key <= epoch + 1
  BY <1>1, <1>2 DEF RInv, NodesOK
<1> HIDE DEF r
<1>5. NodesOK' /\ EpochOK' /\ GatewayOK' /\ Grows /\ now' = now
  BY <1>2, <1>3, <1>4, NodePublished
<1> QED BY <1>5, NodeStep, TokensKept, TasksKept, OwnerKept DEF RInv, TeamsOK

LEMMA RequestedNode ==
  ASSUME RInv, request # None, request.kind \in {"suspend", "revoke"}
  PROVE  /\ request.node \in Node /\ request.team \in Team /\ request.global \in BOOLEAN
         /\ nodes[request.node] # None
         /\ request.global \/ request.team \in Owned
BY DEF RInv, OwnerOK, Request

LEMMA StopNodeInv ==
  ASSUME RInv, Suspend \/ Revoke
  PROVE  RInv'
BY RequestedNode, StatusInv DEF Suspend, Revoke

LEMMA ResumeInv ==
  ASSUME RInv, NEW n \in Node, Resume(n)
  PROVE  RInv'
BY StatusInv DEF Resume, Managed

(* A token that is issued or used.                                         *)
LEMMA TokenWritten ==
  ASSUME RInv, Grows, NEW k \in Token, NEW r \in TokenRecord, tokens' = [tokens EXCEPT ![k] = r],
         teams'[r.team] # None, r.usedBy # None => nodes'[r.usedBy] # None
  PROVE  TokensOK'
<1>1. /\ tokens' \in [Token -> TokenRecord \union {None}] /\ tokens'[k] = r
      /\ \A j \in Token \ {k} : tokens'[j] = tokens[j]
  BY DEF RInv, TokensOK
<1> SUFFICES ASSUME NEW j \in Known(tokens')
             PROVE  /\ teams'[tokens'[j].team] # None
                    /\ tokens'[j].usedBy # None => nodes'[tokens'[j].usedBy] # None
  BY <1>1 DEF TokensOK
<1>2. CASE j = k
  BY <1>1, <1>2
<1>3. CASE j # k
  <2>1. j \in Known(tokens) /\ tokens'[j] = tokens[j] /\ tokens[j] \in TokenRecord
    BY <1>1, <1>3, RecordsTyped DEF Known
  <2>2. tokens[j].team \in Team /\ (tokens[j].usedBy # None => tokens[j].usedBy \in Node)
    BY <2>1 DEF TokenRecord
  <2> QED BY <2>1, <2>2 DEF RInv, TokensOK, Grows
<1> QED BY <1>2, <1>3

LEMMA UsableIs ==
  ASSUME RInv, NEW k \in Token, Usable(k)
  PROVE  tokens[k] \in TokenRecord /\ tokens[k].team \in Team /\ teams[tokens[k].team] # None
<1>1. k \in Known(tokens) /\ tokens[k] \in TokenRecord
  BY RecordsTyped DEF Usable, Known
<1> QED BY <1>1 DEF TokenRecord, RInv, TokensOK

(* The token of an enrollment or a move is used by the node.               *)
LEMMA TokenUsed ==
  ASSUME RInv, Grows, NEW k \in Token, Usable(k), NEW n \in Node, nodes'[n] # None,
         tokens' = [tokens EXCEPT ![k].usedBy = n], teams' = teams
  PROVE  TokensOK'
<1> DEFINE r == [tokens[k] EXCEPT !.usedBy = n]
<1>1. tokens[k] \in TokenRecord /\ teams[tokens[k].team] # None
  BY UsableIs
<1>2. r \in TokenRecord /\ r.team = tokens[k].team /\ r.usedBy = n
      /\ tokens' = [tokens EXCEPT ![k] = r]
  BY <1>1, RecordsTyped DEF TokenRecord
<1> HIDE DEF r
<1> QED BY <1>1, <1>2, TokenWritten

LEMMA NewNodeIs ==
  ASSUME RInv, NEW t \in Team
  PROVE  /\ NewNode(t) \in NodeRecord /\ NewNode(t).team = t /\ NewNode(t) # None
         /\ NewNode(t).oldest <= NewNode(t).key /\ NewNode(t).key <= epoch + 1
<1>1. now \in Nat /\ epoch \in Nat
  BY RecordsTyped
<1>2. NewNode(t) \in NodeRecord
  BY <1>1 DEF NewNode, NodeRecord
<1> QED BY <1>1, <1>2, NoneIs DEF NewNode

LEMMA EnrollInv ==
  ASSUME RInv, NEW n \in Node, NEW k \in Token, Enroll(n, k)
  PROVE  RInv'
<1> DEFINE t == tokens[k].team
<1>1. t \in Team /\ teams[t] # None
  BY UsableIs DEF Enroll
<1>2. /\ NewNode(t) \in NodeRecord /\ NewNode(t).team = t /\ NewNode(t) # None
      /\ NewNode(t).oldest <= NewNode(t).key /\ NewNode(t).key <= epoch + 1
  BY <1>1, NewNodeIs
<1>3. /\ Publish([nodes EXCEPT ![n] = NewNode(t)], 1) /\ Usable(k)
      /\ tokens' = [tokens EXCEPT ![k].usedBy = n]
      /\ UNCHANGED <<teams, grants, tasks, session, request>>
  BY DEF Enroll
<1>4. NodesOK' /\ EpochOK' /\ GatewayOK' /\ Grows /\ nodes'[n] = NewNode(t) /\ now' = now
  BY <1>1, <1>2, <1>3, NodePublished
<1>5. TokensOK'
  BY <1>2, <1>3, <1>4, TokenUsed
<1> QED BY <1>3, <1>4, <1>5, NodeStep, TasksKept, OwnerKept DEF RInv, TeamsOK

LEMMA EnrollSelfInv ==
  ASSUME RInv, NEW n \in Node, NEW t \in Team, EnrollSelf(n, t)
  PROVE  RInv'
<1>1. /\ teams' = [teams EXCEPT ![t] = now]
      /\ Publish([nodes EXCEPT ![n] = NewNode(t)], 1)
      /\ UNCHANGED <<tokens, grants, tasks, session, request>>
  BY DEF EnrollSelf
<1>2. /\ TeamsOK' /\ teams'[t] # None
      /\ \A s \in Team : teams[s] # None => teams'[s] # None
  BY <1>1, TeamsGrow
<1>3. /\ NewNode(t) \in NodeRecord /\ NewNode(t).team = t
      /\ NewNode(t).oldest <= NewNode(t).key /\ NewNode(t).key <= epoch + 1
  BY NewNodeIs
<1>4. NodesOK' /\ EpochOK' /\ GatewayOK' /\ Grows /\ now' = now
  BY <1>1, <1>2, <1>3, NodePublished
<1> QED BY <1>1, <1>2, <1>4, NodeStep, TokensKept, TasksKept, OwnerKept

(* joinTeam moves a node, with its epoch.                                  *)
LEMMA JoinTeamInv ==
  ASSUME RInv, NEW n \in Node, NEW k \in Token, JoinTeam(n, k)
  PROVE  RInv'
<1> DEFINE r == [nodes[n] EXCEPT !.seen = now, !.team = tokens[k].team]
<1>0. /\ Active(n) /\ Usable(k) /\ tokens' = [tokens EXCEPT ![k].usedBy = n]
      /\ Publish([Touched(n) EXCEPT ![n].team = tokens[k].team], 1)
      /\ UNCHANGED <<teams, grants, tasks, session, request>>
  BY DEF JoinTeam
<1>1. tokens[k].team \in Team /\ teams[tokens[k].team] # None
  BY <1>0, UsableIs
<1>2. /\ nodes[n] \in NodeRecord /\ nodes[n].key \in Nat /\ nodes[n].oldest <= nodes[n].key
      /\ nodes[n].key <= epoch /\ epoch \in Nat /\ now \in Nat
  BY <1>0, TouchedIs, RecordsTyped
<1>3. [Touched(n) EXCEPT ![n].team = tokens[k].team] = [nodes EXCEPT ![n] = r]
  BY <1>2, RecordsTyped DEF Touched, NodeRecord
<1>4. /\ r \in NodeRecord /\ r.team = tokens[k].team /\ r.oldest = nodes[n].oldest
      /\ r.key = nodes[n].key
  BY <1>1, <1>2 DEF NodeRecord
<1> HIDE DEF r
<1>5. Publish([nodes EXCEPT ![n] = r], 1) /\ r.oldest <= r.key /\ r.key <= epoch + 1
  BY <1>0, <1>2, <1>3, <1>4
<1>6. NodesOK' /\ EpochOK' /\ GatewayOK' /\ Grows /\ nodes'[n] = r /\ now' = now
  BY <1>0, <1>1, <1>4, <1>5, NodePublished
<1>7. TokensOK'
  BY <1>0, <1>4, <1>6, NoneIs, TokenUsed
<1> QED BY <1>0, <1>6, <1>7, NodeStep, TasksKept, OwnerKept DEF RInv, TeamsOK

---------------------------------------------------------------------------------
(* Teams, tokens, grants and gc.                                           *)

LEMMA CreateTeamInv ==
  ASSUME RInv, NEW t \in Team, CreateTeam(t)
  PROVE  RInv'
<1> USE DEF CreateTeam
<1>1. /\ TeamsOK' /\ teams'[t] # None
      /\ \A s \in Team : teams[s] # None => teams'[s] # None
  BY TeamsGrow
<1>2. NodesOK' /\ Grows
  BY <1>1, NodesKept
<1>3. EpochOK' /\ GatewayOK'
  BY RestKept
<1> QED BY <1>1, <1>2, <1>3, NodeStep, TokensKept, TasksKept, OwnerKept

LEMMA IssueEnrollTokenInv ==
  ASSUME RInv, NEW k \in Token, IssueEnrollToken(k)
  PROVE  RInv'
<1> USE DEF IssueEnrollToken
<1> DEFINE r == [team |-> request.team, expires |-> now + EnrollTtl, usedBy |-> None]
<1>1. request.team \in Team
  BY DEF RInv, OwnerOK, Request
<1>2. now + EnrollTtl \in Nat
  BY RecordsTyped, RegistryAssumption
<1>3. r \in TokenRecord /\ r.team = request.team /\ r.usedBy = None
      /\ tokens' = [tokens EXCEPT ![k] = r]
  BY <1>1, <1>2 DEF TokenRecord
<1> HIDE DEF r
<1>4. NodesOK' /\ Grows
  BY NodesKept
<1>5. TokensOK'
  BY <1>3, <1>4, TokenWritten
<1>6. EpochOK' /\ GatewayOK'
  BY RestKept
<1> QED BY <1>4, <1>5, <1>6, NodeStep, TasksKept, OwnerKept DEF RInv, TeamsOK

(* Publishing the records as they are: the grants have changed.            *)
LEMMA GrantsPublished ==
  ASSUME RInv, Publish(nodes, 1), teams' = teams, GrantsOK',
         Cardinality(Known(grants')) <= Cardinality(Known(grants)) + 1
  PROVE  NodesOK' /\ EpochOK' /\ GatewayOK' /\ Grows /\ now' = now
<1>1. /\ nodes' = nodes /\ epoch' = epoch + 1 /\ epoch' <= MaxEpoch /\ now' = now
      /\ snapshot' = View(nodes) /\ conn' = Remaining(nodes)
  BY DEF Publish, Commit
<1>2. epoch \in Nat
  BY RecordsTyped
<1>3. Grows
  BY <1>1 DEF Grows
<1>4. NodesOK'
  BY <1>1, <1>2, RecordsTyped DEF RInv, NodesOK, Known, NodeRecord
<1>5. EpochOK'
  <2>1. Cardinality(Known(nodes)) \in Nat /\ Cardinality(Known(grants)) \in Nat
        /\ Cardinality(Known(grants')) \in Nat
    BY FS_CardinalityType DEF RInv, NodesOK, GrantsOK
  <2> QED BY <1>1, <1>2, <2>1, RegistryAssumption DEF RInv, EpochOK
<1>6. GatewayOK'
  BY <1>1 DEF RInv, GatewayOK, Remaining
<1> QED BY <1>1, <1>3, <1>4, <1>5, <1>6

LEMMA CreateGrantInv ==
  ASSUME RInv, NEW g \in Grant, NEW t \in Team, CreateGrant(g, t)
  PROVE  RInv'
<1> USE DEF CreateGrant
<1> DEFINE r == [from |-> request.team, to |-> t]
<1>1. request.team \in Team
  BY DEF RInv, OwnerOK, Request
<1>2. r \in GrantRecord /\ r.from = request.team /\ r.to = t /\ r # None
      /\ grants' = [grants EXCEPT ![g] = r]
  BY <1>1, NoneIs DEF GrantRecord
<1> HIDE DEF r
<1>3. /\ grants' \in [Grant -> GrantRecord \union {None}] /\ grants'[g] = r
      /\ \A h \in Grant \ {g} : grants'[h] = grants[h]
  BY <1>2 DEF RInv, GrantsOK
<1>4. Known(grants') = Known(grants) \union {g}
  BY <1>2, <1>3, RecordsTyped DEF Known
<1>5. IsFiniteSet(Known(grants))
  BY DEF RInv, GrantsOK
<1>6. /\ IsFiniteSet(Known(grants'))
      /\ Cardinality(Known(grants')) <= Cardinality(Known(grants)) + 1
  <2>1. Cardinality(Known(grants)) \in Nat
    BY <1>5, FS_CardinalityType
  <2>2. /\ IsFiniteSet(Known(grants) \union {g})
        /\ Cardinality(Known(grants) \union {g}) = IF g \in Known(grants) THEN Cardinality(Known(grants))
                                                    ELSE Cardinality(Known(grants)) + 1
    BY <1>5, FS_AddElement
  <2>3. Cardinality(Known(grants) \union {g}) <= Cardinality(Known(grants)) + 1
    BY <2>1, <2>2
  <2> QED BY <1>4, <2>2, <2>3
<1>7. GrantsOK'
  <2> SUFFICES ASSUME NEW h \in Known(grants')
               PROVE  /\ grants'[h].from # grants'[h].to
                      /\ teams[grants'[h].from] # None /\ teams[grants'[h].to] # None
    BY <1>3, <1>6 DEF GrantsOK
  <2>1. CASE h = g
    BY <1>2, <1>3, <2>1
  <2>2. CASE h # g
    <3>1. h \in Known(grants) /\ h \in Grant
      BY <1>4, <2>2, RecordsTyped DEF Known
    <3> QED BY <1>3, <2>2, <3>1 DEF RInv, GrantsOK
  <2> QED BY <2>1, <2>2
<1>8. NodesOK' /\ EpochOK' /\ GatewayOK' /\ Grows /\ now' = now
  BY <1>6, <1>7, GrantsPublished
<1> QED BY <1>7, <1>8, TokensKept, TasksKept, OwnerKept DEF RInv, TeamsOK

LEMMA RevokeGrantInv ==
  ASSUME RInv, NEW g \in Grant, RevokeGrant(g)
  PROVE  RInv'
<1> USE DEF RevokeGrant
<1>1. /\ grants' \in [Grant -> GrantRecord \union {None}]
      /\ Known(grants') \subseteq Known(grants)
      /\ \A h \in Known(grants') : grants'[h] = grants[h]
  BY RecordsTyped DEF RInv, GrantsOK, Known
<1>2. IsFiniteSet(Known(grants))
  BY DEF RInv, GrantsOK
<1>3. /\ IsFiniteSet(Known(grants'))
      /\ Cardinality(Known(grants')) <= Cardinality(Known(grants)) + 1
  <2>1. IsFiniteSet(Known(grants')) /\ Cardinality(Known(grants')) <= Cardinality(Known(grants))
    BY <1>1, <1>2, FS_Subset
  <2>2. Cardinality(Known(grants)) \in Nat /\ Cardinality(Known(grants')) \in Nat
    BY <1>2, <2>1, FS_CardinalityType
  <2> QED BY <2>1, <2>2
<1>4. GrantsOK'
  <2> SUFFICES ASSUME NEW h \in Known(grants')
               PROVE  /\ grants'[h].from # grants'[h].to
                      /\ teams[grants'[h].from] # None /\ teams[grants'[h].to] # None
    BY <1>1, <1>3 DEF GrantsOK
  <2>1. h \in Known(grants) /\ grants'[h] = grants[h]
    BY <1>1
  <2> QED BY <2>1 DEF RInv, GrantsOK
<1>5. NodesOK' /\ EpochOK' /\ GatewayOK' /\ Grows /\ now' = now
  BY <1>3, <1>4, GrantsPublished
<1> QED BY <1>4, <1>5, TokensKept, TasksKept, OwnerKept DEF RInv, TeamsOK

(* gc: what goes away is referred to by nothing that stays, and a sweep    *)
(* that does something moves the epoch.                                    *)
LEMMA GcInv ==
  ASSUME RInv, Gc
  PROVE  RInv'
<1> DEFINE ns == [n \in Node |-> IF n \in Offline THEN [nodes[n] EXCEPT !.status = "revoked"]
                                 ELSE nodes[n]]
           k == Cardinality(Orphans) + Cardinality(Offline)
<1>0. /\ teams' = [t \in Team |-> IF t \in Orphans THEN None ELSE teams[t]]
      /\ tokens' = [j \in Token |-> IF tokens[j] # None /\ tokens[j].team \in Orphans
                                    THEN None ELSE tokens[j]]
      /\ Publish(ns, k) /\ Orphans \union Offline # {}
      /\ UNCHANGED <<grants, tasks, session, request>>
  BY DEF Gc, Collected
<1>1. /\ Orphans \subseteq Known(teams) \ Owned /\ Offline \subseteq Known(nodes)
      /\ Known(nodes) \subseteq Node
  BY RecordsTyped DEF Orphans, Offline, Known
<1>2. k \in Nat /\ k > 0
  <2>1. IsFiniteSet(Orphans) /\ IsFiniteSet(Offline)
    BY <1>1, FS_Subset DEF RInv, TeamsOK, NodesOK
  <2>2. /\ Cardinality(Orphans) \in Nat /\ Cardinality(Offline) \in Nat
        /\ Cardinality(Orphans) = 0 <=> Orphans = {}
        /\ Cardinality(Offline) = 0 <=> Offline = {}
    BY <2>1, FS_CardinalityType, FS_EmptySet
  <2> QED BY <1>0, <2>2
<1> HIDE DEF k
<1>3. /\ \A n \in Node : nodes[n] = None => ns[n] = None
      /\ \A n \in Known(nodes) : /\ ns[n] \in NodeRecord /\ ns[n].team = nodes[n].team
                                 /\ ns[n].oldest = nodes[n].oldest /\ ns[n].key = nodes[n].key
  <2>1. \A n \in Known(nodes) : nodes[n] \in NodeRecord
    BY <1>1, RecordsTyped DEF Known
  <2>2. \A n \in Node : nodes[n] = None => n \notin Offline
    BY <1>1 DEF Known
  <2> QED BY <1>1, <2>1, <2>2 DEF NodeRecord
<1>4. /\ nodes' = ns /\ epoch' = epoch + k /\ epoch' <= MaxEpoch /\ now' = now
      /\ snapshot' = View(ns) /\ conn' = Remaining(ns)
  BY <1>0, <1>2 DEF Publish, Commit
<1>5. ns \in [Node -> NodeRecord \union {None}] /\ Known(ns) = Known(nodes)
  <2>1. \A n \in Node : nodes[n] = None \/ n \in Known(nodes)
    BY RecordsTyped DEF Known
  <2>2. \A n \in Node : ns[n] \in NodeRecord \union {None}
    BY <1>3, <2>1
  <2>3. DOMAIN ns = Node /\ \A n \in Node : ns[n] # None <=> nodes[n] # None
    BY <1>3, <2>1, NoneIs
  <2>4. ns \in [Node -> NodeRecord \union {None}]
    BY <2>2
  <2> HIDE DEF ns
  <2> QED BY <2>3, <2>4, RecordsTyped DEF Known
<1> HIDE DEF ns
<1>6. \A t \in Team : teams[t] # None /\ t \notin Orphans => teams'[t] # None
  BY <1>0
<1>7. TeamsOK'
  <2>1. teams' \in [Team -> Nat \union {None}]
    BY <1>0 DEF RInv, TeamsOK
  <2>2. Known(teams') \ Owned \subseteq Known(teams) \ Owned
    BY <1>0, RecordsTyped DEF Known
  <2>3. IsFiniteSet(Known(teams') \ Owned)
    BY <2>2, FS_Subset DEF RInv, TeamsOK
  <2> QED BY <2>1, <2>3 DEF TeamsOK
<1>8. NodesOK'
  <2> SUFFICES ASSUME NEW n \in Known(nodes)
               PROVE  /\ teams'[ns[n].team] # None
                      /\ ns[n].oldest <= ns[n].key /\ ns[n].key <= epoch'
    BY <1>4, <1>5 DEF NodesOK, RInv
  <2>1. nodes[n] \in NodeRecord /\ nodes[n].team \notin Orphans
    BY <1>1, RecordsTyped DEF Known, Orphans
  <2>2. nodes[n].team \in Team /\ nodes[n].key \in Nat
    BY <2>1 DEF NodeRecord
  <2> QED BY <1>2, <1>3, <1>4, <1>6, <2>1, <2>2, RecordsTyped DEF RInv, NodesOK
<1>9. \A n \in Node : nodes[n] # None => nodes'[n] # None
  BY <1>4, <1>5, RecordsTyped DEF Known
<1>10. TokensOK'
  <2>1. tokens' \in [Token -> TokenRecord \union {None}]
    BY <1>0 DEF RInv, TokensOK
  <2> SUFFICES ASSUME NEW j \in Known(tokens')
               PROVE  /\ teams'[tokens'[j].team] # None
                      /\ tokens'[j].usedBy # None => nodes'[tokens'[j].usedBy] # None
    BY <2>1 DEF TokensOK
  <2>2. /\ j \in Known(tokens) /\ tokens'[j] = tokens[j] /\ tokens[j] \in TokenRecord
        /\ tokens[j].team \notin Orphans
    BY <1>0, RecordsTyped DEF Known
  <2>3. tokens[j].team \in Team /\ (tokens[j].usedBy # None => tokens[j].usedBy \in Node)
    BY <2>2 DEF TokenRecord
  <2> QED BY <1>6, <1>9, <2>2, <2>3 DEF RInv, TokensOK
<1>11. GrantsOK'
  <2> SUFFICES ASSUME NEW g \in Known(grants)
               PROVE  teams'[grants[g].from] # None /\ teams'[grants[g].to] # None
    BY <1>0 DEF RInv, GrantsOK
  <2>1. grants[g] \in GrantRecord /\ grants[g].from \notin Orphans /\ grants[g].to \notin Orphans
    BY RecordsTyped DEF Known, Orphans
  <2>2. grants[g].from \in Team /\ grants[g].to \in Team
    BY <2>1 DEF GrantRecord
  <2> QED BY <1>6, <2>1, <2>2 DEF RInv, GrantsOK
<1>12. TasksOK'
  <2> SUFFICES ASSUME NEW t \in Known(tasks)
               PROVE  teams'[tasks[t].team] # None /\ nodes'[tasks[t].lead] # None
    BY <1>0 DEF RInv, TasksOK
  <2>1. tasks[t] \in TaskRecord /\ tasks[t].team \notin Orphans
    BY RecordsTyped DEF Known, Orphans
  <2>2. tasks[t].team \in Team /\ tasks[t].lead \in Node
    BY <2>1 DEF TaskRecord
  <2> QED BY <1>6, <1>9, <2>1, <2>2 DEF RInv, TasksOK
<1>13. EpochOK'
  <2>1. Cardinality(Known(nodes)) \in Nat /\ Cardinality(Known(grants)) \in Nat
    BY FS_CardinalityType DEF RInv, NodesOK, GrantsOK
  <2> QED BY <1>0, <1>2, <1>4, <1>5, <2>1, RecordsTyped, RegistryAssumption DEF RInv, EpochOK
<1>14. GatewayOK'
  BY <1>4 DEF RInv, GatewayOK, Remaining
<1>15. OwnerOK'
  BY <1>0, <1>9 DEF RInv, OwnerOK, Request
<1> QED
  BY <1>4, <1>7, <1>8, <1>10, <1>11, <1>12, <1>13, <1>14, <1>15 DEF RInv

---------------------------------------------------------------------------------
LEMMA RegistryStepInv == RInv /\ [RegistryNext]_registryVars => RInv'
<1> SUFFICES ASSUME RInv, [RegistryNext]_registryVars PROVE RInv'
  OBVIOUS
<1>1. ASSUME NEW n \in Node, Touch(n)
      PROVE  RInv'
  <2>1. Grows
    <3>1. \A m \in Node : nodes[m] # None => nodes'[m] # None
      <4>1. PICK r \in NodeRecord : nodes' = [nodes EXCEPT ![n] = r]
        BY <1>1, TouchedIs DEF Touch, Publish, Commit
      <4> QED BY <4>1, NoneIs, RecordsTyped
    <3> QED BY <1>1, <3>1 DEF Touch, Grows
  <2>2. TasksOK'
    BY <1>1, <2>1, TasksKept DEF Touch
  <2> QED BY <1>1, <2>2, TouchInv DEF Touch
<1>2. CASE UNCHANGED registryVars
  <2> USE <1>2 DEF registryVars, gatewayVars
  <2>1. GatewayOK' /\ OwnerOK'
    BY DEF RInv, GatewayOK, OwnerOK, directoryVars
  <2> QED BY <2>1, DirectoryKept DEF RInv
<1> QED
  BY <1>1, <1>2, SessionInv, AuthorizeInv, ProcessInv, StopNodeInv, ResumeInv, GcInv,
     CreateTeamInv, RotateKeysInv, ConnectInv, EnrollSelfInv, EnrollInv, JoinTeamInv,
     ReportTaskInv, IssueEnrollTokenInv, RevokeGrantInv, CreateGrantInv
  DEF RegistryNext

(* The tables, the epoch, the gateway's copy and the pending request agree *)
(* after every mutation, authorisation, sweep and restart of the center.   *)
THEOREM RegistryInvariant == RegistrySpec => []RInv
BY RegistryInitInv, RegistryStepInv, PTL DEF RegistrySpec

(* validateRegistryState() never refuses a draft that an operation of the  *)
(* directory makes, nor the state a new process loads.                     *)
THEOREM DraftsAreValid == RegistrySpec => []StateIsValid
<1>1. RInv => StateIsValid
  <2> SUFFICES ASSUME RInv PROVE StateIsValid
    OBVIOUS
  <2>1. DOMAIN snapshot \subseteq Node
    BY RecordsTyped DEF RInv, GatewayOK, View, Known
  <2>2. RegistryTypeOK
    BY <2>1 DEF RInv, TeamsOK, NodesOK, TokensOK, GrantsOK, TasksOK, EpochOK, GatewayOK, OwnerOK,
                RegistryTypeOK, Shaped
  <2>3. ValidateRegistryState
    BY DEF RInv, NodesOK, TokensOK, GrantsOK, TasksOK, EpochOK, ValidateRegistryState
  <2> QED BY <2>2, <2>3 DEF StateIsValid
<1> QED BY <1>1, RegistryInvariant, PTL

(* evaluateUplink() on the gateway's copy decides as the directory would:  *)
(* no notification is missed, in whatever order mutations and connections  *)
(* come.                                                                   *)
THEOREM RoutingIsCurrent == RegistrySpec => []RoutesAreCurrent
<1>1. RInv => RoutesAreCurrent
  <2> SUFFICES ASSUME RInv, NEW n \in Node, NEW m \in Node, NEW t \in Team, Routes(n, m, t)
               PROVE  /\ Active(n) /\ nodes[m] # None /\ nodes[m].team = t
                      /\ nodes[n].team = t \/ Granted(nodes[n].team, t)
    BY DEF RoutesAreCurrent
  <2>1. snapshot = View(nodes)
    BY DEF RInv, GatewayOK
  <2>2. /\ DOMAIN View(nodes) = Known(nodes)
        /\ \A k \in Known(nodes) : View(nodes)[k].team = nodes[k].team
                                    /\ View(nodes)[k].status = nodes[k].status
    BY DEF View
  <2>3. n \in Known(nodes) /\ m \in Known(nodes)
    BY <2>1, <2>2 DEF Routes
  <2> QED BY <2>1, <2>2, <2>3 DEF Routes, Active, Known
<1> QED BY <1>1, RegistryInvariant, PTL

(* Who may change the status of a node.                                    *)
LEMMA StatusChanges ==
  ASSUME RInv, [RegistryNext]_registryVars, NEW n \in Known(nodes),
         nodes'[n].status # nodes[n].status
  PROVE  \/ (Suspend \/ Revoke) /\ n = request.node
         \/ Resume(n)
         \/ n \in Offline
<1>0. n \in Node /\ nodes[n] # None /\ nodes[n] \in NodeRecord
  BY RecordsTyped DEF Known
<1>1. CASE Suspend \/ Revoke
  BY <1>0, <1>1, RecordsTyped DEF Suspend, Revoke, Publish, Commit
<1>2. CASE Gc
  BY <1>0, <1>2 DEF Gc, Collected, Publish, Commit
<1>3. ASSUME NEW m \in Node, Resume(m)
      PROVE  n = m
  BY <1>0, <1>3, RecordsTyped DEF Resume, Publish, Commit
<1>4. ASSUME NEW m \in Node, \/ Touch(m) \/ RotateKeys(m) \/ Connect(m)
                             \/ \E k \in Token : JoinTeam(m, k)
                             \/ \E t \in Task : ReportTask(m, t)
      PROVE  FALSE
  <2>1. Touched(m)[n].status = nodes[n].status /\ DOMAIN Touched(m) = Node
    BY <1>0, RecordsTyped DEF Touched
  <2> HIDE DEF Touched
  <2>2. CASE Touch(m) \/ Connect(m) \/ \E t \in Task : ReportTask(m, t)
    BY <2>1, <2>2 DEF Touch, Connect, ReportTask, Publish, Commit
  <2>3. CASE RotateKeys(m)
    <3>1. PICK a, b : nodes' = [Touched(m) EXCEPT ![m].key = a, ![m].oldest = b]
      BY <2>3 DEF RotateKeys, Publish, Commit
    <3> QED BY <1>0, <2>1, <3>1
  <2>4. CASE \E k \in Token : JoinTeam(m, k)
    <3>1. PICK a : nodes' = [Touched(m) EXCEPT ![m].team = a]
      BY <2>4 DEF JoinTeam, Publish, Commit
    <3> QED BY <1>0, <2>1, <3>1
  <2> QED BY <1>4, <2>2, <2>3, <2>4
<1>5. ASSUME NEW m \in Node, \/ \E t \in Team : EnrollSelf(m, t)
                             \/ \E k \in Token : Enroll(m, k)
      PROVE  FALSE
  BY <1>0, <1>5, RecordsTyped DEF EnrollSelf, Enroll, MayEnroll, Publish, Commit
<1>6. ASSUME nodes' = nodes PROVE FALSE
  BY <1>6
<1>7. CASE Login \/ Logout \/ Refuse \/ RestartCenter \/ Tick \/ UNCHANGED registryVars
  BY <1>6, <1>7 DEF Login, Logout, Refuse, RestartCenter, Tick, registryVars, directoryVars
<1>8. CASE \/ \E t \in Team : CreateTeam(t) \/ \E kind \in {"grant", "token"} : AuthorizeTeam(kind, t)
           \/ \E k \in Token : IssueEnrollToken(k)
           \/ \E g \in Grant : RevokeGrant(g) \/ \E t \in Team : CreateGrant(g, t)
  BY <1>6, <1>8 DEF CreateTeam, AuthorizeTeam, IssueEnrollToken, RevokeGrant, CreateGrant, Publish,
                    Commit, directoryVars
<1>9. CASE \E m \in Node : Disconnect(m) \/ \E kind \in {"suspend", "revoke"} : AuthorizeNode(kind, m)
  BY <1>6, <1>9 DEF Disconnect, AuthorizeNode, directoryVars
<1> QED
  BY <1>1, <1>2, <1>3, <1>4, <1>5, <1>7, <1>8, <1>9 DEF RegistryNext

(* The owner routes stop or resume only nodes of a team of the owner, or   *)
(* of any team for a global owner, although the node may have joined       *)
(* another team between the authorisation and the act.                     *)
THEOREM OwnersActOnOwn == RegistrySpec => OwnerActsOnOwnTeam
<1>1. ASSUME RInv, [RegistryNext]_registryVars, NEW n \in Known(nodes),
             nodes'[n].status # nodes[n].status, n \notin Offline
      PROVE  \/ nodes[n].team \in Owned
             \/ request # None /\ request # request' /\ request.global
             \/ request = request' /\ session.global
  <2>1. CASE (Suspend \/ Revoke) /\ n = request.node
    <3>1. request # None /\ request' = None /\ request.kind \in {"suspend", "revoke"}
          /\ nodes[n].team = request.team
      BY <2>1 DEF Suspend, Revoke, SameTeam
    <3>2. request.global \/ request.team \in Owned
      BY <1>1, <3>1, RequestedNode
    <3> QED BY <3>1, <3>2
  <2>2. CASE Resume(n)
    BY <2>2 DEF Resume, Managed, OwnerOf
  <2> QED BY <1>1, <2>1, <2>2, StatusChanges
<1>2. RInv /\ [RegistryNext]_registryVars
        => [\A n \in Known(nodes) :
              nodes'[n].status # nodes[n].status /\ n \notin Offline =>
                \/ nodes[n].team \in Owned
                \/ request # None /\ request # request' /\ request.global
                \/ request = request' /\ session.global]_registryVars
  BY <1>1
<1> QED BY <1>2, RegistryInvariant, PTL DEF RegistrySpec, OwnerActsOnOwnTeam
=============================================================================

-------------------------------- MODULE Registry --------------------------------
(***************************************************************************)
(* The center: the directory (packages/registry/src/directory.ts), its     *)
(* store (state-store.ts), the owner's session (auth.ts, auth-store.ts),   *)
(* the HTTP routes that change it (http.ts), and what the gateway of the   *)
(* same process reads of it (packages/gateway/src/core.ts, acl.ts;         *)
(* packages/cli/src/server.ts).                                            *)
(*                                                                         *)
(* A mutation works on a draft that is validated, committed and published  *)
(* in one synchronous step, with the notification of the gateway that      *)
(* follows.  Owner requests take two steps: they are authorised, and they  *)
(* act after an await.  Abstracted: names, secrets and their hashes, caps, *)
(* load and the audit log, which no other operation reads; when a grant    *)
(* expires, which is asked at every use; task contents (LeadReports); and  *)
(* the connection itself (Claims).                                         *)
(***************************************************************************)
EXTENDS Naturals, FiniteSets

CONSTANTS
  Team, Node, Token, Grant, Task,   \* identifiers that may be issued
  Owned,         \* the teams whose owner is the user of the session
  MaxKeys,       \* maxKeysPerNode
  MaxNodes,      \* maxNodesPerOwner
  EnrollTtl, SessionTtl, OrphanTtl, OfflineTtl,   \* in ticks
  MaxEpoch,      \* bound: directory epochs
  MaxClock,      \* bound: ticks
  None           \* an identifier not in use, or no value

ASSUME RegistryAssumption ==
  /\ Owned \subseteq Team
  /\ MaxKeys \in Nat \ {0} /\ MaxNodes \in Nat \ {0}
  /\ {EnrollTtl, SessionTtl, OrphanTtl, OfflineTtl, MaxEpoch, MaxClock} \subseteq Nat
  /\ None \notin Team \union Node \union Nat

VARIABLES
  now,
  teams,     \* per team: when it was created
  nodes,     \* per node: its record
  tokens,    \* per enroll token: its record
  grants,    \* per grant: its record
  tasks,     \* per task: team and lead
  epoch,     \* directoryEpoch
  session,   \* the session of the user, or None
  request,   \* an owner request that is authorised and waits, or None
  snapshot,  \* GatewayCore.directory: team and status per node
  conn       \* per node: team of its connection (presence), or None

directoryVars == <<teams, nodes, tokens, grants, tasks, epoch>>
gatewayVars == <<snapshot, conn>>
registryVars == <<now, directoryVars, session, request, gatewayVars>>

NodeRecord == [team : Team, status : {"active", "suspended", "revoked"},
               oldest : Nat, key : Nat, seen : Nat]
TokenRecord == [team : Team, expires : Nat, usedBy : Node \union {None}]
GrantRecord == [from : Team, to : Team]
TaskRecord == [team : Team, lead : Node]
Session == [expires : Nat, global : BOOLEAN]
Request == [kind : {"suspend", "revoke"}, team : Team, node : Node, global : BOOLEAN]
             \union [kind : {"grant", "token"}, team : Team]

ASSUME NoneAssumption ==
  None \notin NodeRecord \union TokenRecord \union GrantRecord \union TaskRecord
               \union Session \union Request

Known(f) == {x \in DOMAIN f : f[x] # None}

\* snapshot()
View(ns) == [n \in Known(ns) |-> [team |-> ns[n].team, status |-> ns[n].status]]

RegistryInit ==
  /\ now = 0
  /\ teams = [t \in Team |-> IF t \in Owned THEN 0 ELSE None]
  /\ nodes = [n \in Node |-> None]
  /\ tokens = [k \in Token |-> None]
  /\ grants = [g \in Grant |-> None]
  /\ tasks = [t \in Task |-> None]
  /\ epoch = 0
  /\ session = None /\ request = None
  /\ snapshot = View(nodes)
  /\ conn = [n \in Node |-> None]

--------------------------------------------------------------------------------
(* The draft: mutate(), bumpEpoch(), and the gateway's syncRegistry() *)

Active(n) == nodes[n] # None /\ nodes[n].status = "active"

\* The connections that remain when the gateway has seen the records ns.
Remaining(ns) ==
  [n \in Node |-> IF ns[n] # None /\ ns[n].status = "active" THEN conn[n] ELSE None]

\* commitRegistryState(): all tables and the epoch in one transaction.
Commit(ns, k) ==
  /\ epoch + k <= MaxEpoch
  /\ nodes' = ns
  /\ epoch' = epoch + k

\* Commit the records ns and publish them; k bumps of the epoch, if any, notify.
Publish(ns, k) ==
  /\ Commit(ns, k)
  /\ IF k > 0
     THEN snapshot' = View(ns) /\ conn' = Remaining(ns)
     ELSE UNCHANGED <<snapshot, conn>>
  /\ UNCHANGED now

\* authByToken() of a node in good standing touches last_seen.
Touched(n) == [nodes EXCEPT ![n].seen = now]

--------------------------------------------------------------------------------
(* Teams and enrollment *)

CreateTeam(t) ==
  /\ teams[t] = None
  /\ teams' = [teams EXCEPT ![t] = now]
  /\ UNCHANGED <<now, nodes, tokens, grants, tasks, epoch, session, request, gatewayVars>>

NewNode(t) == [team |-> t, status |-> "active", oldest |-> 1, key |-> 1, seen |-> now]

\* Nodes, revoked ones too, of all teams of the owner.
OwnedNodes == {n \in Known(nodes) : nodes[n].team \in Owned}

\* doEnroll(): the quota counts what the owner of the team has.
MayEnroll(n, t) ==
  /\ nodes[n] = None
  /\ t \in Owned => Cardinality(OwnedNodes) < MaxNodes

\* Without a token: a team of its own.
EnrollSelf(n, t) ==
  /\ teams[t] = None /\ t \notin Owned
  /\ MayEnroll(n, t)
  /\ teams' = [teams EXCEPT ![t] = now]
  /\ Publish([nodes EXCEPT ![n] = NewNode(t)], 1)
  /\ UNCHANGED <<tokens, grants, tasks, session, request>>

\* Not used and not expired.
Usable(k) == tokens[k] # None /\ tokens[k].usedBy = None /\ now <= tokens[k].expires

Enroll(n, k) ==
  /\ Usable(k) /\ MayEnroll(n, tokens[k].team)
  /\ tokens' = [tokens EXCEPT ![k].usedBy = n]
  /\ Publish([nodes EXCEPT ![n] = NewNode(tokens[k].team)], 1)
  /\ UNCHANGED <<teams, grants, tasks, session, request>>

JoinTeam(n, k) ==
  /\ Active(n) /\ Usable(k)
  /\ tokens' = [tokens EXCEPT ![k].usedBy = n]
  /\ Publish([Touched(n) EXCEPT ![n].team = tokens[k].team], 1)
  /\ UNCHANGED <<teams, grants, tasks, session, request>>

--------------------------------------------------------------------------------
(* What a node does with its token *)

\* GET or PATCH of itself, caps, load, commands, lookups: last_seen.
Touch(n) ==
  /\ Active(n) /\ nodes[n].seen # now
  /\ Publish(Touched(n), 0)
  /\ UNCHANGED <<teams, tokens, grants, tasks, session, request>>

\* rotateKeys(): the oldest key beyond MaxKeys goes.
RotateKeys(n) ==
  /\ Active(n)
  /\ LET key == nodes[n].key + 1
         kept == nodes[n].oldest
     IN Publish([Touched(n) EXCEPT
                   ![n].key = key,
                   ![n].oldest = IF key - kept >= MaxKeys THEN key - MaxKeys + 1 ELSE kept], 1)
  /\ UNCHANGED <<teams, tokens, grants, tasks, session, request>>

\* reportTask(): the first report fixes the team and the lead.
ReportTask(n, t) ==
  /\ Active(n)
  /\ tasks[t] = None \/ tasks[t] = [team |-> nodes[n].team, lead |-> n]
  /\ tasks' = [tasks EXCEPT ![t] = [team |-> nodes[n].team, lead |-> n]]
  /\ Publish(Touched(n), 0)
  /\ UNCHANGED <<teams, tokens, grants, session, request>>

\* A connection of the gateway is authenticated, or gone.
Connect(n) ==
  /\ Active(n)
  /\ nodes' = Touched(n)
  /\ conn' = [conn EXCEPT ![n] = nodes[n].team]
  /\ UNCHANGED <<now, teams, tokens, grants, tasks, epoch, session, request, snapshot>>

Disconnect(n) ==
  /\ conn[n] # None
  /\ conn' = [conn EXCEPT ![n] = None]
  /\ UNCHANGED <<now, directoryVars, session, request, snapshot>>

--------------------------------------------------------------------------------
(* The owner *)

\* The role is global_owner, or user: the owner of some teams.
Login ==
  /\ session' \in [expires : {now + SessionTtl}, global : BOOLEAN]
  /\ UNCHANGED <<now, directoryVars, request, gatewayVars>>

\* logout, and session() when it meets one that has expired
Logout ==
  /\ session # None
  /\ session' = None
  /\ UNCHANGED <<now, directoryVars, request, gatewayVars>>

\* AuthService.session()
Valid == session # None /\ now < session.expires

\* assertOwner()
OwnerOf(t) == Valid /\ (session.global \/ t \in Owned)

\* The routes that act on a node are authorised for the team it is in.
AuthorizeNode(kind, n) ==
  /\ request = None /\ nodes[n] # None /\ OwnerOf(nodes[n].team)
  /\ request' = [kind |-> kind, team |-> nodes[n].team, node |-> n, global |-> session.global]
  /\ UNCHANGED <<now, directoryVars, session, gatewayVars>>

\* The others are authorised for the team of the URL, before the body arrives.
AuthorizeTeam(kind, t) ==
  /\ request = None /\ OwnerOf(t)
  /\ request' = [kind |-> kind, team |-> t]
  /\ UNCHANGED <<now, directoryVars, session, gatewayVars>>

\* Fault: the team is not looked up again.
SameTeamAssumed(r) == nodes[r.node].team \in Team

\* After the await, the node must still be in the team.
SameTeam(r) == nodes[r.node].team = r.team

\* A request that is refused, or whose client went away.
Refuse ==
  /\ request # None
  /\ request' = None
  /\ UNCHANGED <<now, directoryVars, session, gatewayVars>>

\* Fault: the epoch does not move, and nobody is notified.
SuspendSilently ==
  /\ request # None /\ request.kind = "suspend" /\ SameTeam(request)
  /\ nodes[request.node].status # "revoked"
  /\ Publish([nodes EXCEPT ![request.node].status = "suspended"], 0)
  /\ request' = None
  /\ UNCHANGED <<teams, tokens, grants, tasks, session>>

Suspend ==
  /\ request # None /\ request.kind = "suspend" /\ SameTeam(request)
  /\ nodes[request.node].status # "revoked"
  /\ Publish([nodes EXCEPT ![request.node].status = "suspended"], 1)
  /\ request' = None
  /\ UNCHANGED <<teams, tokens, grants, tasks, session>>

Revoke ==
  /\ request # None /\ request.kind = "revoke" /\ SameTeam(request)
  /\ Publish([nodes EXCEPT ![request.node].status = "revoked"], 1)
  /\ request' = None
  /\ UNCHANGED <<teams, tokens, grants, tasks, session>>

\* The resume route of a team looks the node up after it was authorised.
Managed(n) == nodes[n] # None /\ OwnerOf(nodes[n].team)

Resume(n) ==
  /\ Managed(n) /\ nodes[n].status = "suspended"
  /\ Publish([nodes EXCEPT ![n].status = "active"], 1)
  /\ UNCHANGED <<teams, tokens, grants, tasks, session, request>>

IssueEnrollToken(k) ==
  /\ request # None /\ request.kind = "token"
  /\ teams[request.team] # None /\ tokens[k] = None
  /\ tokens' = [tokens EXCEPT ![k] = [team |-> request.team, expires |-> now + EnrollTtl,
                                      usedBy |-> None]]
  /\ request' = None
  /\ UNCHANGED <<now, teams, nodes, grants, tasks, epoch, session, gatewayVars>>

CreateGrant(g, t) ==
  /\ request # None /\ request.kind = "grant"
  /\ teams[request.team] # None /\ teams[t] # None /\ t # request.team
  /\ grants[g] = None
  /\ grants' = [grants EXCEPT ![g] = [from |-> request.team, to |-> t]]
  /\ Publish(nodes, 1)
  /\ request' = None
  /\ UNCHANGED <<teams, tokens, tasks, session>>

RevokeGrant(g) ==
  /\ grants[g] # None /\ OwnerOf(grants[g].from)
  /\ grants' = [grants EXCEPT ![g] = None]
  /\ Publish(nodes, 1)
  /\ UNCHANGED <<teams, tokens, tasks, session, request>>

--------------------------------------------------------------------------------
(* Housekeeping and the process *)

\* Fault: a team is kept only for its nodes.
OrphansUnreferenced ==
  {t \in Known(teams) \ Owned : /\ \A n \in Known(nodes) : nodes[n].team # t
                                /\ now - teams[t] >= OrphanTtl}

\* Teams without an owner that nothing refers to.
Orphans ==
  {t \in Known(teams) \ Owned :
     /\ \A n \in Known(nodes) : nodes[n].team # t
     /\ \A g \in Known(grants) : t \notin {grants[g].from, grants[g].to}
     /\ \A k \in Known(tasks) : tasks[k].team # t
     /\ now - teams[t] >= OrphanTtl}

\* Nodes that are not connected and were not seen for long.
Offline == {n \in Known(nodes) : /\ nodes[n].status = "active" /\ conn[n] = None
                                 /\ now - nodes[n].seen >= OfflineTtl}

\* gc(): teams with their tokens first, then nodes.
Collected(ns) ==
  /\ teams' = [t \in Team |-> IF t \in Orphans THEN None ELSE teams[t]]
  /\ tokens' = [k \in Token |-> IF tokens[k] # None /\ tokens[k].team \in Orphans
                                THEN None ELSE tokens[k]]
  /\ Publish(ns, Cardinality(Orphans) + Cardinality(Offline))

Gc ==
  /\ Orphans \union Offline # {}
  /\ Collected([n \in Node |-> IF n \in Offline THEN [nodes[n] EXCEPT !.status = "revoked"]
                               ELSE nodes[n]])
  /\ UNCHANGED <<grants, tasks, session, request>>

\* teamShape, nodeShape, enrollShape, grantShape, taskShape
Shaped ==
  /\ teams \in [Team -> Nat \union {None}]
  /\ nodes \in [Node -> NodeRecord \union {None}]
  /\ tokens \in [Token -> TokenRecord \union {None}]
  /\ grants \in [Grant -> GrantRecord \union {None}]
  /\ tasks \in [Task -> TaskRecord \union {None}]

\* validateRegistryState(), on every commit and every load: whatever a record
\* refers to exists, keys are in order, and the epoch counts the changes.
ValidateRegistryState ==
  /\ epoch >= Cardinality(Known(nodes)) + Cardinality(Known(grants))
  /\ \A n \in Known(nodes) : /\ teams[nodes[n].team] # None
                             /\ nodes[n].oldest <= nodes[n].key /\ nodes[n].key <= epoch
  /\ \A k \in Known(tokens) : /\ teams[tokens[k].team] # None
                              /\ tokens[k].usedBy # None => nodes[tokens[k].usedBy] # None
  /\ \A g \in Known(grants) : /\ grants[g].from # grants[g].to
                              /\ teams[grants[g].from] # None /\ teams[grants[g].to] # None
  /\ \A t \in Known(tasks) : teams[tasks[t].team] # None /\ nodes[tasks[t].lead] # None

\* The process ends; the next one loads what was committed, and nobody is
\* connected.  It synchronises before it listens.
RestartCenter ==
  /\ Shaped /\ ValidateRegistryState
  /\ conn' = [n \in Node |-> None]
  /\ snapshot' = View(nodes)
  /\ request' = None
  /\ UNCHANGED <<now, directoryVars, session>>

Tick ==
  /\ now < MaxClock
  /\ now' = now + 1
  /\ UNCHANGED <<directoryVars, session, request, gatewayVars>>

RegistryNext ==
  \/ Login \/ Logout \/ Refuse \/ Suspend \/ Revoke \/ Gc \/ RestartCenter \/ Tick
  \/ \E t \in Team : CreateTeam(t) \/ \E kind \in {"grant", "token"} : AuthorizeTeam(kind, t)
  \/ \E n \in Node : \/ Touch(n) \/ RotateKeys(n) \/ Connect(n) \/ Disconnect(n) \/ Resume(n)
                     \/ \E t \in Team : EnrollSelf(n, t)
                     \/ \E k \in Token : Enroll(n, k) \/ JoinTeam(n, k)
                     \/ \E t \in Task : ReportTask(n, t)
                     \/ \E kind \in {"suspend", "revoke"} : AuthorizeNode(kind, n)
  \/ \E k \in Token : IssueEnrollToken(k)
  \/ \E g \in Grant : RevokeGrant(g) \/ \E t \in Team : CreateGrant(g, t)

RegistrySpec == RegistryInit /\ [][RegistryNext]_registryVars

--------------------------------------------------------------------------------
(* What the gateway decides from its copy (acl.ts) *)

\* hasGrant(): asked of the registry itself, either way round.
Granted(s, t) == \E g \in Known(grants) : {grants[g].from, grants[g].to} = {s, t} /\ s # t

\* evaluateUplink() for an envelope of n to m that says m is in team t.
Routes(n, m, t) ==
  /\ conn[n] # None
  /\ n \in DOMAIN snapshot /\ snapshot[n].status = "active"
  /\ m \in DOMAIN snapshot /\ snapshot[m].team = t
  /\ snapshot[n].team = t \/ Granted(snapshot[n].team, t)

--------------------------------------------------------------------------------
\* Every variable keeps its type.
RegistryTypeOK ==
  /\ now \in 0..MaxClock /\ epoch \in 0..MaxEpoch
  /\ Shaped
  /\ session \in Session \union {None} /\ request \in Request \union {None}
  /\ DOMAIN snapshot \subseteq Node
  /\ conn \in [Node -> Team \union {None}]

\* validateRegistryState() refuses no draft that the operations can make:
\* its fields have their types, whatever a record refers to exists, and the
\* epoch counts the changes.
StateIsValid == RegistryTypeOK /\ ValidateRegistryState

\* The gateway routes an envelope only from a node that is active now, to a
\* node of the same team or of a team with a grant, as the directory has it now.
RoutesAreCurrent ==
  \A n, m \in Node, t \in Team : Routes(n, m, t) =>
    /\ Active(n) /\ nodes[m] # None /\ nodes[m].team = t
    /\ nodes[n].team = t \/ Granted(nodes[n].team, t)

\* The owner of a team neither stops nor resumes a node that is in a team of
\* somebody else.
OwnerActsOnOwnTeam ==
  [][\A n \in Known(nodes) :
       nodes'[n].status # nodes[n].status /\ n \notin Offline =>
         \/ nodes[n].team \in Owned
         \/ request # None /\ request # request' /\ request.global
         \/ request = request' /\ session.global]_registryVars
================================================================================

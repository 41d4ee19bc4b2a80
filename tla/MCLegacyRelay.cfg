\* Two gateway processes, an aid and a project message, mailboxes of one.
SPECIFICATION RelaySpec
CONSTANTS
  g1 = g1
  g2 = g2
  aid = aid
  project = project
  Gateways = {g1, g2}
  Single = g1
  NoGateway = NoGateway
  Peers <- TwoPeers
  Messages = {aid, project}
  Aid = {aid}
  Capacity = 1
  MaxRoutes = 2
INVARIANTS NoMailBesideConnection NothingVanishes

SPECIFICATION FabricSpec
CONSTANTS
  Slots = 6
  HopModulus = 256
  Leftovers <- NoLeftovers
  Routers <- SmallRouters
  Hosts <- SmallHosts
  Peer <- SmallPeer
  InitTables <- SmallTables
  Flows <- SmallFlows
  Paths <- SmallPaths
  LossyTo = {"c"}
  Commands <- SmallCommands
  MaxCommands = 4
  Fragile = {"b"}
  MaxRestarts = 1
PROPERTIES FollowsItsPath
INVARIANTS ArrivesWhole
CHECK_DEADLOCK FALSE

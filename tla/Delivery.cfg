SPECIFICATION FabricFairSpec
CONSTANTS
  Slots = 6
  HopModulus = 256
  Leftovers <- SomeLeftovers
  Routers <- RouterNames
  Hosts <- HostNames
  Peer <- Links
  InitTables <- DeployedTables
  Flows <- DeliveredFlows
  Paths <- SteeringPaths
  LossyTo = {}
  Commands <- SteeringCommands
  MaxCommands = 1
  Fragile = {}
  MaxRestarts = 0
INVARIANTS ArrivesWhole FabricIsOneHop SolicitationsStay
PROPERTIES NoBlackHole PacketsLeave FollowsItsPath
CHECK_DEADLOCK FALSE

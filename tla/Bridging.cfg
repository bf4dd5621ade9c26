SPECIFICATION Spec
CONSTANTS
  r1 = r1  r2 = r2  h1 = h1  h2 = h2  p1 = p1  p2 = p2
  Devices <- MCDevices
  Ports <- MCPorts
  LinkSet = {}
  Hosts <- MCHosts
  Locations <- MCLocations
  Comps = {"l2"}
  InitConfig <- MCDevices
  InitIfaces <- MCDevices
  UdxDevices = {r1}
  Udx4Devices = {r1, r2}
  Roaming = {}
  Movable = {h2}
  MaxChanges = 5
INVARIANTS QuietDevicesReady QuietHostsLearned
CHECK_DEADLOCK FALSE

SPECIFICATION Spec
CONSTANTS
  r1 = r1  r2 = r2  h1 = h1  h2 = h2  p1 = p1  p2 = p2
  Devices <- MCDevices
  Ports <- MCPorts
  LinkSet <- MCCables
  Hosts = {}
  Locations = {}
  Comps = {"ipv6"}
  InitConfig = {r1}
  InitIfaces = {r1}
  UdxDevices = {r1}
  Udx4Devices = {r1, r2}
  Roaming = {r2}
  Movable = {}
  MaxChanges = 6
PROPERTIES BounceRepairs ReplugRepairs
CHECK_DEADLOCK FALSE

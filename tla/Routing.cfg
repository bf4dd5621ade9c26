SPECIFICATION FairSpec
CONSTANTS
  r1 = r1  r2 = r2  h1 = h1  h2 = h2  p1 = p1  p2 = p2
  Devices <- MCDevices
  Ports <- MCPorts
  LinkSet <- MCCables
  Hosts = {}
  Locations = {}
  Comps = {"ipv6"}
  InitConfig <- MCDevices
  InitIfaces <- MCDevices
  UdxDevices = {r1}
  Udx4Devices = {r1, r2}
  Roaming = {}
  Movable = {}
  MaxChanges = 5
PROPERTIES DevicesEventuallyReady LinksEventuallyInstalled
INVARIANTS TypeOK QuietDevicesReady QuietPortsCurrent
CHECK_DEADLOCK FALSE

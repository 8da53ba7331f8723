SPECIFICATION Spec
CONSTANTS
  tv = tv
  box = box
  ip1 = ip1
  ip2 = ip2
  ip3 = ip3
  name = name
  esp = esp
  NoMac = NoMac
  Main = Main
  Macs = {tv, box}
  Ips = {ip1, ip2, ip3}
  Unnumbered = {}
  RemoteIds = {esp}
  Procs = {p1, p2}
  LeaseFiles <- SharedAddresses
  InitialFiles <- OneDeviceOn
  Requests <- DeviceRequests
  Budget <- TwoChanges
INVARIANTS RulesOwned NoStrayRule ApplyAllMatches
SYMMETRY Symmetry
CHECK_DEADLOCK FALSE

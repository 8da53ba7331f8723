SPECIFICATION FairSpec
CONSTANTS
  tv = tv
  box = box
  ip1 = ip1
  ip2 = ip2
  ip3 = ip3
  name = name
  esp = esp
  NoMac = NoMac
  Main = Main
  Macs = {tv, box}
  Ips = {ip1, name}
  Unnumbered = {name}
  RemoteIds = {esp}
  Procs = {p1}
  LeaseFiles <- NoLeases
  InitialFiles <- OneDeviceOn
  Requests <- MoveToName
  Budget <- OneRequestOneCrash
PROPERTIES PanelRecovers
CHECK_DEADLOCK FALSE

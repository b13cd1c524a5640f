SPECIFICATION Spec
CONSTANTS
  k1 = k1
  k2 = k2
  k3 = k3
  h1 = h1
  h2 = h2
  s1 = s1
  s2 = s2
  u1 = u1
  u2 = u2
  u3 = u3
  usb = usb
  gdrive = gdrive
  Checkers <- TwoCheckers
  Shares <- ThreeShares
  HostOf <- MCHostOf
  Stamps <- TwoStamps
  Servers <- ThreeServers
  PortOf <- MCPortOf
  MaxDrives = 3
  NoPath = NoPath
SYMMETRY MCSymmetry
INVARIANTS TypeOK MountsHaveDrives DestinationCheckSound RefusedShareIsMounted EjectAnswerTrue ServersAreDrivesOnce

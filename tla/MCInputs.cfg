SPECIFICATION MCSpec
CONSTANTS
  Bytes = {0, 1, 127, 128, 254, 255}
  MaxLength = 6
  My <- MCMy
  NetworkOctets = 3
  Gateway <- MCGateway
  GatewayMac <- MCGatewayMac
  Router <- Far
  Hosts <- MCHosts
  Sizes = {0, 1, 2, 17, 40, 1000}
  TTLs = {1, 255}
  Idents = {0, 258}
  Quenches <- MCQuenches
  Heaps <- MCHeaps
  Fragments = {0, 1, 185, 8192, 8377, 16384, 24576, 32768}
  Keys <- MCKeys
  BoxSize = 1
  Octets = 2
  SizeMax = 125
  SizeWidth = 65536
CHECK_DEADLOCK FALSE
INVARIANTS
  EvenIsReference
  SealedIsValid
  DamageNoticed
  PingRoundTrip
  ErrorFindsPing
  PartsRefused
  ARPRoundTrip
  AddressAsShown
  NumberAsShown

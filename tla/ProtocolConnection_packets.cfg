SPECIFICATION FairSpec
CONSTANTS
  server = server
  client = client
  tls = tls
  state = state
  Sides = {server, client}
  Packets <- MCPackets
  Modules = {tls, state}
  HeaderModuleMap <- MCHeaderModuleMap
  None = None
CHECK_DEADLOCK FALSE
INVARIANTS
  PacketsInOrder
  StreamIntact
PROPERTIES
  AllArrive
  ImplementsChannel

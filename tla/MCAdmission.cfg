SPECIFICATION Spec
CONSTANTS
  alice = alice
  bob = bob
  proxy = proxy
  Proxy = proxy
  Clients <- MCClients
  Configs <- MCConfigs
  Requests <- MCRequests
  Agents <- MCAgents
INVARIANTS
  TypeOK
  PoliteNeverTrapped
  RobotsExact
  NamedTruly
CHECK_DEADLOCK FALSE

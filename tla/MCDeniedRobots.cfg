SPECIFICATION Spec
CONSTANTS
  alice = alice
  bob = bob
  proxy = proxy
  Proxy = proxy
  Clients <- MCClients
  Configs <- MCConfigs
  Requests <- MCRequests
  Agents <- MCAgents
INVARIANTS
  DeniedGetNotFound
CHECK_DEADLOCK FALSE

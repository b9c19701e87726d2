SPECIFICATION Spec
CONSTANTS
  Transports <- MCTransports
  Clients <- MCClients
  Platforms = {"amd64", "arm64"}
  Versions = {"v1", "v2"}
  Client <- MCClient
  Platform <- MCPlatform
  Version <- MCVersion
  Native = "amd64"
  Images <- MCTwoLibraries
  Rebuilding = {"two"}
  AutoSetup = {"one"}
  Fixes = 3
  None = None
  MaxGen = 2
  MaxTrouble = 1
INVARIANT ListsBeforeInstall
CHECK_DEADLOCK FALSE

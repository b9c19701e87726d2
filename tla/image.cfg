SPECIFICATION MCSpec
CONSTANTS
  Transports <- MCTransports
  Clients <- MCClients
  Platforms = {"amd64", "arm64"}
  Versions = {"v1", "v2"}
  Client <- MCClient
  Platform <- MCPlatform
  Version <- MCVersion
  Native = "amd64"
  Images <- MCImages
  Rebuilding = {"two"}
  AutoSetup = {"one"}
  Fixes = 3
  None = None
  MaxGen = 2
  MaxTrouble = 1
INVARIANTS TypeOK AliasIsItsPlatform HandedItsOwn MendedWhenItCan
PROPERTY AllServed
CHECK_DEADLOCK FALSE

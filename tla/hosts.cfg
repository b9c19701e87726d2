SPECIFICATION MCSpec
CONSTANTS
  alias = alias
  seen = seen
  heard = heard
  inv = inv
  m1 = m1
  m2 = m2
  a1 = a1
  a2 = a2
  Order <- MCOrder
  Source <- MCSource
  Inventory = {inv}
  me = me
  git = git
  SelfNames = {me}
  own = own
  SelfKeys = {own}
  IPs = {seen}
  GitHosts = {git}
  Networks <- MCNetworks
  Users = {"root", "admin"}
  u26 = u26
  u24 = u24
  deb = deb
  web = web
  Base = {web}
  Images = {u26, u24, deb}
  Distro <- MCDistro
  Family <- MCFamily
  Rank <- MCRank
  Remote = {u26, u24}
  Archs = {"x86", "arm"}
  HostArch = "x86"
  UserEntries <- MCEntries
  Catalogs <- MCCatalogs
  MaxRuns = 2
INVARIANTS BothTypesOK PullsOnlyForNeed FileKept OncePerMachine WritesTheTested
PROPERTIES AddsOnlyNew NothingGuessed
CHECK_DEADLOCK FALSE

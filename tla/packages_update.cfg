SPECIFICATION FocusSpec
CONSTANTS
  None = None
  Foci = {"registry"}
  app = app
  lib = lib
  app1 = app1
  app2 = app2
  lib1 = lib1
  lib2 = lib2
  k1 = k1
  Unsafe = Unsafe
  g1 = g1
  g2 = g2
  c1 = c1
  c2 = c2
  p1 = p1
  h1 = h1
  h2 = h2
  v1 = v1
  v2 = v2
  mirror = mirror
  Hashes <- MCHashes
  Manifest <- MCManifest
  Policies <- MCPolicies
  Keys = {k1}
  Revocable <- MCRevocable
  Services <- MCServices
  Dynamic = {"L0"}
  Deliveries <- MCDeliveries
  Firsthand = {lib2}
  MaxFaults = 0
  MaxChanges = 0
  Nil = Nil
  Clients = {c1, c2}
  Packages = {p1}
  Versions <- VersionsOnOffer
  Publications <- OnOffer
  PublisherKeys = {k1}
  Targets <- TargetsOnOffer
  Reasons = {"a", "b"}
  MaxServerFaults = 2
  Hosts = {h1, h2}
  Feeds <- Sourced
  FeedVersions = {v1, v2}
  Origins = {mirror}
  Allowed <- SourcesAllowed
  Declares <- SourcesDeclare
  Size <- SizeOf
  SourceLimit = 3
  CacheLimit = 2
  MaxEdits = 3
  MaxBegun = 2
  MaxSourceFaults = 1
PROPERTIES
  UpdatesAreAtomic
CHECK_DEADLOCK FALSE

SPECIFICATION Spec
CONSTANTS
  None = None
  Foci = {"library", "presets", "memory", "branches", "documents", "relations", "content", "media", "talk", "edit", "pair", "page", "rail", "creator"}
  root = root
  branch = branch
  twin = twin
  first = first
  second = second
  owner = owner
  tone = tone
  mood = mood
  clerk = clerk
  rival = rival
  hero = hero
  place = place
  style = style
  MemoryScopes = {"chat"}
  Facts <- StoredFacts
  PlainFacts <- LooseFacts
  MemoryCallers = {"x", "y"}
  Scorers <- TwoScorers
  EventLimit = 2
  HitLimit <- Hits
  MaxCalls = 4
  MaxStoreFaults = 1
  Items <- SceneItems
  Extras <- SceneExtras
  Texts <- SceneTexts
  EntryLimits = {1, 2}
  SizeLimits = {1, 3}
  Throws <- SceneThrows
  Digest <- SceneDigest
  MaxTables = 4
  AssetScopes = {"chat", "profile"}
  AssetParent <- Upper
  AssetKinds = {"character", "persona"}
  SingleKinds = {"persona"}
  AssetIds = {"a", "b"}
  Contents = {"v1"}
  Presets <- PresetsById
  LibraryJobs <- AssetJobs
  PresetJobs <- JobsOnPresets
  MaxCatalogQueue = 2
  MaxCatalogStops = 1
  MediaAdapters <- BothAdapters
  MediaProviders <- TwoProviders
  MediaBatches <- MixedBatches
  MediaAuthorities <- TwoAuthorities
  Intakes = {clerk}
  MediaKinds = {"image", "video"}
  ImagesPerMessage = 2
  MaxMediaFaults = 1
  PageLibrary = {hero, place}
  PagePresets = {style}
  PageFiles <- ThreeFiles
  LastVersion = 2
  MaxRailOperations = 1
  MaxCreatorOperations = 1
INVARIANTS
  CatalogIsSound
  MemoryIsDurable
  StoresAreSound
  ContentIsSound
  IntakeIsSound
  ProductIsSound
  ShownIsTrue
CHECK_DEADLOCK FALSE

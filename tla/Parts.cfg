SPECIFICATION PartsSpec
CONSTANTS
  \* HeaderRewrap
  Credentials = {old, new, newer}
  First = old
  RewrapFaults = {"io", "kill", "power"}
  \* VaultCreation
  Creators = {p1, p2}
  Opener = opener
  CreationFaults = {"io", "kill", "power"}
  \* VaultBackup
  MaxVersion = 1
  BackupFaults = {"io", "kill", "power"}
  \* CatalogFiles
  FileNames = {"catalog.db-wal"}
  Pids = {1}
  MaxInodes = 2
  MaxRetired = 1
  MaxBytes = 2
  FileFaults = {"io", "foreign", "power", "restart"}
  \* GalleryTree
  Galleries = {g1, g2, g3}
  Images = {i1}
  MaxPosition = 1
  MaxStatements = 1
  ListLimit = 20
  \* GalleryView
  Album = Album
  Trip = Trip
  Photo = Photo
  Movie = Movie
  Trees <- MCTrees
  Folders = {Album, Trip}
  Tiles = {t1, t2}
  MaxSessions = 2
  ListingMayFail = TRUE
  MaxListings = 2
  MaxThumbnails = 1
  \* ViewerPlayback
  FrameCount <- MCFrameCount
  Transforms = {0, 1}
  Identity = 0
  MaxRequests = 2
  MaxLocks = 2
  \* Shell
  Accelerators <- MCAccelerators
  Workers = {1}
  MaxJobs = 2
  MaxGenerations = 4
  \* ObjectFile
  StoredObjects = {o1, o2}
  MaxLength = 4
  ChunkSizes = {2}
  MaxDamage = 1
  \* HeaderFormat
  Symbols = {0, 1}
  MaxPart = 1
  VaultIds = {v1, v2}
  Costs <- MCCosts
  MaxAlterations = 1
  \* WireFormat
  FrameNumbers = {0, 3, 513}
  Payloads <- MCPayloads
  MaxDataLength = 2
  DamagedBytes = {0, 1, 2, 3, 4, 7, 9, 10, 11}
  \* ImageProbe
  Canvases <- MCCanvases
  FrameCounts = {0, 1, 2}
  MaxSegments = 5
  MaxDimension = 4
  MaxPixels = 8
  MaxPixelFrames = 8
  MaxAnimationFrames = 2
  \* ImageRendition
  Sides = {1, 3, 5}
  AnimationDelays = {1, 99}
  PngLengths = {7}
  ThumbnailEdge = 2
  MaxViewerEdge = 3
  MaxResult <- MCMaxResult
  MinDelay = 2
  MaxDelay = 50
  Lies = {0, 1, 3}
  MaxLies = 2
INVARIANTS
  PartsTypeOK
  RewrapIsSafe
  ReportedIsDone
  GalleriesHold
  ScreenIsTrue
  ShellIsAccounted
  BytesReadBack
  ImagesAgree
CHECK_DEADLOCK FALSE

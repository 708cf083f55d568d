SPECIFICATION SpecLaunch
CONSTANTS
  None = None
  Lower <- MCLower
  WithoutGit <- MCWithoutGit
  Number <- MCNumber
  Launches <- MCLaunches
  Urls <- MCUrls
  Dashed <- MCDashed
  WithEquals <- MCWithEquals
  Clusters <- MCClusters
  Parent <- MCParent
  Directories <- MCDirectories
  Ids <- MCIds
  File <- MCFile
  Line <- MCLine
  Written <- MCWritten
  Answers <- MCAnswers
INVARIANTS
  ArgumentsAsListed
  OneRepository
  ExportIsWhole
  ItemsAreThreads
CHECK_DEADLOCK FALSE

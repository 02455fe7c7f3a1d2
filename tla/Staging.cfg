SPECIFICATION FairSpec
CONSTANTS
  a = a
  A = A
  b = b
  d = d
  Here = Here
  Up = Up
  NoSnapshot = NoSnapshot
  Downloads = d
  LauncherName = b
  Names <- MCNames
  Fold <- MCFold
  Spells <- MCSpells
  Paths <- MCPaths
  LinkTexts <- MCLinkTexts
  Destinations <- MCDestinations
  Kinds <- MCKinds
  KindLimit <- MCKindLimit
  Candidates <- MCCandidates
  PartName <- MCPartName
  Executables <- MCExecutables
  PackageRoot <- MCPackageRoot
  Supports <- MCSupports
  Checkpoints <- MCCheckpoints
  Manifest <- MCManifest
  StagingNames <- MCStagingNames
  Scribbles <- MCScribbles
  Sizes = {2, 3}
  FileLimit = 2
  ByteLimit = 4
  EntryLimit = 4
  Artifacts = 2
  PackageLimit = 3
  ReportEvery = 2
INVARIANTS
  TypeOK
  Accounted
  NeverTooLate
  LinksAreTheirTargets
  ActiveAsReviewed
  LauncherTells
PROPERTIES
  OnlyBadLinksAreRefused
  ProgressIsHonest
  StagingEnds
  CancelEndsIt

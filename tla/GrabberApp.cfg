SPECIFICATION FairSpec
CONSTANTS
  gui = gui
  cli = cli
  k1 = k1
  k2 = k2
  c1 = c1
  c2 = c2
  Processes <- MCProcesses
  Importers <- MCProcesses
  Manifests <- MCManifests
  Gui = gui
  Absent = Absent
  Torn = Torn
  Curated = Curated
  NoRecipe = NoRecipe
  MaxReports = 2
  Sessions = {{"refresh"}, {"import"}}
INVARIANTS
  TypeOK
  RefreshHeals
  LoadedIsReleased
  ImportedMeansStored
  CancelledByItsUser
  WidgetsFollowTheJob
PROPERTIES
  ApprovedAsShown
  JobEnds

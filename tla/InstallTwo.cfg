SPECIFICATION Spec
CONSTANTS
  worker = worker
  ui = ui
  cli = cli
  exe = exe
  net = net
  d1 = d1
  d2 = d2
  d3 = d3
  Actors = {worker, ui, cli}
  Processes = {"gui", "cli"}
  Proc <- TwoProcesses
  Does <- GuiAndCli
  Ids = {i1}
  Recipes = {r1}
  Sources = {"curated"}
  Payload <- MCPayload
  Exe = exe
  Downloads = downloads
  Stray = stray
  Dirs = {d1, d2, d3}
  NoDir = NoDir
  NoRecord = NoRecord
SYMMETRY Symmetry
INVARIANTS
  WholeUnlessCondemned
  RecordsAreWhole
PROPERTIES
  OnlyRemovalTakesAway

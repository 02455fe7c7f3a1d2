SPECIFICATION Spec
CONSTANTS
  worker = worker
  ui = ui
  cli = cli
  exe = exe
  net = net
  d1 = d1
  d2 = d2
  d3 = d3
  Actors = {worker, cli}
  Processes = {"gui", "cli"}
  Proc <- GuiAndRepair
  Does <- RepairBeside
  Ids = {i1}
  Recipes = {r1}
  Sources = {"curated"}
  Payload <- MCPayload
  Exe = exe
  Downloads = downloads
  Stray = stray
  Dirs = {d1}
  NoDir = NoDir
  NoRecord = NoRecord
INVARIANT WholeUnlessCondemned

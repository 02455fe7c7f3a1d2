SPECIFICATION Spec
CONSTANTS
  worker = worker
  ui = ui
  cli = cli
  exe = exe
  net = net
  d1 = d1
  d2 = d2
  d3 = d3
  Actors = {ui}
  Processes = {"gui"}
  Proc <- SoloProc
  Does <- SoloDoes
  Ids = {i1}
  Recipes = {r1, r2}
  Sources = {"curated"}
  Payload <- MCPayload
  Exe = exe
  Downloads = downloads
  Stray = stray
  Dirs = {d1, d2}
  NoDir = NoDir
  NoRecord = NoRecord
PROPERTY RecoveredMeansRegistered

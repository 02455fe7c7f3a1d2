SPECIFICATION Spec
CONSTANTS
  r1 = r1
  r2 = r2
  b1 = b1
  b2 = b2
  i1 = i1
  Ids = {i1}
  Builds = {b1, b2}
  Roots = {r1, r2}
  Nothing = Nothing
  Openers = {"list", "recent", "command"}
  MaxMishaps = 2
SYMMETRY Symmetry
INVARIANTS
  TypeOK
  VerifiedIsOfTheRecord
  EnginesAreKept
PROPERTIES
  StepsStayInTheirRoot
CONSTRAINT HandoffBound

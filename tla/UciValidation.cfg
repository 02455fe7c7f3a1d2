SPECIFICATION FairSpec
CONSTANTS
  Capacity = 1
  PipeSize = 1
  MaxLines = 4
INVARIANTS
  TypeOK
  EngineIsReaped
PROPERTIES
  OkIsEarned
  ValidationReturns
  CancelReturns
  ReaderEnds

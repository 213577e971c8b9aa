SPECIFICATION FairSpec
CONSTANTS
  x1 = x1
  x2 = x2
  x3 = x3
  y1 = y1
  y2 = y2
  x = x
  y = y
  Build = {x1, x2, y1, y2}
  Service = {x, y}
  ServiceOf <- MCServiceOf
  Number <- MCNumber
  Path <- MCPath
  Writes <- MCWrites
  Rendering <- MCRendering
  Original <- MCOriginal
  Registry <- MCRegistry
  InOrder <- MCInOrder
  Environments = 2
  Faults = FALSE
INVARIANT TypeOK
INVARIANT OneBuild
INVARIANT NewestDeployed
INVARIANT InTurn
PROPERTY NoLostUpdate
CHECK_DEADLOCK FALSE
PROPERTY Settles

SPECIFICATION Spec
CONSTANTS
  A = A
  S = S
  B = B
  N = N
  RA = RA
  RB = RB
  Left = Left
  Right = Right
  None = None
  Blank = Blank
  Sides <- OneColumn
  Dirs <- Apart
  RepoOf <- ApartRepo
  Under <- ApartUnder
  Home = A
  FirstKey <- ApartKey
  Written <- OnlyRA
  Tries = 2
  MaxOps = 2
  MaxEdits = 1
  MaxMoves = 2
  MaxQueue = 2
  Generations = 3
  MayMiss <- Never
  MayFail <- Either
INVARIANTS
  ShownOwn
  NeverNewerKey
  BehindIsNoticed
PROPERTIES
  Converges
CHECK_DEADLOCK FALSE

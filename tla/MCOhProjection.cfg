SPECIFICATION ResultSpec
CONSTANTS
  a = a
  b = b
  c = c
  x = x
  y = y
  z = z
  Null = Null
  Relations = {"edge", "reach", "back", "path"}
  Atoms = {a, b, c}
  Variables = {x, y, z}
  Lanes = {"canonical", "working"}
  Inputs <- Evaluated
  FactLimit = 4
  RelationLimit = 3
  QueryMatches = 8
  LiteralsPerRule = 3
  QueryLiterals = 3
  QueryResults = 3
  Slack = 2
  FrameBytes = 1
INVARIANTS LeastModelReached RowsHonest ResultParses CanonicalStandsAlone
CHECK_DEADLOCK FALSE

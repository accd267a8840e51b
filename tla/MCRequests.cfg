SPECIFICATION Spec
CONSTANTS
  MaxSends = 3
  MaxBinds = 2
  Host = {h1, h2}
  Nothing = Nothing
  Service <- MCService
  Query <- MCQuery
  MaxId <- MCMaxId
  MaxStarts_D <- MCMaxStarts
  Asker = h1
  FsCall = {1, 3}
  Kinds = {"read", "write", "append", "truncate"}
  Contents <- MCContents
  MaxFails = 2
  Walk = {1, 2}
  Trees <- MCTrees
  Paths <- MCPaths
  MaxErrors = 1
INVARIANTS DatagramsOnce DiscoversMatching AnswersHonest RealpathAgrees
PROPERTY CallsSettle
CHECK_DEADLOCK FALSE

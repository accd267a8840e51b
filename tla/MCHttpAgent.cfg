SPECIFICATION AgentSpec
CONSTANTS
  Req = {1, 2, 3}
  Hosts = {"host:80"}
  MaxSockets = 1
  MaxOdd = 1
  Host <- OneHost
INVARIANTS WaitingMeansFull OneEach ToldOnce
PROPERTY RequestsSettle
CHECK_DEADLOCK FALSE

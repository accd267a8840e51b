SPECIFICATION Spec
CONSTANTS
  Names <- MCNames
  MaxLines = 3
  MaxPieces = 2
  MaxHeaders = 2
  Shapes <- MCShapes
  MaxRequests = 2
  MaxStarts = 2
  MaxNested = 2
  MaxPath = 5
  MaxText = 4
INVARIANTS HeadersAsSent AnsweredAsAsked PureLaws
PROPERTY RequestsSettle
CHECK_DEADLOCK FALSE

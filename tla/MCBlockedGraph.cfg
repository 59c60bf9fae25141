SPECIFICATION Spec
CONSTANTS
  numArrays = 3
  Programs <- MCPrograms
  VertexText = {"POST", "NOTHING"}
  EdgeText = {"POSTED", "NOTHING"}
  Timestamp = {7}
  MaxVertices = 4
  MaxEdges = 3
INVARIANTS BagsComplete EachOnce SearchesGraph FindsComponents
PROPERTIES ImplementsGraph Terminates
CHECK_DEADLOCK FALSE

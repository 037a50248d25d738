SPECIFICATION Spec
CONSTANTS
  N = 3
  Nodes <- ThreeNodes
  NChunks = 8
  Computes = 3
  MayGrow = FALSE
  MayAbort = FALSE
INVARIANTS NodesInOrder NoThreadLeftInGraph
PROPERTIES ComputeReturns FreeReturns

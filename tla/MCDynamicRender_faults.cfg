CONSTANTS
  MaxWorkers = 2
  Height = 5
  ChunkSize = 2
  Faults <- AnyFault
SPECIFICATION Spec
INVARIANTS ChunksPartitioned IInv
PROPERTIES PoolSpec RenderEnds

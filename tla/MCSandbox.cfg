SPECIFICATION Spec
CONSTANTS
  OutputBytes = 2
  ChunkBytes = 2
  PipeBytes = 2
  MaxWritten = 4
INVARIANTS
  ReportIsTrue
  NoOrphan
PROPERTIES
  RunEnds

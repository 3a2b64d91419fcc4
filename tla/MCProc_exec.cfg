CONSTANTS
  Frame <- MCFrame
  MEM_TOTAL_FRAMES = 9
  MEM_FRAME_SIZE = 2
  MEM_USER_FIRST_FRAME = 2
  HEADER = 1
  Binaries <- MCBinaries
  GdtSizes <- MCSizes
  Maps <- MCMaps
SPECIFICATION ExecSpec
INVARIANTS SegmentsHoldFrames 
PROPERTIES  ExecEnds

CONSTANTS
  ENTRY_SIZE = 16
  MEM_FRAME_SIZE = 64
  MEM_KERNEL_FIRST_FRAME = 1
  MEM_USER_FIRST_FRAME = 7
  ReservedFrames <- BitmapAndStacks
  Requests <- Sample
SPECIFICATION Spec
INVARIANTS Tiles NoFreeNeighbours
 

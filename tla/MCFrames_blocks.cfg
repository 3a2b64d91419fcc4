CONSTANTS
  MaxFrames = 12
  MEM_FRAME_SIZE = 4
  MEM_KERNEL_FIRST_FRAME = 2
  MEM_USER_FIRST_FRAME = 7
  Maps <- MCMaps
  HeapCounts <- OneTwo
  UserCounts <- OneTwoThree
SPECIFICATION Spec
INVARIANTS TypeOK HeldDisjoint UsedIsHeld KernelKept HandsOutMemory
 
CHECK_DEADLOCK FALSE

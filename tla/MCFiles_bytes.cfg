CONSTANTS
  Word <- MCWord
  MaxSize = 3
  Byte = {"a", "b", "0", "*"}
  Zero = "0"
  Star = "*"
  Handle = {h1, h2}
  Opens <- MCOpens
  Texts <- MCTexts
  Counts = {1, 2}
  Offsets <- MCOffsets
  NewSizes = {0, 2}
SYMMETRY MCHandles
SPECIFICATION Spec
INVARIANTS InBounds 
 
CHECK_DEADLOCK FALSE

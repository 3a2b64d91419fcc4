CONSTANTS
  Kb = "kb"
  Irqs = {"kb"}
  KB_BUF_LEN = 4
  Codes <- MCCodes
  NoByte = "none"
SPECIFICATION Spec
INVARIANTS TypeOK PrefixKept
 

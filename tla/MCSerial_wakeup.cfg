CONSTANTS
  serial = serial
  kb = kb
  b1 = b1
  b2 = b2
  none = none
  Irqs <- BothIrqs
  SerialIrq = serial
  KbIrq = kb
  Byte <- OneByte
  NoByte = none
  Counts <- ReadCounts
  SERIAL_BUFFER_LEN = 3
  FifoLen = 2
  MaxBytes = 1
SPECIFICATION FairSpec
PROPERTY RingDataEndsWait

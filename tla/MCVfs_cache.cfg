CONSTANTS
  VFS_MAX_DENTRIES = 4
  Name <- MCName
  Device <- MCDevice
  Filesystems <- MCFilesystems
  FilePtr = {p1, p2}
  Tty = {"t"}
  MEMFS_MAX_FS = 2
  Calls <- BootCalls
  Room = {0, 1, 3, 9}
  MaxIno = 4
  MaxCount = 3
SPECIFICATION Spec
INVARIANTS
  StaysInC CacheCoherent  VnodesCounted FilesListed
  DeviceExclusive DevicesHaveNodes FindsNamed
PROPERTY MountsKept
CHECK_DEADLOCK FALSE

CONSTANTS
  VFS_MAX_DENTRIES = 3
  Name <- MCName
  Device <- MCDevice
  Filesystems <- MCFilesystems
  FilePtr = {p1, p2}
  Tty = {"t"}
  MEMFS_MAX_FS = 2
  Calls <- EvictCalls
  Room = {9}
  MaxIno = 4
  MaxCount = 4
SPECIFICATION Spec
INVARIANT EvictionHarmless
CHECK_DEADLOCK FALSE

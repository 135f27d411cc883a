SPECIFICATION Spec
CONSTANTS
  FirstChunk = 1
  Chunk = 2
  Overhead = 1
  CacheCapacity = 2
  Values = {1, 2}
  MaxSize = 5
  MaxWrite = 3
  MaxCalls = 5
  Avoided = {"uncachedWrite", "seekToCursor", "extendAppended", "overwriteLast", "truncateToZero", "extendBehind", "truncateAppended", "failingSeek", "failingClosed", "wrongMode"}
INVARIANTS
  ChecksNeverFail
  FlushedIsOnDisk
PROPERTIES
  IsAPlainFile
CHECK_DEADLOCK FALSE

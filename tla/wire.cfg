SPECIFICATION Spec
CONSTANTS
  Names <- LocalNames
  HostTypes = {12}
  Texts <- MCTexts
  Used = {"an", "ar"}
  Headers <- FullHeader
  TableLimit = 5
  CacheSize = 2
  MaxPacket = 300
  MaxRecords = 3
INVARIANT ParsedAsBuilt
 
INVARIANT WrittenOnce
CHECK_DEADLOCK FALSE

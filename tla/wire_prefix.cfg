SPECIFICATION Spec
CONSTANTS
  Names <- PrefixNames
  HostTypes = {2, 5, 12}
  Texts <- MCTexts
  Used = {"an", "ns", "ar"}
  Headers <- PlainHeader
  TableLimit = 19
  CacheSize = 20
  MaxPacket = 4000
  MaxRecords = 3
INVARIANT ParsedAsBuilt
CHECK_DEADLOCK FALSE

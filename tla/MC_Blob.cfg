SPECIFICATION FairBlobSpec
CONSTANTS
  Panic = Panic
  None = None
  Byte <- MCByte
  Magic <- MCMagic
  VersionParsed = 17
  UsizeMax = 127
  MaxNodeNameLength = 3
  AddressDigits = 2
  Blobs <- MCBlobs
CHECK_DEADLOCK FALSE
INVARIANTS
  BlobTypeOK
  RoundTrip
  NamesAreTheirText
  HeaderVerdictIsExact
PROPERTIES
  BlobTerminates

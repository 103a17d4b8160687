CONSTANTS
  Producers = {p1, p2}
  NONE = NONE
  Size = 8
  WordSize = 4096
  IsUsb = FALSE
  Byte <- MCBytes
  Messages <- Plain
SPECIFICATION FairSpec
PROPERTIES
  BytesLeave

CONSTANTS
  Producers = {p1}
  NONE = NONE
  Size = 8
  WordSize = 4096
  IsUsb = TRUE
  Byte <- MCBytes
  Messages <- Escaped
SPECIFICATION FairSpec
PROPERTIES
  ImplementsFifo
  UsbBytesLeave

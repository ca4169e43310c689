SPECIFICATION FairSpec
CONSTANTS
  Codes = {"key", "dog"}
  Capacity = 2
  Masks = {{"hccarint", "keybdint", "vdpint"}}
  PortBWrites = {}
  DogSpeed = 2
  MaxRx = 2
  MayReset = TRUE
  MayHangUp = FALSE
PROPERTIES
  KeyAnnounced
  ByteAnnounced
  HaltEnds
  DogKicks

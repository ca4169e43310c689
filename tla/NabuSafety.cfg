SPECIFICATION Spec
CONSTANTS
  Codes = {"key", "dog"}
  Capacity = 2
  Masks = {{}, {"hccarint", "keybdint", "vdpint"}, {"hccatint", "vdpint"}}
  PortBWrites = {9}
  DogSpeed = 2
  MaxRx = 2
  MayReset = TRUE
  MayHangUp = TRUE
INVARIANTS
  InterruptCoherence
  EiShieldsNext
  RequestsHaveCause
PROPERTIES
  HandlerFindsSource

SPECIFICATION Spec
CONSTANTS
  Tick = 2
  Second = 12
  Slack = 1
  MaxWork = 8
  Window = 3
  MaxRx = 1
PROPERTIES KeepsRealTime

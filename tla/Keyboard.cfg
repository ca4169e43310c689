SPECIFICATION Spec
CONSTANTS
  Keys = {1001, 1000, 32, 127, 8, 1066}
  ModStates = {{}}
  Arrows = {1000, 1001}
  Hats = {{1000}}
  Pads = {p1}
  NoPad = NoPad
  Capacity = 2
  MaxNotices = 2
INVARIANTS
  SticksParse
  NoStuckKey
  LinesAreHeld
  StickUpToDate
  HandleNotStale
  AsciiTypable

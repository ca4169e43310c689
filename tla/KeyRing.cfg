SPECIFICATION Spec
CONSTANTS
  Size = 4
  Codes = {1, 2, 255}
  Prefix = 1
  Empty = 255
  DropWrap = 3
PROPERTY RefinesFifo

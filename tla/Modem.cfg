SPECIFICATION Spec
CONSTANTS
  Rounds = 2
  Chunk = 2
  MaxOut = 5
  MaxBoots = 2
INVARIANTS OwnStream OrderlyEnd AllOrNothing
\* The emulator ends.
CHECK_DEADLOCK FALSE

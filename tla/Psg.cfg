SPECIFICATION Spec
CONSTANTS
  Parts = {"tone", "noise", "envelope"}
  Periods = {0, 1, 2, 3}
  Word = 8
  BaseIncr = 3
  Geta = 2
  Steps = 3
  Seed = {0, 1, 2}
  Taps = {3, 4}
  MaxWrites = 2
INVARIANTS ChipOutlivesCallback EnvFollowsShape
PROPERTIES VoicesSettle
\* The emulator ends.
CHECK_DEADLOCK FALSE

SPECIFICATION Z80Spec
CONSTANTS
  Programs <- MCPrograms
  Inputs <- MCInputs
  Handler <- MCHandler
  Depth <- MCDepth
  Cells <- MCCells
  FirstRam <- MCFirstRam
  RomSize <- MCRomSize
  Rom <- MCRom
  Top <- MCTop
  MaxInts = 2
INVARIANTS StackFlat ArithmeticRight BlocksRight
PROPERTIES BitReadsOnly InterruptsUnseen
\* A program ends.
CHECK_DEADLOCK FALSE

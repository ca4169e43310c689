SPECIFICATION FairSpec
CONSTANTS
  SectorLen = 3
  IdLen = 2
  OobLen = 2
  SectorsPerTrack = 2
  TrackWrap = 2
  ImageSectors = 3
  SectorValues = {1, 2, 3}
  Commands = {"restore", "step", "read", "interrupt", "oob", "address"}
INVARIANTS
  BusyIsServed
  PointerInBuffer
  DeliversAsked
PROPERTIES
  ReadsRightSector
  DriverGoesOn

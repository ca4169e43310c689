SPECIFICATION ConfigSpec
CONSTANTS
  Settings = {"d", "a", "b"}
  Default = "d"
INVARIANTS
  OnlySavedPersists
  FileIsConfig
PROPERTIES
  BoardsKeptApart
  SavesReachDisk

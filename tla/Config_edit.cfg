CONSTANTS
  Name <- MCName
  Tree <- MCTree
  PageRows = 3
  NumItems = 1
  MenuOptions = {"FastBoot"}
  OsdOptions = {"hacked_OSDSYS"}
  ScrollOptions = {"OSDSYS_scroll_menu"}
  EsrPaths = {1}
  Buttons = {1}
  Items = {1}
  FileOrder <- MCOrder
  Defaults <- MCDefaults
  HeapSize = 4
  MaxEdits = 1
  MaxResets = 1
  MaxSaves = 1
  MaxActs = 2
  Used = {"mass", "mc0"}
  TornAt = {5}
  Columns = {2}
  OptionValues <- MCBit
  TypedNames <- MCNames
  InitFiles <- MCFiles
SPECIFICATION Spec
INVARIANTS TypeOK CursorShown ListInOrder RowsReachable LeakPerLoad
PROPERTIES ImplementsSettings

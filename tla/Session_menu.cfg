CONSTANTS
  NoCard = NoCard
  NoCall = NoCall
  Ps2Cards = {a}
  OtherCards = {b}
  HeapSize = 5
  MaxLogLines = 22
  MaxFiles = 2
  Contents <- MCContents
  Cluster = 4
  DummyNames <- MCDummies
  OsdSize = 9
  IconSize = 5
  CnfSize = 5
SPECIFICATION FairSpec
INVARIANTS TypeOK InfoOfPort BuffersHeld OnlyInjectedLeaks LogFits SuccessUnmarked ShortByRounding
PROPERTIES CardFound

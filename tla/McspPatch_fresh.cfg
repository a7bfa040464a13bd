\* Cards as the installer prepares them; faults at every step.
CONSTANTS
  NumBlocks = 4
  BlockSize = 2
  SysPages = 2
  d1 = d1
  d2 = d2
  d3 = d3
  other = other
  OsdLink = OsdLink
  Unset = Unset
  NoName = NoName
  Names <- MCNames
  Links <- MCLinks
  Req <- MCReq
  Junk = {0, 9}
  BackupBlocks <- Backup
  Layouts <- MCFresh
SPECIFICATION FairSpec
\* a call that failed, or whose power went, is the end of the behaviour
CHECK_DEADLOCK FALSE
INVARIANTS TypeOK OneBlockTorn PatchComplete RoundTrip
PROPERTIES CallEnds

\* Any card: dummies missing or already linked, .page fields left as junk.
CONSTANTS
  NumBlocks = 4
  BlockSize = 2
  SysPages = 2
  d1 = d1
  d2 = d2
  d3 = d3
  other = other
  OsdLink = OsdLink
  Unset = Unset
  NoName = NoName
  Names <- MCNames
  Links <- MCLinks
  Req <- MCReq
  Junk <- MCJunk
  BackupBlocks <- Backup
  Layouts <- MCAll
SPECIFICATION Spec
\* a call that failed, or whose power went, is the end of the behaviour
CHECK_DEADLOCK FALSE
INVARIANTS SystemAreaIntact NothingLost
PROPERTIES Relinks

CONSTANTS
  osdmain = osdmain
  osd1 = osd1
  osd2 = osd2
  sys = sys
  c1 = c1
  c2 = c2
  c3 = c3
  c4 = c4
  c5 = c5
  Null = Null
  OsdMain = osdmain
  DummyTab <- MCOneDummy
  OsdNames = {osd1}
  Chains = {c1, c2}
  Extras = {"icon", "elf"}
  Faults = {"open", "write", "read", "delete", "short", "unpatch", "patch", "rpc", "power"}
SPECIFICATION FairSpec
PROPERTIES JobEnds

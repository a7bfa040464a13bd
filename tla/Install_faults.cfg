CONSTANTS
  osdmain = osdmain
  osd1 = osd1
  osd2 = osd2
  sys = sys
  c1 = c1
  c2 = c2
  c3 = c3
  c4 = c4
  c5 = c5
  Null = Null
  OsdMain = osdmain
  DummyTab <- MCDummyTab
  OsdNames = {osd1, osdmain}
  Chains = {c1, c2, c3, c4}
  Extras = {}
  Faults = {"open", "write", "read", "delete", "unpatch", "patch", "power"}
SPECIFICATION Spec
INVARIANTS InstalledFromClean
PROPERTIES OnlyPatchUncovers
SYMMETRY MCSymmetry

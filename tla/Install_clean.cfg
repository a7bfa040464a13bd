CONSTANTS
  osdmain = osdmain
  osd1 = osd1
  osd2 = osd2
  sys = sys
  c1 = c1
  c2 = c2
  c3 = c3
  c4 = c4
  c5 = c5
  Null = Null
  OsdMain = osdmain
  DummyTab <- MCDummyTab
  OsdNames = {osd1, osdmain, sys}
  Chains = {c1, c2, c3, c4, c5}
  Extras = {"icon", "cnf", "usbd", "elf"}
  Faults = {}
SPECIFICATION Spec
INVARIANTS TypeOK ChainsSound NoLeak InstalledBoots Reverted
SYMMETRY MCSymmetry

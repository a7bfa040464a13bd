CONSTANTS
  Name <- MCName
  Media <- MCMedia
  Fits <- MCFits
  Consoles <- MCConsoles
  SwapAt <- MCSwapAt
  Discs <- MCDiscs
  CnfButtons <- MCButtons
  DefaultButtons <- MCDefaultButtons
  DefaultNames <- MCDefaultNames
  NewItems = 2
  MaxLetter = 3
SPECIFICATION Spec
INVARIANTS TypeOK FreedOnce UsbWhilePresent
PROPERTIES BootsAsConfigured ReloadIsFresh BootEnds

SPECIFICATION Spec
CONSTANTS
  NL = NL
  Zero = Zero
  MaxR = 4
  MaxExtents = 3
  NMembers = 2
  Writes <- MCWrites
  MaxLen = 3
  MaxFailed = 1
  Dcbs <- MCDcbs
  Dscbs <- MCDscbs
  NoSlot = NoSlot
INVARIANTS TypeOK EstimateCovers FitTogether

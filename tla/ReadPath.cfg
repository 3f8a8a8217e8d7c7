SPECIFICATION Spec
CONSTANTS
  NSizes = 1
  NotInUse = NotInUse
  NReads = 2
  MaxAge = 1
  NoText = NoText
  Files = {f1, f2}
  LongMax = 4
  Offsets = {0, 2, 3, 5, 9}
  Counts = {2}
  MaxSize = 3
  MaxTime = 4
  MaxChanges = 1
  MaxFaults = 1
  NoListing = NoListing
SYMMETRY FileSymmetry
INVARIANTS TypeOK ReadExact SizeFits

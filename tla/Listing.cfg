SPECIFICATION Spec
CONSTANTS
  N = 2
  Datasets = {d1}
  Root = Root
  NSlots = 2
  Timeout = 1
  Throttle = 2
  PageSizes = {1}
  AtStart = {1}
  MaxTime = 3
  MaxUpsets = 2
  None = None
INVARIANTS TypeOK PageExact MtimeTells

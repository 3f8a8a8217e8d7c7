SPECIFICATION Spec
CONSTANTS
  N = 2
  Datasets = {d1}
  Root = Root
  NSlots = 2
  Timeout = 1
  Throttle = 1
  PageSizes = {1}
  AtStart = {1, 2}
  MaxTime = 3
  MaxUpsets = 0
  None = None
INVARIANT CompleteListHasAll

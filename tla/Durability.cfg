SPECIFICATION DSpec
CONSTANTS
  Members = {m1, m2}
  NoMember = NoMember
  Datasets = {ds1}
  NoDataset = NoDataset
  DatasetOf <- OneDataset
  NSlots = 1
  IdleTimeout = 0
  Data = {d1}
  Zero = Zero
  MaxLen = 1
  Absent = Absent
  FullRemember = 1
  FullExpiry = 0
  FlushOutcomes = {"ok", "badstats"}
  ReleaseOutcomes = {"ok"}
  MaxStarts = 2
SYMMETRY Symmetry
INVARIANTS CommittedStays
CHECK_DEADLOCK FALSE

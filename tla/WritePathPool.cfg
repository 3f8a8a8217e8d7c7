SPECIFICATION Spec
CONSTANTS
  Members = {m1, m2, m3}
  NoMember = NoMember
  Datasets = {ds1}
  NoDataset = NoDataset
  DatasetOf <- OneDataset
  NSlots = 2
  IdleTimeout = 0
  Data = {}
  Zero = Zero
  MaxLen = 0
  Absent = Absent
  FullRemember = 1
  FullExpiry = 0
  FlushOutcomes = {"ok", "ioerr"}
  ReleaseOutcomes = {"ok", "abend"}
SYMMETRY Symmetry
INVARIANTS OneSlotPerMember FlagsNeverLie NothingStranded AcknowledgedKept

SPECIFICATION LiveSpec
CONSTANTS
  Members = {m1, m2}
  NoMember = NoMember
  Datasets = {ds1}
  NoDataset = NoDataset
  DatasetOf <- OneDataset
  NSlots = 1
  IdleTimeout = 1
  Data = {}
  Zero = Zero
  MaxLen = 0
  Absent = Absent
  FullRemember = 1
  FullExpiry = 0
  FlushOutcomes = {"ok", "badstats", "ioerr", "space", "program"}
  ReleaseOutcomes = {"ok", "abend"}
PROPERTIES EnqueueGivenUp FatalEnds

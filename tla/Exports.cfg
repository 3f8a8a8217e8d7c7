CONSTANTS
  MaxExports = 2
  MaxDatasets = 2
  MaxToks = 4
  MaxLines = 4
  MaxStarts = 2
  QualifierOf <- MCQualifierOf
  Paths <- MCPaths
  PartsOf <- MCPartsOf
  HashedOf <- MCHashedOf
  Lines <- MCLines
  Dsns = {"D1", "D2"}
  Stems = {"m"}
  Exts = {"", "q"}
SPECIFICATION Spec
INVARIANTS TypeOK HandleExact AlwaysResolvable AccessHonest ServedAsWritten
CHECK_DEADLOCK FALSE

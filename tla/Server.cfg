CONSTANTS
  c1 = c1
  c2 = c2
  c3 = c3
  MaxLen = 12
  MaxData = 5
  Clients <- MCClients
  Protos <- MCProtos
  ProtoOf <- MCProtoOf
  Fds = {1, 2, 3}
  MaxConns = 2
  Nobody = Nobody
SPECIFICATION Spec
INVARIANTS TypeOK TableExact NeverWaitsOnIdle ReplayCaught GoodMessageKept
PROPERTIES TurnsInRounds Attended StopHeeded
CHECK_DEADLOCK FALSE

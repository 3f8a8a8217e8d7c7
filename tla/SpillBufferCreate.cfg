SPECIFICATION Spec
CONSTANTS
  Data = {d1, d2}
  Zero = Zero
  Junk = Junk
  NoBuf = NoBuf
  MaxLen = 6
  Block = 2
  Threshold = 2
  Track = 1
  MaxPayload = 2
INVARIANT CreateTruncates

SPECIFICATION Spec
CONSTANTS
  Data = {d1}
  Zero = Zero
  Junk = Junk
  NoBuf = NoBuf
  MaxLen = 5
  Block = 2
  Threshold = 2
  Track = 1
  MaxPayload = 2
INVARIANTS TypeOK ReadsBackExactly NoSeekPastEnd

SPECIFICATION Spec
CONSTANTS
  Shapes <- Both
  None = None
  Flush = Flush
  Lanes = 2
  FlushBeats = 2
  Depth = 2
  Visible = 3
  Quiet = 5
  Ratio = 2
  Flushes = 2
INVARIANTS DecoderAgrees EmptyIsTimely

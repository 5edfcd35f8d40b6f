SPECIFICATION Spec
CONSTANTS
  Threads = {t1, t2}
  Cores = {0, 1, 2}
  RunBits <- Release
  OwnBit <- Own
  Declared <- Scenarios
  Windows = {0, 1}
  Images <- BothImages
  Cva6Bits = {"cva6_run"}
  Pulses = {"trace_clear", "trace_flush"}
  EncSeq <- TwoEncoders
  EncOf <- EncoderOf
  Kinds <- AllKinds
  Found <- Leftovers
  FoundEnc <- OneArmed
  Budget = 2
SYMMETRY Interchangeable
INVARIANTS NoHang
PROPERTIES RequestsExact OverflowKept
CHECK_DEADLOCK FALSE

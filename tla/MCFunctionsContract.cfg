SPECIFICATION Spec
CONSTANTS
  None = None
  FloatBits = 10
  FloatFraction = 10
  MaxKey = 6
  FarKeys = {20, 63, 200, 1500}
  MaxParts = 5
  MaxSample = 4
  MaxRows = 3
  MaxCount = 12
  MaxText = 3
  Radix = 4
  NumBytes = 2
  SampleModulus = 5
  Ten = 4
  Scale = 2
  FormatDigits = 1
  Precise = 2
  Micro = 2
  Nano = 3
  Day = 2
  Number <- Numbers
  Instant <- Instants
INVARIANT
  FollowsContract

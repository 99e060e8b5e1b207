CONSTANTS
  ByteBase = 2
  k_msec_count_size = 5
  k_max_size = 6
  NsPerMs = 3
SPECIFICATION Spec
INVARIANTS
  RoundTrip
  CountIsKept
  OnlyTimesAreShown
  DifferenceOnOneHost

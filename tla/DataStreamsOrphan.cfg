CONSTANTS
  s1 = s1
  s2 = s2
  s3 = s3
  a = a
  b = b
  Streams = {s1, s2}
  Aliases = {a, b}
  Kind <- AllSubgroup
  Alias <- AliasOf
  Filtered = {}
  Malformed = {}
  Objects <- TwoObjects
  HeaderLen = 1
  MaxFragment = 3
  MaxBuffer = 6
  MaxPending = 2
SPECIFICATION Spec
INVARIANTS OnlyTruncationCloses
CHECK_DEADLOCK FALSE

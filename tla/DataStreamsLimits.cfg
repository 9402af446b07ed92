CONSTANTS
  s1 = s1
  s2 = s2
  s3 = s3
  a = a
  b = b
  Streams = {s1, s2, s3}
  Aliases = {a, b}
  Kind <- WithPadding
  Alias <- SameAlias
  Filtered = {s2}
  Malformed = {}
  Objects <- Graded
  HeaderLen = 1
  MaxFragment = 2
  MaxBuffer = 3
  MaxPending = 1
SPECIFICATION Spec
INVARIANTS IgnoredIsForgotten LimitsKept
PROPERTIES HeldIsDelivered
CHECK_DEADLOCK FALSE

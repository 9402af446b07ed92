CONSTANTS
  s1 = s1
  s2 = s2
  s3 = s3
  a = a
  b = b
  Streams = {s1, s2, s3}
  Aliases = {a, b}
  Kind <- WithFetch
  Alias <- AliasOf
  Filtered = {}
  Malformed = {s2}
  Objects <- Graded
  HeaderLen = 2
  MaxFragment = 2
  MaxBuffer = 6
  MaxPending = 2
SPECIFICATION Spec
INVARIANTS TypeOK InOrderOnce NothingMissing
PROPERTIES ImplementsDelivery
CHECK_DEADLOCK FALSE

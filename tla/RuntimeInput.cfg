CONSTANTS
  control = control  object = object  request = request
  d1 = d1  d2 = d2  d3 = d3
  track1 = track1  track2 = track2
  Streams = {control, object}
  Kind <- Opened
  TypeLen <- Lengths
  MaxUnits = 2
  Datagrams = {d1, d2, d3}
  Alias <- Tracks
  MaxPending = 2
  MaxAttempts = 2
  MaxAborts = 1
SPECIFICATION Spec
INVARIANTS TypeOK DatagramsKept StreamsTold
PROPERTIES GivenUpUnknown HeldEnds
CHECK_DEADLOCK FALSE

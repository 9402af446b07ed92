CONSTANTS
  first = first  second = second  leave = leave  quit = quit
  Connects = {first, second}
  Closes = {leave}
  CallbackCloses = {quit}
  Nobody = Nobody
SPECIFICATION Spec
INVARIANTS TypeOK ConnectedMeansEstablished NothingLost EndsClean
PROPERTIES CallsEnd
CONSTRAINT NoOverlap
CHECK_DEADLOCK FALSE

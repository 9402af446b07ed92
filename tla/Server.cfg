CONSTANTS
  w1 = w1  w2 = w2  w3 = w3  peer = peer
  Sessions = {w1, w2, w3}
  Addresses = {peer}
  Key <- KeyOf
  Nobody = Nobody
SPECIFICATION Spec
INVARIANTS TypeOK Served GivenOwn StopEndsAll
PROPERTIES FailedIsClosed
CONSTRAINT OneHandled
CHECK_DEADLOCK FALSE

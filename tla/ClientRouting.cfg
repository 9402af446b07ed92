CONSTANTS
  r1 = r1  r2 = r2  r3 = r3  r4 = r4  f1 = f1  f2 = f2  p1 = p1
  track1 = track1  track2 = track2  zero = zero  alias1 = alias1
  Subscribes = {r1, r2, r3, r4}
  Fetches = {f1, f2}
  Others = {p1}
  Aliases = {zero, alias1}
  Zero = zero
  TrackOf <- Tracks
  TrackAlias <- Given
  NoRequest = NoRequest
  MaxPendingObjects = 2
  MaxPendingTerminations = 1
  Objects <- Graded
  MaxRequests = 2
SPECIFICATION Spec
INVARIANTS TypeOK ObjectsKept NothingMissed LimitsHold
PROPERTIES ImplementsFeed
CHECK_DEADLOCK FALSE

CONSTANTS
  t1 = t1  t2 = t2  r1 = r1  f1 = f1  f2 = f2
  plain = plain  properties = properties
  Tasks = {t1, t2}
  Subscriptions = {r1}
  Ascending = {f1}
  Descending = {f2}
  Groups = {0, 2}
  Objects = {0, 2}
  Headers = {plain, properties}
  MaxStreams = 2
  MaxItems = 3
  Nothing = Nothing
SPECIFICATION Spec
INVARIANTS TypeOK PeerDecodes OpenStreamsKnown
PROPERTIES NothingAfterEnd
CONSTRAINT OneRequest
SYMMETRY Symmetry
CHECK_DEADLOCK FALSE

CONSTANTS
  Groups = {0, 2}
  Objects = {0, 2}
  SubgroupIds = {1}
  Priorities = {128}
  Blocks <- BlocksHere
  Payloads <- PayloadsHere
  Statuses = {1, 3}
  Alias = 6
  Request = 4
  MaxObjects = 2
  MaxStreams = 2
  Nothing = Nothing
SPECIFICATION EncodingSpec
INVARIANTS PeerReads
CHECK_DEADLOCK FALSE

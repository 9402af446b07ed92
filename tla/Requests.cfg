CONSTANTS
  s1 = s1  s2 = s2  u1 = u1  u2 = u2
  Starts = {s1, s2}
  Updates = {u1, u2}
  Target <- SameTarget
  Nobody = Nobody
SPECIFICATION Spec
INVARIANTS TypeOK AnsweredByOwn EntriesAgree
PROPERTIES ReleasedAtEnd
CHECK_DEADLOCK FALSE

CONSTANTS
  sub = sub  fet = fet  h1 = h1  h2 = h2
  Requests = {sub, fet}
  Fetches = {fet}
  Handlers = {h1, h2}
  Most <- MostOf
  Plain = Plain
  Nothing = Nothing
SPECIFICATION Spec
INVARIANTS TypeOK AnswersInOrder StreamsAgree
PROPERTIES AllAnswered
CHECK_DEADLOCK FALSE

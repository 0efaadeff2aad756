SPECIFICATION ApiSpec
CONSTANTS
  Clients = {c1, c2}
  Questions <- MCQuestions
  FirstSeen <- MCFirstSeen
  Writes <- MCWrites
  Ttl <- MCTtl
  Timeout = 1
  MaxTime = 2
  MaxCommits = 1
  MaxAsks = 3
  None = None
PROPERTIES StalenessBounded RefetchSeesBlock AnswersNeverGoBack
SYMMETRY Callers
CHECK_DEADLOCK FALSE

CONSTANTS
  Requests = {r1, r2}
  Sessions <- MCSessions
  Malformed = Malformed
  NoMatch = NoMatch
  NonNumeric = NonNumeric
  QoS <- MCQoS
  Slice <- MCSlice
  Classifiers <- MCClassifiers
  Outcomes = {"accepted", "unreachable", "lost_response"}
  Nets = {"nR", "nC", "nU"}
  Hosts = {"h1", "h2"}
  BadAddr = BadAddr
  NoAddr = NoAddr
SPECIFICATION Spec
CHECK_DEADLOCK FALSE
INVARIANTS
  TypeOK
  SuccessImpliesInstalled
PROPERTIES
  FanoutRefinement

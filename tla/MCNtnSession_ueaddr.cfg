CONSTANTS
  Requests = {r1, r2}
  Sessions <- MCSessionsWellFormed
  Malformed = Malformed
  NoMatch = NoMatch
  NonNumeric = NonNumeric
  QoS <- MCQoS
  Slice <- MCSlice
  Classifiers <- MCClassifiers
  Outcomes = {"accepted"}
  Nets = {"nR", "nC", "nU"}
  Hosts = {"h1", "h2"}
  BadAddr = BadAddr
  NoAddr = NoAddr
SPECIFICATION Spec
CHECK_DEADLOCK FALSE
INVARIANTS
  PipeCarriesUeAddress

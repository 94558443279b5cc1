CONSTANTS
  Requests = {q1, q2}
  Infos <- MCInfos
  NoSnssai = NoSnssai
  Empty = Empty
  QofSlice <- MCQofSlice
  QofQoS <- MCQofQoS
  Malformed = Malformed
  NoMatch = NoMatch
  NonNumeric = NonNumeric
  QoS <- MCQoS
  Slice <- MCSliceZero
  Classifiers <- MCClassifiers
  Outcomes = {"accepted"}
  Nets = {"nR", "nC", "nU"}
  Hosts = {"h1", "h2"}
  BadAddr = BadAddr
  NoAddr = NoAddr
  RelayFailures = {}
SPECIFICATION Spec
CHECK_DEADLOCK FALSE
INVARIANTS
  ProvisionedOnTranslatedSlice

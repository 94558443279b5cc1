CONSTANTS
  Requests = {q1, q2}
  Infos <- MCInfos
  NoSnssai = NoSnssai
  Empty = Empty
  QofSlice <- MCQofSlice
  QofQoS <- MCQofQoS
  Malformed = Malformed
  NoMatch = NoMatch
  NonNumeric = NonNumeric
  QoS <- MCQoS
  Slice <- MCSlice
  Classifiers <- MCClassifiers
  Outcomes = {"accepted", "unreachable"}
  Nets = {"nR", "nC", "nU"}
  Hosts = {"h1", "h2"}
  BadAddr = BadAddr
  NoAddr = NoAddr
  RelayFailures = {"unreachable"}
SPECIFICATION Spec
CHECK_DEADLOCK FALSE
INVARIANTS
  E2ETypeOK
  ProvisionedOnTranslatedSlice
  SmfTold200OnlyIfTranslated

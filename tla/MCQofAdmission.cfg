CONSTANTS
  QofConfigs <- MCQofConfigs
  NoInfo = NoInfo
  NilConfig = NilConfig
  NoConfiguration = NoConfiguration
  NonNumeric = NonNumeric
  Null = Null
  Trigger = r1
  ExternalBodies = {cp}
  Requests = {r1, r2}
  Malformed = Malformed
  Slice <- MCSlice
  SliceAware = TRUE
  Outcomes = {"accepted", "unreachable", "lost_response"}
SPECIFICATION Spec
CHECK_DEADLOCK FALSE
INVARIANTS
  QofAdmissionTypeOK
  SuccessImpliesPushed
  DefaultSliceNilOnlyIfPushed
PROPERTIES
  AdmissionFanoutRefinement

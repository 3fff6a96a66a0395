SPECIFICATION Spec
CONSTANTS
  Caller = {c1, c2, c3, c4}
  FailureThreshold = 3
  SuccessThreshold = 2
  HalfOpenMax = 3
INVARIANT TypeOK
INVARIANT ClosedBelowThreshold
INVARIANT ProbesLimited
INVARIANT OpenForgetsSuccesses
PROPERTY ExhaustedIsStuck
PROPERTY HalfOpenResolves
PROPERTY OpenRecovers

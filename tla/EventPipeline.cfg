SPECIFICATION Spec
CONSTANTS
  Sources = {a, b}
  Observations <- Reported
  MaximumEvents = 3
  CorrelationWindow = 1
  FailedAuthThreshold = 2
  MaxTime = 2
  MaxObserved = 4
SYMMETRY Symmetry
INVARIANTS
  EverythingIsAccounted
  SevereSurvives
  BurstsAreDetected
PROPERTY AlertsAreJustified

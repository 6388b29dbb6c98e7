SPECIFICATION Spec
CONSTANTS
  None = None
  Catalog <- SmallCatalog
  Fields <- SourceFields
  Targets <- TargetFields
  Flows <- AllFlows
  Edits <- FewEdits
  ReadChecks = {TRUE, FALSE}
  Responses <- Bodies
  Lifetimes <- TokenLifetimes
  MaxAttempts = 3
  MaxClock = 3
  MaxCalls = 3
INVARIANT TypeOK
INVARIANT RetryAgreesWithPolicy
INVARIANT CallsOnlySandbox
INVARIANT CallsBounded
INVARIANT TokenNotKnownExpired
INVARIANT StoredWithinCatalog
INVARIANT DeliveredAsMapped
INVARIANT EarlyRefusalJustified
PROPERTY EndsAsEngineSays
PROPERTY CallsConclude
CHECK_DEADLOCK FALSE

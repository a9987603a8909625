SPECIFICATION FairSpec
CONSTANTS
  Requests = {x1, x2}
  Schemes = {"bearer_token", "basic_auth"}
  MaxWrites = 3
  Aborts = TRUE
CHECK_DEADLOCK FALSE
INVARIANT StoreConsistent
INVARIANT AnswersHold
PROPERTY RevokedStays
PROPERTY EveryRequestAnswered

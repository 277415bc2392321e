\* Two lists that come and go, outages and a restart.
SPECIFICATION FairSpec
CONSTANTS
  l1 = l1  l2 = l2
  List = {l1, l2}
  None = None
  UseJWKS = TRUE
  RetryCount = 2
  LongTokens = TRUE
  LostAnswers = FALSE
  MaxChanges = 3
  MaxOutages = 2
  MaxRestarts = 1
  MaxForgets = 1
INVARIANTS TypeOK SubscriptionHeld NeverHollow
PROPERTIES ReadSubscribes StartsWhenReachable AttemptEnds

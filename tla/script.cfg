\* One request after another, with failures and changes.
SPECIFICATION FairSpec
CONSTANTS
  b1 = b1  b2 = b2  h1 = h1  h2 = h2
  Bucket = {b1, b2}
  None = None  Http = Http  Empty = Empty
  Handler = {h1}
  Config <- Rich
  UseSQL = FALSE
  ClientFails = FALSE
  MaxFaults = 2
  MaxChanges = 1
INVARIANTS TypeOK ParamsAsConfigured SignedWhereNamed
PROPERTIES EveryoneAnswered

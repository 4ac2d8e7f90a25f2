CONSTANTS
  Slugs = {codex}
  Requests = {r1, r2}
  Names = {m}
  MaxAccounts = 2
  MaxVersion = 2
  TTL = 1
  EmptyTTL = 0
  RetryAfter = 1
  Hazards = {"crossing", "disk", "fallback", "restart"}

SPECIFICATION FairSpec

INVARIANT TypeOK

PROPERTIES
  ServesAttachedAccount
  KeepsLastGood
  LookupsEnd
  AsksOnlyWhenDue
  AsksWhenDue

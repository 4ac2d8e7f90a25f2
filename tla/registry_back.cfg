CONSTANTS
  Slugs = {codex}
  Requests = {r1}
  Names = {m}
  MaxAccounts = 2
  MaxVersion = 1
  TTL = 1
  EmptyTTL = 1
  RetryAfter = 1
  Hazards = {"fallback"}

SPECIFICATION Spec

PROPERTY DiscardsOnChange

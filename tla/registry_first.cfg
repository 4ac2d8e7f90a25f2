CONSTANTS
  Slugs = {codex}
  Requests = {r1}
  Names = {m}
  MaxAccounts = 2
  MaxVersion = 1
  TTL = 2
  EmptyTTL = 1
  RetryAfter = 1
  Hazards = {}

SPECIFICATION Spec

PROPERTY FirstAccessAsks

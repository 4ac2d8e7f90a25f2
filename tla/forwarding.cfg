CONSTANTS
  Slugs = {codex, xai}
  Requests = {r1, r2}
  Bare = bare
  Names = {m}
  MaxAccounts = 2
  MaxVersion = 1
  TTL = 1
  EmptyTTL = 1
  RetryAfter = 0
  Hazards = {"crossing", "disk", "fallback"}

SPECIFICATION ForwardSpec

SYMMETRY Symmetry
VIEW Seeing
CONSTRAINT Bounded

INVARIANT ForwardTypeOK

PROPERTIES
  RoutedByItsList
  PresentsVaultToken
  ServesAttachedAccount
  ImplementsRegistry

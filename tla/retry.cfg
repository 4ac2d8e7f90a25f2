CONSTANTS
  Handlers = {h1, h2}
  PoolSize = 2

SPECIFICATION FairSpec

INVARIANTS
  TypeOK
  AttemptsBounded
  LockOnlyInRefresh

PROPERTY HandlersEnd

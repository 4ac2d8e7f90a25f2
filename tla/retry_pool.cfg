CONSTANTS
  Handlers = {h1}
  PoolSize = 2

SPECIFICATION Spec

INVARIANT ConnectionsReturned

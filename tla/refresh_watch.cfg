CONSTANTS
  Slugs = {xai}
  Requests = {r1}
  MaxChains = 2
  MaxGen = 1
  Hazards = {}

SPECIFICATION Spec

INVARIANT WatcherCaughtUp

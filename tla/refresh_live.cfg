CONSTANTS
  Slugs = {xai}
  Requests = {r1, r2}
  MaxChains = 1
  MaxGen = 1
  Hazards = {"disk", "loss"}

SPECIFICATION FairSpec

PROPERTIES
  RequestsEnd
  EventsAreServed

CONSTANTS
  Slugs = {xai}
  Requests = {r1}
  MaxChains = 1
  MaxGen = 1
  Hazards = {"loss"}

SPECIFICATION Spec

PROPERTY StaleTokenStillForwarded

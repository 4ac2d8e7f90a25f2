CONSTANTS
  Slugs = {xai}
  Requests = {r1, r2}
  MaxChains = 2
  MaxGen = 1
  Hazards = {"break", "disk", "loss", "restart"}

SPECIFICATION Spec

SYMMETRY Symmetry
CONSTRAINT Promised

INVARIANTS
  TypeOK
  OneRefreshAtATime
  RefreshHasCause
  NoTokenReplay
  AttachWinsUnlessCrossed
  ReloadIsNoop

PROPERTIES
  NoRollback
  RotatesAtomically

CONSTANTS
  Items = {f, g}
  Arguments <- FewArguments
  Faults = {"write", "read", "restart"}
  Openings <- FewOpenings
  MaxTurns = 2

SPECIFICATION ExchangeSpec

CHECK_DEADLOCK FALSE

CONSTRAINT Bounded

SYMMETRY Symmetry

INVARIANTS
  ExchangeTypeOK
  ClientHasWhatWasSaid
  FailsClosed
  SuccessIsWhole
  HistoryAsSaid
  TextKept
  UsageHasItsRequest
  CountersSurvive
  CapturesAreDumped
  DumpReadsTrue

PROPERTY LifetimeGrows

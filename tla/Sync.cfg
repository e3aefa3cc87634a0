SPECIFICATION SyncSpec
CONSTANTS
  Callers = {a, b}
  Nobody = Nobody
  Permits = 1
  MaxDepth = 2
  Timeouts = {0, 1, 3, 4}
  SecondMs = 2
  MsNanos = 1
  Dword = 4
  MaxSteps = 1
INVARIANTS AnswersAreTrue DeadlineIsKept
PROPERTIES TimedWaitEnds
CHECK_DEADLOCK FALSE

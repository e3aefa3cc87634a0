SPECIFICATION Spec
CONSTANTS
  x = x
  X = X
  host = host
  HOST = HOST
  length = length
  LENGTH = LENGTH
  connection = connection
  b1 = b1
  b2 = b2
  Names = {x, X, HOST, LENGTH, host, length, connection}
  Folded <- Spellings
  Host = host
  ContentLength = length
  Connection = connection
  Values = {v, w}
  TheHost = TheHost
  Close = Close
  Paths = {short, long}
  LongPaths = {long}
  Statuses <- SomeStatuses
  Bodies <- SomeBodies
  MaxHeaders = 2
  None = None
SYMMETRY Interchangeable
INVARIANTS HoldsWhatWasSet MessageArrives

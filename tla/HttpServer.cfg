SPECIFICATION Spec
CONSTANTS
  Clients = {c1, c2}
  Unlucky = {c1}
  Requests <- SomeRequests
  MaxHead = 1
  AnswerBody = 1
  Backlog = 2
  QueueDrops = TRUE
  SigpipeIgnored = FALSE
  None = None
INVARIANTS OneOpenConnection HandlerSeesTheBody AnswerArrives
PROPERTIES ImplementsExchange
CONSTRAINT BreaksElsewhere
CHECK_DEADLOCK FALSE

SPECIFICATION Spec
CONSTANTS
  Clients = {c1}
  Requests <- OneRequest
  MaxHead = 2
  AnswerBody = 1
  Backlog = 2
  Unlucky = {}
  QueueDrops = FALSE
  SigpipeIgnored = FALSE
  None = None
INVARIANTS SendAnswers
CHECK_DEADLOCK FALSE

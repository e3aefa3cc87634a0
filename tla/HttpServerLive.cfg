SPECIFICATION FairSpec
CONSTANTS
  Clients = {c1, c2}
  Requests <- TwoRequests
  MaxHead = 2
  AnswerBody = 1
  Backlog = 2
  Unlucky = {}
  QueueDrops = FALSE
  SigpipeIgnored = TRUE
  None = None
PROPERTIES CallsReturn

CONSTANTS
  Workers = {w1, w2}
  Clients = {c1}
  Tasks = {t1, t2}
  Owner = Owner
  None = None
SPECIFICATION RacingSpec
INVARIANTS
  LateSubmitIsAnswered

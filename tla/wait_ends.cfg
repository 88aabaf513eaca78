CONSTANTS
  Request = {r1}
  ProposalId = {p1, p2}
  Conversation = {c1}
  Worker = {w1, w2}
  Handlers = {"chat", "message", "decide"}
  MaxVersion = 0
  Absent = Absent
  None = None
  Rejected = Rejected
SPECIFICATION SessionSpec
PROPERTY WaitEndsByDecision
\* once its conversations are closed and the bounds are reached a server may rest
CHECK_DEADLOCK FALSE

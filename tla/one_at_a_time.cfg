CONSTANTS
  Request = {r1}
  ProposalId = {p1, p2}
  Conversation = {c1, c2}
  Worker = {w1}
  Handlers = {"chat", "message", "decide", "undo", "save"}
  MaxVersion = 1
  Absent = Absent
  None = None
  Rejected = Rejected
SYMMETRY Symmetry
SPECIFICATION SessionSpec
PROPERTIES
  WaitEndsByDecision
\* once its conversations are closed and the bounds are reached a server may rest
CHECK_DEADLOCK FALSE

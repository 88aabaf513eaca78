CONSTANTS
  Request = {r1}
  ProposalId = {p1}
  Conversation = {c1}
  Worker = {w1, w2}
  Handlers = {"chat", "decide"}
  MaxVersion = 0
  Absent = Absent
  None = None
  Rejected = Rejected
SPECIFICATION FairSessionSpec
PROPERTIES
  DecisionArrives
  HandlersEnd
\* once its conversations are closed and the bounds are reached a server may rest
CHECK_DEADLOCK FALSE

CONSTANTS
  Request = {r1}
  ProposalId = {p1, p2}
  Conversation = {c1}
  Worker = {w1, w2}
  Handlers = {"chat", "decide", "lifecycle"}
  MaxVersion = 0
  Absent = Absent
  None = None
  Rejected = Rejected
SYMMETRY Symmetry
SPECIFICATION SessionSpec
INVARIANT SessionTypeOK
PROPERTY InactiveFrozen
\* once its conversations are closed and the bounds are reached a server may rest
CHECK_DEADLOCK FALSE

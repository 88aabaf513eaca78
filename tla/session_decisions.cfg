CONSTANTS
  Request = {r1, r2}
  ProposalId = {p1, p2}
  Conversation = {c1, c2}
  Worker = {w1, w2}
  Handlers = {"message", "decide", "undo", "lifecycle"}
  MaxVersion = 0
  Absent = Absent
  None = None
  Rejected = Rejected
SYMMETRY Symmetry
SPECIFICATION SessionSpec
INVARIANTS
  ProposalsStayHome
  FollowupIsShown
  OneApprovalPerVersion
PROPERTY
  QuestionEndsWait
\* once its conversations are closed and the bounds are reached a server may rest
CHECK_DEADLOCK FALSE

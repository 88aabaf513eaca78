CONSTANTS
  dev = dev
  a = a
  b = b
  pms = pms
  c1 = c1
  c2 = c2
  Text <- MCText
  Project <- MCProject
  Cards <- MCCards
  Development = dev
  Blank = Blank
  Unknown = Unknown
  Keep = Keep
  Request = {r1}
  ProposalId = {p1, p2, p3}
  MaxProposals = 3
  Batches <- MCBatches
  Edits <- MCEdits
  MaxVersion = 2
  Absent = Absent
  None = None
SYMMETRY Symmetry
SPECIFICATION Spec
INVARIANTS
  LedgerInvariant
  SinglePending
  ApprovedIsPreview
  UndoFollowsApproval
  UndoOnce
  UndoRestoresDocument
PROPERTY
  TerminalFrozen

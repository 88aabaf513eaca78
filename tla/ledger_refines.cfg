CONSTANTS
  dev = dev
  a = a
  b = b
  pms = pms
  c1 = c1
  c2 = c2
  Text <- MCText
  Project <- MCProject
  Cards <- MCCards
  Development = dev
  Blank = Blank
  Unknown = Unknown
  Keep = Keep
  Request = {r1, r2}
  ProposalId = {p1, p2, p3}
  MaxProposals = 2
  Batches <- OneBatch
  Edits <- OneEdit
  MaxVersion = 1
  Absent = Absent
  None = None
SPECIFICATION FairSpec
INVARIANT CapacityHolds
PROPERTIES
  ImplementsContract
  ApprovalSettles

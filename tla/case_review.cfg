\* The user need do nothing: a behaviour may end anywhere, so deadlock is not
\* checked.
SPECIFICATION ReviewSpec
CONSTANTS
  Products  <- MCProducts
  Cards     <- MCCards
  CardScope <- MCCardScope
  Scopes    <- MCScopes
  None      = None
  Values    = {1, 2}
  MaxEdits  = 2
INVARIANTS
  CaseReviewTypeOK
  NothingIsForgotten
  LostSelectionsBlock
PROPERTIES
  SelectionsAreTheUsers
  NoOpenCaseAtPreview
CHECK_DEADLOCK FALSE

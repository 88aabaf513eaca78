\* The user need do nothing: a behaviour may end anywhere, so deadlock is not
\* checked.
SPECIFICATION PartsSpec
CONSTANTS
  FormEdits = 2
  ProposalLimit = 1
  Missing = Missing
  Places = {p1, p2}
  Contained = {v1, v2}
  Nowhere = Nowhere
  Ambiguous = Ambiguous
  Vacant = Vacant
  FactCap = 1
  FactThreads = {w1}
  FactLimit = 2
  SaveLimit = 1
  FollowLimit = 2
  Leaves <- MCLeaves
  Derived = {"RAC"}
  WindowUnit <- MCWindow
  Types = {"t"}
  Projects <- MCProjects
  ChoiceLimit = 9
  WaitLimit = 2
  Tabs = {t1, t2, t3}
  Lone = t3
  Browser <- MCBrowser
  MaxEvents = 2
  RequestLimit = 2
  CallLimit = 3
  Parts <- MCProducts
  Settings <- MCSettings
  CarriedLimit = 4
CONSTRAINT Near
VIEW Live
SYMMETRY Symmetry
INVARIANTS
  PartsTypeOK
  WordShowsServerSnapshot
  DecidedFactsRest
  ConfirmationsSucceed
  ServedByOwner
  EventsAreOwn
  BrowserReachesItsOwn
  SubmittableIsExportable
PROPERTIES
  
  UnsavedInputIsKept
  FactsAreKept
CHECK_DEADLOCK FALSE

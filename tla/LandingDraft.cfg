SPECIFICATION Spec
CONSTANTS
  None = None
  request = request
  Procs = {p1, p2}
  Requests <- OneRequest
  Edits <- Documents
  MaxVersions = 3
  MaxImages = 1
  Together <- NothingRare
PROPERTIES EditKeepsServed
CHECK_DEADLOCK FALSE

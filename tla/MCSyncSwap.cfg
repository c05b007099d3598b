CONSTANTS
  Guids = {g1, g2}
  Names = {n1, n2, n3}
  Attrs = {a1}
  Groups = {}
  CNs = {}
  None = None
  MaxUsn = 5
  Moves = {"add", "rename"}
  Faults = {}
  MaxFaults = 0
  RunKinds = {TRUE}
  DryRuns = {FALSE}
  Paged = FALSE
  Include = {}
  Exclude = {}
  GroupForm = "pattern"
SPECIFICATION FairSpec
PROPERTIES EventuallyMirrored
CHECK_DEADLOCK FALSE

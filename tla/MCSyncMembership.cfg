CONSTANTS
  Guids = {g1, g2}
  Names = {n1, n2}
  Attrs = {a1, a2}
  Groups = {gr}
  CNs = {c1}
  None = None
  MaxUsn = 3
  Moves = {"add", "edit", "regroup"}
  Faults = {}
  MaxFaults = 0
  RunKinds = {TRUE}
  DryRuns = {FALSE}
  Paged = FALSE
  Include = {}
  Exclude = {}
  GroupForm = "pattern"
SPECIFICATION Spec
SYMMETRY Symmetric
INVARIANTS CleanFullRunSyncsMembership
CHECK_DEADLOCK FALSE

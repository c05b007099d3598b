CONSTANTS
  Guids = {g1}
  Names = {n1}
  Attrs = {a1}
  Groups = {gr, gs}
  CNs = {c1, c2}
  None = None
  MaxUsn = 2
  Moves = {"add", "regroup"}
  Faults = {}
  MaxFaults = 0
  RunKinds = {TRUE}
  DryRuns = {FALSE}
  Paged = FALSE
  Include = {c1}
  Exclude = {}
  GroupForm = "name"
SPECIFICATION Spec
INVARIANTS IncludedGroupsHaveVaults
CHECK_DEADLOCK FALSE

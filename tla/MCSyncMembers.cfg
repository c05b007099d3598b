CONSTANTS
  Guids = {g1, g2}
  Names = {n1, n2}
  Attrs = {a1, a2}
  Groups = {gr}
  CNs = {c1}
  None = None
  MaxUsn = 5
  Moves = {"add", "edit", "regroup"}
  Faults = {"lose", "ldap", "blank"}
  MaxFaults = 1
  RunKinds = {TRUE, FALSE}
  DryRuns = {FALSE}
  Paged = FALSE
  Include = {}
  Exclude = {}
  GroupForm = "pattern"
SPECIFICATION Spec
SYMMETRY Symmetric
INVARIANTS RememberedMembersAreIn
PROPERTIES RememberedWhenAdded
CHECK_DEADLOCK FALSE

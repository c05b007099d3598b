CONSTANTS
  Guids = {g1, g2}
  Names = {n1, n2}
  Attrs = {a1, a2}
  Groups = {gr}
  CNs = {c1, c2, c3}
  None = None
  MaxUsn = 3
  Moves = {"add", "edit", "regroup", "rename", "delete", "restore", "rename_group"}
  Faults = {"refuse", "ldap", "blank"}
  MaxFaults = 1
  RunKinds = {TRUE, FALSE}
  DryRuns = {FALSE, TRUE}
  Paged = FALSE
  Include = {}
  Exclude = {c3}
  GroupForm = "pattern"
SPECIFICATION Spec
SYMMETRY Symmetric
PROPERTIES MembershipFollowsRows DryRunTouchesNothing
CHECK_DEADLOCK FALSE

CONSTANTS
  Guids = {g1, g2}
  Names = {n1, n2}
  Attrs = {a1}
  Groups = {}
  CNs = {}
  None = None
  MaxUsn = 4
  Moves = {"add", "rename", "delete", "restore", "hide"}
  Faults = {"refuse", "ldap"}
  MaxFaults = 1
  RunKinds = {TRUE, FALSE}
  DryRuns = {FALSE}
  Paged = TRUE
  Include = {}
  Exclude = {}
  GroupForm = "pattern"
SPECIFICATION FairSpec
PROPERTIES EventuallyMirrored
CHECK_DEADLOCK FALSE

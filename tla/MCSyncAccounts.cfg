CONSTANTS
  Guids = {g1, g2}
  Names = {n1, n2, n3}
  Attrs = {a1}
  Groups = {}
  CNs = {}
  None = None
  MaxUsn = 5
  Moves = {"add", "rename", "disable", "delete", "restore", "hide"}
  Faults = {"refuse", "ldap"}
  MaxFaults = 2
  RunKinds = {TRUE, FALSE}
  DryRuns = {FALSE}
  Paged = FALSE
  Include = {}
  Exclude = {}
  GroupForm = "pattern"
SPECIFICATION Spec
SYMMETRY Symmetric
INVARIANTS RowsTrackAccounts CleanFullRunMirrors
PROPERTIES MirrorsDirectory
CHECK_DEADLOCK FALSE

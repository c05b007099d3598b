CONSTANTS
  Guids = {g1, g2}
  Names = {n1, n2, n3}
  Attrs = {a1}
  Groups = {}
  CNs = {}
  None = None
  MaxUsn = 5
  Moves = {"add", "rename", "disable"}
  Faults = {"refuse", "ldap"}
  MaxFaults = 1
  RunKinds = {TRUE}
  DryRuns = {FALSE}
  Paged = FALSE
  Include = {}
  Exclude = {}
  GroupForm = "pattern"
SPECIFICATION Spec
SYMMETRY Symmetric
INVARIANTS CleanFullRunDisables
CHECK_DEADLOCK FALSE

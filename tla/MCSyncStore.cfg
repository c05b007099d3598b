CONSTANTS
  Guids = {g1, g2}
  Names = {n1, n2}
  Attrs = {a1}
  Groups = {}
  CNs = {}
  None = None
  MaxUsn = 4
  Moves = {"add", "rename", "disable", "delete", "restore", "hide"}
  Faults = {"refuse", "lose", "store", "ldap", "crash"}
  MaxFaults = 2
  RunKinds = {TRUE, FALSE}
  DryRuns = {FALSE}
  Paged = FALSE
  Include = {}
  Exclude = {}
  GroupForm = "pattern"
SPECIFICATION Spec
SYMMETRY Symmetric
INVARIANTS TypeOK MarkedChangesStored MarkedDeletionsDone FullRunStores
PROPERTIES SyncedStays
CHECK_DEADLOCK FALSE

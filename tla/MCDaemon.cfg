CONSTANTS
  Users = {u1}
  MaxFaults = 3
SPECIFICATION FairSpec
INVARIANTS DaemonTypeOK ToldAtMostOnce RunsHaveAClient ConnectionsHeld StatusTellsTheLastRun
PROPERTIES KeepsSyncing StopsWhenAsked StatusRecovers
CHECK_DEADLOCK FALSE

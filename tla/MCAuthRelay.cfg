CONSTANTS
  MaxEvents = 3
  MaxFaults = 2
  MaxBackoff = 3
SPECIFICATION FairSpec
INVARIANTS RelayTypeOK BoundAtMostOnce NothingSkipped AnswersTellTheBind
PROPERTIES ServesLogins EveryChallengeAnswered StopsWhenCancelled
CHECK_DEADLOCK FALSE

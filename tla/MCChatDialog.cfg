SPECIFICATION ChatSpec
CONSTANTS
  Me = "me"
  Peers = {"a", "b"}
  Phrases = {"x", "y"}
  ClassesShow = FALSE
  MaxCalls = 2
  MaxStored = 1
  MaxAsks = 2
CHECK_DEADLOCK FALSE
INVARIANT AskedIsAnswerable

SPECIFICATION Spec
CONSTANTS
  alpha = alpha
  beta = beta
  red = red
  blue = blue
  Me = "me"
  Peers = {alpha, beta}
  Phrases = {red, blue}
  ClassesShow = TRUE
  MaxCalls = 2
  MaxStored = 1
  MaxAsks = 2
  Invites = {alpha, beta}
  MaxTicks = 1
  MaxRounds = 2
  MaxScans = 3
  MaxWaiting = 2
  Recipients = {"reader", "other"}
  Reader = "reader"
  Vaults = {red, blue}
  MaxSends = 2
  Devices = {"near"}
  Passphrases = {"p", "q"}
  Foreign <- MCForeign
  MaxExports = 1
  MaxPicks = 2
  MaxRestores = 2
  Topics = {alpha, beta}
  TopicPhrases = {red, blue}
  Texts = {"m", "n"}
  MaxMessages = 2
  MaxStarts = 2
  MaxPolls = 3
  Messages = {"", "t"}
  Inputs <- MCInputs
  Strengths = {"quick", "strong"}
  MaxLocks = 2
  MaxOpens = 2
  MaxRenewals = 1
INVARIANTS
  TypesOK
  SentUnderItsPhrase
  PlaintextIsOnItsWayOut
  SamePhraseReads
  NeverAskedToUnlockFirst
  AnnouncedIsNew
  AcceptedWasShown
  SentAsAsked
  RestoredAsNamed
  SavedUnderConfirmed
  PublishedAsTyped
  NamedPhraseOpens
  EachMessageOnce
  PageKeepsItsWord
PROPERTIES
  GoneWasShown
SYMMETRY Symmetry
CHECK_DEADLOCK FALSE

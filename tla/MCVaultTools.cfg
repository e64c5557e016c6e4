SPECIFICATION Spec
CONSTANTS
  Phrases = {"p", "q"}
  Secrets <- MCSecrets
  NonAscii = {"q"}
  MaxMade = 2
  MaxFiles = 2
  MaxTampers = 1
  Files = {"f", "g"}
  Terminals = {t1, t2}
  Stdins = {"tty", "pipe"}
  Stdout = "stdout"
  Texts = {"short", "long"}
  PrintedSize <- MCPrintedSize
  Chunks <- MCChunks
  ChunksAreBytes = TRUE
  StdinOutlivesEof = TRUE
  MaxPhrase = 1
  MaxRuns = 2
  MaxFaults = 1
SYMMETRY AnyTerminals
INVARIANTS
  TypesOK
  OnlyTheTruth
  AnyProgramOpens
  BlamesContentRightly
  RotatedPhraseIsGone
  NoncesAreFresh
  QevKeepsItsWord
PROPERTIES
  ReplacedOnPurpose
CHECK_DEADLOCK FALSE

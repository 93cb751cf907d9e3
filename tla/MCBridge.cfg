CONSTANTS
  Extensions = {"wav", "flac", "mp3"}
  Numbers = {0, 8, 11}
  Unsigned = 8
  MaxOptions = 2
  MaxCards = 3
  MaxShortages = 1
SPECIFICATION BridgeSpec
INVARIANTS
  NothingIsLeft
  UsersGoFirst
  OnlyDumpIsAstray
  NumbersAsGiven
  StringsAreFreed
  GoodCardsAreListed
  CrashesHaveACause
PROPERTY ProgramEnds

SPECIFICATION FairSpec
CONSTANTS
  Addrs <- AddrsMC
  NoAddress = ""
  Trusted <- TrustedMC
  Rules <- RulesMC
  DefaultMode = "302"
  Files <- FilesMC
  Bytes <- BytesMC
  PageBytes = 2
  TextBytes = 2
  BadPath = "bad"
  Dirs <- ThreeDirs
  Tiers <- ThreeTiers
  Requests = {"r1"}
  Incoming <- IncomingMC
  Chars <- CharsMC
  Lower <- LowerMC
  Spellings <- SpellingsMC
  Safe <- SafeMC
  Followed <- FollowedMC
  MaxHops = 2
INVARIANTS TypeOK MissExplained RulesForClient KnownIsWhole LoggedAsSent OneRedirect
PROPERTIES AllAnswered
CHECK_DEADLOCK FALSE

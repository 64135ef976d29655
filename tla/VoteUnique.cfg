SPECIFICATION Spec
CONSTANTS
  Files = {"wheel"}
  Clients <- TheClients
  Prefixes = {"net"}
  Blank = "none"
  Prefix <- OneNet
  Workers = {1}
  Capacity = 2
  DedupWindow = 2
  VoteWindow = 4
  MinVotes = 2
  MaxSkew = 1
  MaxTime = 3
  MaxRequests = 2
  MaxFaults = 0
PROPERTY PopularUnique
CHECK_DEADLOCK FALSE

SPECIFICATION Spec
CONSTANTS
  Files = {"wheel"}
  Clients <- TheClients
  Prefixes = {"net"}
  Blank = "none"
  Prefix <- OneNet
  Workers = {1, 2}
  Capacity = 2
  DedupWindow = 3
  VoteWindow = 4
  MinVotes = 2
  MaxSkew = 1
  MaxTime = 3
  MaxRequests = 2
  MaxFaults = 0
INVARIANT Dedup
CHECK_DEADLOCK FALSE

SPECIFICATION FairSpec
CONSTANTS
  Files = {"wheel"}
  Clients <- TheClients
  Prefixes = {"net"}
  Blank = "none"
  Prefix <- OneNet
  Workers = {1, 2}
  Capacity = 2
  DedupWindow = 4
  VoteWindow = 4
  MinVotes = 2
  MaxSkew = 1
  MaxTime = 5
  MaxRequests = 4
  MaxFaults = 1
INVARIANTS TypeOK BoundedOvercount
PROPERTY EveryVoteCounts
CHECK_DEADLOCK FALSE

SPECIFICATION FairSpec
CONSTANTS
  Vertices <- MCVertices
  StartPoint = 0
  Graphs <- MCGraphs
  Distances <- MCDistances
  Unreadable <- MCUnreadable
  Queries <- MCQueries
  Followups <- MCFollowups
  MaxSearches = 2
  MaxPages = 3
INVARIANTS GreedyFixpoint MultihopFixpoint RangeClosed PagesSound DiverseQueuesAgree
PROPERTY EventuallyOver

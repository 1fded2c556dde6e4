SPECIFICATION FairSpec
CONSTANTS
  Threads = {t1, t2}
  Graphs <- MCGraphs
  Distances <- MCDistances
  Layouts <- MCLayouts
  CacheSizes = {0, 1, 2, 4}
  Queries <- MCQueries
  Medoid = 0
  BfsBeamWidth = 2
  MaxIoConcurrency = 2
  MaxSearches = 2
  MaxErrors = 1
INVARIANTS OwnData IoBounded RerankExact CacheNearest
PROPERTY EventuallyReturns

SPECIFICATION Spec
CONSTANTS
  Threads = {t1}
  Graphs <- MCGraphs
  Distances <- MCDistances
  Layouts <- MCLayouts
  CacheSizes = {0, 1, 2, 4}
  Queries <- MCQueries
  Medoid = 0
  BfsBeamWidth = 2
  MaxIoConcurrency = 2
  MaxSearches = 2
  MaxErrors = 1
INVARIANT BatchComplete

SPECIFICATION CacheSpec
CONSTANTS
  Options <- MCOptions
  Blocks <- MCBlocks
  Doms <- MCDoms
  Accesses <- MCAccesses
  Misread <- MCMisread
  MaxStarts = 3
CHECK_DEADLOCK FALSE
INVARIANTS CompleteCacheIsExact ShortCacheOnlyKeeps

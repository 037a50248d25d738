CONSTANTS
  N = 4
  Windows = 5
  Ubatches <- MCUbatches
  Batches <- MCBatches
  WarmBatch <- MCWarmBatch
  KvCmds <- MCKvCmds
  LocalCmds <- Erase
  WarmTimesOut = TRUE
  MaxLog = 3
  CacheInit <- MCCacheInit
  CacheCleared <- MCCacheCleared
  CacheOp <- MCCacheOp
  CachePlace <- MCCachePlace
  CacheEnd <- MCCacheEnd
SPECIFICATION Spec
INVARIANTS NoWrongResult
CHECK_DEADLOCK FALSE

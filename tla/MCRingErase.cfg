CONSTANTS
  N = 3
  Windows = 4
  Ubatches <- MCUbatches
  Batches <- MCBatches
  WarmBatch <- MCWarmBatch
  KvCmds <- MCKvCmds
  LocalCmds <- Erase
  WarmTimesOut = FALSE
  MaxLog = 3
  CacheInit <- MCCacheInit
  CacheCleared <- MCCacheCleared
  CacheOp <- MCCacheOp
  CachePlace <- MCCachePlace
  CacheEnd <- MCCacheEnd
SPECIFICATION LiveSpec
PROPERTY DecodeReturns

CONSTANTS
  N = 3
  Windows = 4
  Ubatches <- MCUbatches
  Batches <- MCBatches
  WarmBatch <- MCWarmBatch
  KvCmds <- MCKvCmds
  LocalCmds <- None
  WarmTimesOut = FALSE
  MaxLog = 4
  CacheInit <- MCCacheInit
  CacheCleared <- MCCacheCleared
  CacheOp <- MCCacheOp
  CachePlace <- MCCachePlace
  CacheEnd <- MCCacheEnd
SPECIFICATION LiveSpec
INVARIANTS NoConfusion OneHiddenState ReplicasAgree SameCacheInAllLayers StopOnce
PROPERTIES ActsAsOneDevice DecodeReturns CommandsArrive AllStop

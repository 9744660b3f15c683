\* append_kvs batches with rotation and compaction; crashes anywhere before
\* lazy_delete has not started (chunk appends and write_meta_back).
CONSTANTS
    k1 = k1
    k2 = k2
    v1 = v1
    v2 = v2
    Keys <- MCKeys
    Vals <- MCVals
    Empty = Empty
    None = None
    SizeLimit = 1
    MaxChunk = 2
    MaxBatches = 3
    CrashAt = {"append", "index", "meta"}

SPECIFICATION Spec
INVARIANT TypeOK
INVARIANT LiveRecordsPresent
INVARIANT CompactionMatchesReference
PROPERTY ChunkRefinesStore

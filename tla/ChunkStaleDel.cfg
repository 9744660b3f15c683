\* A crash after write_meta_back has appended delete_list, or after lazy_delete
\* has rewritten a chunk, leaves delete_list for the next append_kvs.
CONSTANTS
    k1 = k1
    k2 = k2
    v1 = v1
    v2 = v2
    Keys <- MCKeys
    Vals <- MCVals
    Empty = Empty
    None = None
    SizeLimit = 1
    MaxChunk = 2
    MaxBatches = 3
    CrashAt = {"append", "index", "meta", "read", "lazy"}

SPECIFICATION Spec
INVARIANT LiveRecordsPresent

-------------------------------- MODULE Chunk --------------------------------
(***************************************************************************)
(* The chunk store of one user (src/backend/chunk.h), as files on disk and *)
(* the Chunk object of one append_kvs call that KvCache::Checkpoint makes. *)
(*                                                                         *)
(* Files (survive a crash):                                               *)
(*   chunkFile   chunk-<i>: the sequence of <<key, value>> records         *)
(*   indexFile   append_index as stored in chunk_index (0 when absent)    *)
(*   metaFile    chunk_metadata: key -> chunk id, None when not listed    *)
(*   delFile     delete_list: the <<key, chunk id>> pairs to compact      *)
(* The Chunk object (lost by a crash):                                    *)
(*   pc          where append_kvs is: "idle" between calls                *)
(*   appendIdx, meta, delList   append_index, metadata, del_list          *)
(*   mp, todo    the batch, and the keys the loop has not visited yet     *)
(*   delMp, pending   lazy_delete's counts per chunk, and the chunks not  *)
(*               rewritten yet                                             *)
(* A record counts as one unit of size; the chunk is rotated when its     *)
(* size exceeds SizeLimit units, as when file.tellp() > SIZE_LIMIT.       *)
(***************************************************************************)
EXTENDS Naturals, Sequences, FiniteSets, SequencesExt

CONSTANTS
    Keys, Vals,
    Empty,        \* the empty value: a tombstone in a batch
    None,         \* not listed / not found
    SizeLimit,    \* SIZE_LIMIT, in records
    MaxChunk,     \* bound on append_index
    MaxBatches,   \* bound on append_kvs calls
    CrashAt       \* the phases of append_kvs after whose steps a crash is considered

ASSUME /\ Empty \notin Vals /\ None \notin Vals \cup {Empty}
       /\ SizeLimit \in Nat /\ MaxChunk \in Nat /\ MaxBatches \in Nat
       /\ CrashAt \subseteq {"append", "index", "meta", "read", "lazy"}

ChunkIds == 0..MaxChunk

VARIABLES chunkFile, indexFile, metaFile, delFile,
          pc, appendIdx, meta, delList, mp, todo, delMp, pending,
          batches, readVal,
          crashes    \* history: the number of Crash steps so far

fileVars == <<chunkFile, indexFile, metaFile, delFile>>
objVars == <<pc, appendIdx, meta, delList, mp, todo, delMp, pending>>
vars == <<fileVars, objVars, batches, readVal, crashes>>

NoMeta == [k \in Keys |-> None]

(***************************************************************************)
(* Reading the files                                                       *)
(***************************************************************************)

\* Mutant: a get_value that stops at the first record of the key.
GetValueFirst(k) ==
    IF metaFile[k] = None THEN None
    ELSE LET f == chunkFile[metaFile[k]]
             i == SelectInSeq(f, LAMBDA r : r[1] = k)
         IN IF i = 0 THEN None ELSE f[i][2]

\* Mutant: a get_value that answers the empty value instead of KEY_ERROR.
GetValueOrEmpty(k) ==
    IF metaFile[k] = None THEN Empty
    ELSE LET f == chunkFile[metaFile[k]]
             i == SelectLastInSeq(f, LAMBDA r : r[1] = k)
         IN IF i = 0 THEN Empty ELSE f[i][2]

\* get_value: KEY_ERROR (None) when metadata does not list the key or its
\* chunk has no record of it; otherwise the LAST record of the key there.
GetValue(k) ==
    IF metaFile[k] = None THEN None
    ELSE LET f == chunkFile[metaFile[k]]
             i == SelectLastInSeq(f, LAMBDA r : r[1] = k)
         IN IF i = 0 THEN None ELSE f[i][2]

\* get_all_kv: one get_value per metadata entry; the logical contents.
Contents == [k \in Keys |-> GetValue(k)]

\* lazy_delete's del_mp: for each chunk, how many records of each key the
\* delete_list asks it to drop.
DelCounts(d) ==
    [i \in ChunkIds |-> [k \in Keys |-> Cardinality({j \in DOMAIN d : d[j] = <<k, i>>})]]

\* Mutant: compaction that drops every record of a listed key.
RemoveAllListed(s, cnt) == SelectSeq(s, LAMBDA r : cnt[r[1]] = 0)

RECURSIVE RemoveFirsts(_, _)
\* lazy_delete's rewrite of one chunk: walking the records in order, a
\* record is dropped while its key's count is positive, and the count
\* goes down by one.
RemoveFirsts(s, cnt) ==
    IF s = <<>> THEN <<>>
    ELSE LET k == Head(s)[1] IN
         IF cnt[k] > 0
           THEN RemoveFirsts(Tail(s), [cnt EXCEPT ![k] = @ - 1])
           ELSE <<Head(s)>> \o RemoveFirsts(Tail(s), cnt)

(***************************************************************************)
(* append_kvs, one step per file write                                     *)
(***************************************************************************)

\* Checkpoint's chunk.init(user) and the call append_kvs(mp): the object
\* loads append_index and metadata; del_list starts empty.
Begin(b) ==
    /\ pc = "idle" /\ batches < MaxBatches
    /\ indexFile + Cardinality({k \in Keys : b[k] \notin {None, Empty}}) <= MaxChunk
    /\ pc' = "append" /\ batches' = batches + 1
    /\ appendIdx' = indexFile /\ meta' = metaFile /\ delList' = <<>>
    /\ mp' = b /\ todo' = {k \in Keys : b[k] # None}
    /\ UNCHANGED <<fileVars, delMp, pending, readVal, crashes>>

\* Mutant: a delete that queues the old record but keeps the key in metadata.
AppendOneKeepMeta(k) ==
    /\ pc = "append" /\ k \in todo
    /\ todo' = todo \ {k}
    /\ IF mp[k] = Empty
         THEN /\ delList' = Append(delList, <<k, IF meta[k] = None THEN 0 ELSE meta[k]>>)
              /\ UNCHANGED <<meta, appendIdx, chunkFile>>
         ELSE LET f == Append(chunkFile[appendIdx], <<k, mp[k]>>) IN
              /\ delList' = IF meta[k] # None THEN Append(delList, <<k, meta[k]>>) ELSE delList
              /\ chunkFile' = [chunkFile EXCEPT ![appendIdx] = f]
              /\ meta' = [meta EXCEPT ![k] = appendIdx]
              /\ appendIdx' = IF Len(f) > SizeLimit THEN appendIdx + 1 ELSE appendIdx
    /\ UNCHANGED <<indexFile, metaFile, delFile, pc, mp, delMp, pending, batches, readVal, crashes>>

\* One iteration of the loop over mp. A delete queues <<key, metadata[key]>>
\* (operator[] inserts chunk 0 for a key not in metadata) and erases the
\* key; a write queues the old location if there is one, appends the
\* record to the append chunk, points metadata at it and rotates the chunk
\* once it has grown past the limit.
AppendOne(k) ==
    /\ pc = "append" /\ k \in todo
    /\ todo' = todo \ {k}
    /\ IF mp[k] = Empty
         THEN /\ delList' = Append(delList, <<k, IF meta[k] = None THEN 0 ELSE meta[k]>>)
              /\ meta' = [meta EXCEPT ![k] = None]
              /\ UNCHANGED <<appendIdx, chunkFile>>
         ELSE LET f == Append(chunkFile[appendIdx], <<k, mp[k]>>) IN
              /\ delList' = IF meta[k] # None THEN Append(delList, <<k, meta[k]>>) ELSE delList
              /\ chunkFile' = [chunkFile EXCEPT ![appendIdx] = f]
              /\ meta' = [meta EXCEPT ![k] = appendIdx]
              /\ appendIdx' = IF Len(f) > SizeLimit THEN appendIdx + 1 ELSE appendIdx
    /\ UNCHANGED <<indexFile, metaFile, delFile, pc, mp, delMp, pending, batches, readVal, crashes>>

\* write_meta_back, first file: chunk_index.
WriteIndex ==
    /\ pc = "append" /\ todo = {}
    /\ indexFile' = appendIdx /\ pc' = "index"
    /\ UNCHANGED <<chunkFile, metaFile, delFile, appendIdx, meta, delList, mp, todo,
                   delMp, pending, batches, readVal, crashes>>

\* write_meta_back, second file: chunk_metadata, rewritten whole.
WriteMeta ==
    /\ pc = "index"
    /\ metaFile' = meta /\ pc' = "meta"
    /\ UNCHANGED <<chunkFile, indexFile, delFile, appendIdx, meta, delList, mp, todo,
                   delMp, pending, batches, readVal, crashes>>

\* write_meta_back, third file: delete_list, opened for APPEND.
WriteDel ==
    /\ pc = "meta"
    /\ delFile' = delFile \o delList /\ pc' = "read"
    /\ UNCHANGED <<chunkFile, indexFile, metaFile, appendIdx, meta, delList, mp, todo,
                   delMp, pending, batches, readVal, crashes>>

\* lazy_delete reads the whole delete_list into del_mp.
LazyRead ==
    /\ pc = "read"
    /\ delMp' = DelCounts(delFile)
    /\ pending' = {i \in ChunkIds : \E k \in Keys : DelCounts(delFile)[i][k] > 0}
    /\ pc' = "lazy"
    /\ UNCHANGED <<fileVars, appendIdx, meta, delList, mp, todo, batches, readVal, crashes>>

\* lazy_delete rewrites one chunk of del_mp (truncating it first).
LazyChunk(i) ==
    /\ pc = "lazy" /\ i \in pending
    /\ chunkFile' = [chunkFile EXCEPT ![i] = RemoveFirsts(@, delMp[i])]
    /\ pending' = pending \ {i}
    /\ UNCHANGED <<indexFile, metaFile, delFile, pc, appendIdx, meta, delList, mp, todo,
                   delMp, batches, readVal, crashes>>

\* lazy_delete removes delete_list; append_kvs returns.
LazyRemove ==
    /\ pc = "lazy" /\ pending = {}
    /\ delFile' = <<>> /\ pc' = "idle"
    /\ UNCHANGED <<chunkFile, indexFile, metaFile, appendIdx, meta, delList, mp, todo,
                   delMp, pending, batches, readVal, crashes>>

\* The process dies after a step of a phase in CrashAt: the object is gone,
\* the files stay as they are.
Crash ==
    /\ pc # "idle" /\ pc \in CrashAt
    /\ pc' = "idle" /\ crashes' = crashes + 1
    /\ UNCHANGED <<fileVars, appendIdx, meta, delList, mp, todo, delMp, pending,
                   batches, readVal>>

\* KvCache::Gets on a miss: chunk.init, then get_value.
Read(k) ==
    /\ pc = "idle"
    /\ readVal' = GetValue(k)
    /\ UNCHANGED <<fileVars, objVars, batches, crashes>>

Init ==
    /\ chunkFile = [i \in ChunkIds |-> <<>>] /\ indexFile = 0
    /\ metaFile = NoMeta /\ delFile = <<>>
    /\ pc = "idle" /\ appendIdx = 0 /\ meta = NoMeta /\ delList = <<>>
    /\ mp = NoMeta /\ todo = {}
    /\ delMp = [i \in ChunkIds |-> [k \in Keys |-> 0]] /\ pending = {}
    /\ batches = 0 /\ readVal = None /\ crashes = 0

Next ==
    \/ \E b \in [Keys -> Vals \cup {Empty, None}] : Begin(b)
    \/ \E k \in Keys : AppendOne(k)
    \/ WriteIndex \/ WriteMeta \/ WriteDel \/ LazyRead
    \/ \E i \in ChunkIds : LazyChunk(i)
    \/ LazyRemove \/ Crash
    \/ \E k \in Keys : Read(k)

Spec == Init /\ [][Next]_vars

(***************************************************************************)
(* Properties                                                              *)
(***************************************************************************)

Record == Keys \X Vals

TypeOK ==
    /\ chunkFile \in [ChunkIds -> Seq(Record)]
    /\ indexFile \in ChunkIds /\ metaFile \in [Keys -> ChunkIds \cup {None}]
    /\ delFile \in Seq(Keys \X ChunkIds)
    /\ pc \in {"idle", "append", "index", "meta", "read", "lazy"}
    /\ appendIdx \in ChunkIds /\ meta \in [Keys -> ChunkIds \cup {None}]
    /\ delList \in Seq(Keys \X ChunkIds)
    /\ mp \in [Keys -> Vals \cup {Empty, None}] /\ todo \subseteq Keys
    /\ pending \subseteq ChunkIds
    /\ batches \in 0..MaxBatches /\ readVal \in Vals \cup {None}
    /\ crashes \in 0..batches

\* The batch as the abstract store sees it: the one in progress, if any.
AbsBatch == IF pc = "idle" THEN NoMeta ELSE mp

Abs == INSTANCE ChunkStore WITH kv <- Contents, batch <- AbsBatch, crashes <- crashes

\* The chunk files implement the store KvCache relies on: across
\* append_kvs calls, rotations, lazy compaction and crashes, a key's value
\* (what get_value returns) only ever changes to the value the running
\* batch gives it, every key of the batch has its value when append_kvs
\* returns, get_value reads the logical contents, and a batch ends
\* unfinished only when the process dies.
ChunkRefinesStore == Abs!Spec

\* Reference definition of a compaction: the records kept are those
\* preceded, counting themselves, by more records of their key than the
\* count asks to drop.
KeepLaterRecords(s, cnt) ==
    LET keep == {i \in DOMAIN s :
                   Cardinality({j \in 1..i : s[j][1] = s[i][1]}) > cnt[s[i][1]]}
    IN [n \in 1..Cardinality(keep) |->
          s[CHOOSE i \in keep : Cardinality({j \in keep : j <= i}) = n]]

\* lazy_delete's rewrite of every chunk still to compact is the reference
\* compaction of that chunk with the counts read from delete_list.
CompactionMatchesReference ==
    pc = "lazy" =>
        \A i \in pending : RemoveFirsts(chunkFile[i], delMp[i]) = KeepLaterRecords(chunkFile[i], delMp[i])

\* Every key that chunk_metadata lists has a record in the chunk it names:
\* lazy compaction never removes a live record.
LiveRecordsPresent ==
    \A k \in Keys : metaFile[k] # None =>
        \E i \in DOMAIN chunkFile[metaFile[k]] : chunkFile[metaFile[k]][i][1] = k
====

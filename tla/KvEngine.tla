------------------------------ MODULE KvEngine ------------------------------
(***************************************************************************)
(* The storage engine of one backend node (src/backend/cache.h together  *)
(* with the command branches of run_command in kvstore.cpp) for a single  *)
(* user, as pure operators over two records:                              *)
(*   mem  the process state: KvCache::sequence_id_ (seq), the global      *)
(*        max_sequence (maxSeq) and updates_cache_ (upd);                 *)
(*   dsk  the files under PREFIX: the chunk store as its logical contents *)
(*        (chunks, see Chunk.tla for the files themselves), whether the   *)
(*        user directory exists (dir), the logging file (wal, hasWal).    *)
(* read_cache_ is left out: run_command's own Gets before Cputs leaves a  *)
(* "" entry for a key found nowhere, so the comparison of a CPUT always   *)
(* sees the logical value, "" when absent (KvNode.tla models the cache).  *)
(* KvReplication.tla composes these operators into a cluster.             *)
(***************************************************************************)
EXTENDS Integers, Sequences, SequencesExt

CONSTANTS
    Keys,   \* keys of the user (model values), Pwd among them
    Vals,   \* non-empty values (model values)
    Pwd,    \* the key "pwd": a sign-up CPUT on it creates the user directory
    Empty,  \* the empty string: a CPUT's "no previous value", and the tombstone
    None    \* absence of an entry

ASSUME Pwd \in Keys /\ Empty \notin Vals /\ None \notin Vals \cup {Empty}

NoUpd == [k \in Keys |-> None]

\* A new process: the static initialisers and a fresh KvCache.
FreshMem == [seq |-> 0, maxSeq |-> 0, upd |-> NoUpd]

\* WAL lines: the checkpoint marker, FormatPuts and FormatDele.
Marker(s) == [op |-> "Ckpt", seq |-> s, key |-> None, val |-> None]
PutsRec(s, k, v) == [op |-> "Puts", seq |-> s, key |-> k, val |-> v]
DeleRec(s, k) == [op |-> "Dele", seq |-> s, key |-> k, val |-> Empty]

\* Commands as the frontend and the primary send them.
PutsCmd(k, v) == [com |-> "PUTS", key |-> k, v1 |-> v, v2 |-> None]
DeleCmd(k) == [com |-> "DELE", key |-> k, v1 |-> None, v2 |-> None]
CputCmd(k, p, v) == [com |-> "CPUT", key |-> k, v1 |-> p, v2 |-> v]
Cmds == {PutsCmd(k, v) : k \in Keys, v \in Vals} \cup {DeleCmd(k) : k \in Keys}
          \cup {CputCmd(k, p, v) : k \in Keys, p \in Vals \cup {Empty}, v \in Vals}

\* The value Gets reads: updates_cache_, then the chunk store; "" for a
\* key found nowhere (and for a tombstone).
Lookup(m, d, k) == IF m.upd[k] # None THEN m.upd[k]
                   ELSE IF d.chunks[k] # None THEN d.chunks[k] ELSE Empty

\* What a client reading every key would see: None for absent keys.
Contents(m, d) == [k \in Keys |-> IF Lookup(m, d, k) = Empty THEN None ELSE Lookup(m, d, k)]

\* ValidateAndUpdateSeqNum.
ValidateAndUpdateSeqNum(m, s) == s = m.seq + 1

\* The value a mutating command writes: the tombstone "" for DELE.
NewValue(c) == CASE c.com = "PUTS" -> c.v1
                 [] c.com = "DELE" -> Empty
                 [] c.com = "CPUT" -> c.v2

\* The WAL line a mutating command appends.
LogRec(c, s) == IF c.com = "DELE" THEN DeleRec(s, c.key) ELSE PutsRec(s, c.key, NewValue(c))

\* Whether Puts/Dele/Cputs gets past its guard and its comparison.
Applies(m, d, c) ==
    /\ ValidateAndUpdateSeqNum(m, m.maxSeq + 1)
    /\ c.com = "CPUT" => Lookup(m, d, c.key) = c.v1

\* The PUTS, CPUT and DELE branches of run_command after forwarding:
\* ++max_sequence; for a sign-up CPUT (previous value "") on pwd with no
\* user directory the directory is created (its old_value is always "":
\* line 88 converts an empty local vector, not the value Gets read);
\* then the guard (which advances sequence_id_ even when the comparison
\* then fails), Log and the cache write.
MutateMem(m, d, c) ==
    LET s == m.maxSeq + 1 IN
    [maxSeq |-> s,
     seq    |-> IF ValidateAndUpdateSeqNum(m, s) THEN s ELSE m.seq,
     upd    |-> IF Applies(m, d, c) THEN [m.upd EXCEPT ![c.key] = NewValue(c)] ELSE m.upd]

MutateDsk(m, d, c) ==
    [d EXCEPT !.dir = d.dir \/ (c.com = "CPUT" /\ c.key = Pwd /\ c.v1 = Empty),
              !.wal = IF Applies(m, d, c) THEN Append(d.wal, LogRec(c, m.maxSeq + 1)) ELSE d.wal,
              !.hasWal = d.hasWal \/ Applies(m, d, c)]

\* Chunk::append_kvs on the logical contents: "" removes the key.
AppendKvs(ch, upd) == [k \in Keys |-> CASE upd[k] = None  -> ch[k]
                                        [] upd[k] = Empty -> None
                                        [] OTHER          -> upd[k]]

\* KvCache::Checkpoint on the by-value copy made by checkpoint(): the
\* updates go to the chunks (skipped when Chunk::init finds no user
\* directory), the WAL is truncated and gets a marker with sequence_id_.
\* The caller's caches are untouched.
CheckpointDsk(m, d) ==
    [d EXCEPT !.chunks = IF d.dir THEN AppendKvs(d.chunks, m.upd) ELSE d.chunks,
              !.wal = <<Marker(m.seq)>>, !.hasWal = TRUE]

\* ExtractCheckpointSequenceIdFromLoggings: the first marker, 0 if none.
MarkerIndex(w) == SelectInSeq(w, LAMBDA r : r.op = "Ckpt")

RECURSIVE ReplayOps(_, _)
\* ReplayLoggings' loop over the operation lines, through Puts/Dele with
\* logging disabled; a rejected sequence number ends it with REC_ERROR.
ReplayOps(ops, m) ==
    IF ops = <<>> THEN [ok |-> TRUE, mem |-> m]
    ELSE LET r == Head(ops) IN
         IF ~ValidateAndUpdateSeqNum(m, r.seq) THEN [ok |-> FALSE, mem |-> m]
         ELSE ReplayOps(Tail(ops), [m EXCEPT !.seq = r.seq, !.upd[r.key] = r.val])

\* ReplayLoggings: the file must exist and hold a marker; sequence_id_
\* starts at the marker, caches are cleared, max_sequence = sequence_id_.
ReplayLoggings(d) ==
    IF ~d.hasWal \/ MarkerIndex(d.wal) = 0 THEN [ok |-> FALSE, mem |-> FreshMem]
    ELSE LET r == ReplayOps(SelectSeq(d.wal, LAMBDA x : x.op # "Ckpt"),
                            [FreshMem EXCEPT !.seq = d.wal[MarkerIndex(d.wal)].seq])
         IN [ok |-> r.ok, mem |-> [r.mem EXCEPT !.maxSeq = r.mem.seq]]

\* InitCacheForPrimary: a new WAL holding a marker at sequence_id_, or the
\* replay of the existing one.
InitCacheForPrimary(m, d) ==
    IF ~d.hasWal
      THEN [ok |-> TRUE, mem |-> m, dsk |-> [d EXCEPT !.wal = <<Marker(m.seq)>>, !.hasWal = TRUE]]
      ELSE [ok |-> ReplayLoggings(d).ok, mem |-> ReplayLoggings(d).mem, dsk |-> d]

\* NeedFullSync on the secondary's files d and the primary's WAL pw: the
\* local checkpoint id is 0 without a logging file; a file without a marker
\* on either side asks for a full sync; otherwise a full sync is asked for
\* exactly when the primary's checkpoint id is larger.
NeedFullSync(d, pw) ==
    \/ d.hasWal /\ MarkerIndex(d.wal) = 0
    \/ MarkerIndex(pw) = 0
    \/ LET local == IF d.hasWal THEN d.wal[MarkerIndex(d.wal)].seq ELSE 0
       IN pw[MarkerIndex(pw)].seq > local

\* A full sync: ResetLocalStateForFullSync removes PREFIX, then every file
\* PrimarySendAllContent sends (the user directory, the chunk files and
\* the WAL) is written by PerformFullSyncFromPrimary.
FullSyncDsk(pd) == [pd EXCEPT !.hasWal = TRUE]

\* Mutant: a replay-only sync that keeps the secondary's own WAL.
SyncedDskKeepWal(d, pd) ==
    IF NeedFullSync(d, pd.wal) THEN FullSyncDsk(pd) ELSE d

\* The files of the secondary after the exchange: a full sync, or else
\* only the WAL is overwritten (OverwriteLoggingAndReplay).
SyncedDsk(d, pd) ==
    IF NeedFullSync(d, pd.wal) THEN FullSyncDsk(pd)
    ELSE [d EXCEPT !.wal = pd.wal, !.hasWal = TRUE]
====

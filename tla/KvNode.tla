------------------------------- MODULE KvNode -------------------------------
(***************************************************************************)
(* One key-value storage node (src/backend/kvstore.cpp, cache.h) serving  *)
(* as the only member of its replication group, so that it is always the  *)
(* primary once the master has sent it a CLUSTER message.                 *)
(*                                                                         *)
(* State of the process (lost by a crash):                                *)
(*   cache       the global KvCache object: sequence_id_, updates_cache_,  *)
(*               read_cache_                                               *)
(*   maxSeq, killed, isPrimary, initFlag, lastCkptTime   kvstore globals   *)
(*   pendingCkpt, ckptMarker   where the event-loop thread is inside the  *)
(*               checkpoint that ends the current command                 *)
(*   mainPc      the main thread of RunServer: process down, waiting for   *)
(*               `init`, or done with InitCacheForPrimary                  *)
(* State on disk (survives a crash):                                      *)
(*   disk        the chunk store, abstracted to its logical contents      *)
(*   userDir     the users whose directory <PREFIX>/<user> exists         *)
(*   wal, walExists   the logging file, as a sequence of records          *)
(* History variable: store, the contents the applied commands define.     *)
(***************************************************************************)
EXTENDS Integers, Sequences, SequencesExt

CONSTANTS
    Users,            \* user names (model values)
    Keys,             \* keys (model values), Pwd among them
    Vals,             \* non-empty values (model values)
    Pwd,              \* the key "pwd" whose sign-up CPUT creates the user directory
    Empty,            \* the empty string "": a value, and the delete tombstone
    None,             \* absence of an entry in a map
    MaxSeq,           \* bound on max_sequence, i.e. on mutating commands
    CkptPeriod,       \* the 20 of `last_checkpoint_time % 20` (kvstore.cpp 204)
    SignedUpClients,  \* TRUE: clients write only after signing up, as the frontend does
    ServeBeforeInit   \* TRUE: clients reach the node before InitCacheForPrimary ends

ASSUME /\ Pwd \in Keys
       /\ Empty \notin Vals /\ None \notin Vals \cup {Empty}
       /\ MaxSeq \in Nat /\ CkptPeriod \in Nat \ {0}
       /\ SignedUpClients \in BOOLEAN /\ ServeBeforeInit \in BOOLEAN

\* KV_State status codes (src/common/kv_interface.h)
FINISHED == 0
USER_ERROR == -2
KEY_ERROR == -3

VARIABLES cache, maxSeq, killed, isPrimary, initFlag, lastCkptTime,
          pendingCkpt, ckptMarker, mainPc,
          disk, userDir, wal, walExists,
          store

procVars == <<cache, maxSeq, killed, isPrimary, initFlag, lastCkptTime,
              pendingCkpt, ckptMarker, mainPc>>
diskVars == <<disk, userDir, wal, walExists>>
vars == <<procVars, diskVars, store>>

NoEntries == [u \in Users |-> [k \in Keys |-> None]]

\* A freshly constructed KvCache: sequence_id_ = 0, both maps empty.
FreshCache == [seq |-> 0, upd |-> NoEntries, rc |-> NoEntries]

\* WAL records: the checkpoint marker and the lines FormatPuts/FormatDele render.
Marker(n) == [op |-> "Ckpt", seq |-> n, usr |-> None, key |-> None, val |-> None]
PutsRec(s, u, k, v) == [op |-> "Puts", seq |-> s, usr |-> u, key |-> k, val |-> v]
DeleRec(s, u, k) == [op |-> "Dele", seq |-> s, usr |-> u, key |-> k, val |-> Empty]

Record == {Marker(n) : n \in 0..MaxSeq}
            \cup {PutsRec(s, u, k, v) : s \in 1..MaxSeq, u \in Users, k \in Keys, v \in Vals}
            \cup {DeleRec(s, u, k) : s \in 1..MaxSeq, u \in Users, k \in Keys}

(***************************************************************************)
(* KvCache helpers (cache.h)                                               *)
(***************************************************************************)

\* ValidateAndUpdateSeqNum: the only accepted sequence number is one more
\* than sequence_id_, which it then becomes.
ValidateAndUpdateSeqNum(c, s) == s = c.seq + 1

\* Mutant: a Puts that forgets to evict the key from read_cache_.
CachePutsNoEvict(c, u, k, v) == [c EXCEPT !.upd[u][k] = v]

\* The private KvCache::Puts: the write goes to updates_cache_ and evicts
\* the key from read_cache_.
CachePuts(c, u, k, v) == [c EXCEPT !.upd[u][k] = v, !.rc[u][k] = None]

\* KvCache::Gets against directories dirs. read_cache_ is consulted first,
\* then updates_cache_; on a miss in both the entry read_cache_[user][key]
\* is created (empty) before the chunk store is opened, and keeps the empty
\* value when the user directory or the key is missing.
CacheGets(c, dirs, u, k) ==
    IF c.rc[u][k] # None THEN [st |-> FINISHED, val |-> c.rc[u][k], cache |-> c]
    ELSE IF c.upd[u][k] # None THEN [st |-> FINISHED, val |-> c.upd[u][k], cache |-> c]
    ELSE LET found == u \in dirs /\ disk[u][k] # None
             loaded == IF found THEN disk[u][k] ELSE Empty
         IN [st |-> CASE u \notin dirs -> USER_ERROR
                      [] ~found        -> KEY_ERROR
                      [] OTHER         -> FINISHED,
             val |-> loaded,
             cache |-> [c EXCEPT !.rc[u][k] = loaded]]

\* Mutant: an append_kvs that skips tombstones instead of dropping the key.
AppendKvsKeepDeleted(d, upd) == [k \in Keys |-> IF upd[k] \in {None, Empty} THEN d[k] ELSE upd[k]]

\* Chunk::append_kvs for one user, as its effect on the logical contents:
\* an empty value removes the key, any other value replaces it.
AppendKvs(d, upd) == [k \in Keys |-> CASE upd[k] = None  -> d[k]
                                       [] upd[k] = Empty -> None
                                       [] OTHER          -> upd[k]]

\* KvCache::Checkpoint's loop: users whose Chunk::init fails (no directory)
\* are skipped silently.
FlushUpdates(c) == [u \in Users |-> IF u \in userDir THEN AppendKvs(disk[u], c.upd[u])
                                                     ELSE disk[u]]

\* ExtractCheckpointSequenceIdFromLoggings: index of the first marker, 0 if none.
MarkerIndex(w) == SelectInSeq(w, LAMBDA r : r.op = "Ckpt")

\* The operation records the header regex finds, in file order.
OpRecords(w) == SelectSeq(w, LAMBDA r : r.op # "Ckpt")

RECURSIVE ReplayOps(_, _)
\* ReplayLoggings' loop: every record goes through Puts/Dele with logging
\* disabled, so through the sequence guard; the first rejected record ends
\* the replay with REC_ERROR.
ReplayOps(ops, c) ==
    IF ops = <<>> THEN [ok |-> TRUE, cache |-> c]
    ELSE LET r == Head(ops) IN
         IF ~ValidateAndUpdateSeqNum(c, r.seq) THEN [ok |-> FALSE, cache |-> c]
         ELSE ReplayOps(Tail(ops), CachePuts([c EXCEPT !.seq = r.seq], r.usr, r.key, r.val))

\* ReplayLoggings: sequence_id_ from the marker, caches cleared, records
\* replayed; REC_ERROR when there is no marker.
ReplayLoggings(w) ==
    IF MarkerIndex(w) = 0 THEN [ok |-> FALSE, cache |-> FreshCache]
    ELSE ReplayOps(OpRecords(w), [FreshCache EXCEPT !.seq = w[MarkerIndex(w)].seq])

(***************************************************************************)
(* The event-loop thread (handle_connect + run_command)                    *)
(***************************************************************************)

\* The event loop takes a new command only when the previous one, with its
\* checkpoints, is done.
EventLoopFree == mainPc # "down" /\ pendingCkpt = 0 /\ ckptMarker = None

\* handle_connect around run_command: last_checkpoint_time is bumped for
\* every message read; afterwards a primary checkpoints when it is a
\* multiple of the period; prim is isPrimary after run_command. The code's
\* counter never wraps; only its value modulo the period is ever read, so
\* the model keeps that residue.
AfterCommand(prim) ==
    /\ lastCkptTime' = (lastCkptTime + 1) % CkptPeriod
    /\ pendingCkpt' = IF prim /\ (lastCkptTime + 1) % CkptPeriod = 0 THEN 1 ELSE 0

\* A command from a client. The event loop runs from the start of RunServer;
\* whether clients reach it before InitCacheForPrimary is ServeBeforeInit.
ClientCommand == EventLoopFree /\ ~killed /\ (ServeBeforeInit \/ mainPc = "serving")

\* A mutating command; with SignedUpClients, as the frontend sends them:
\* PUTS and DELE only for signed-up users, CPUT also for the sign-up itself.
Mutation(u, k, signup) ==
    /\ ClientCommand /\ maxSeq < MaxSeq
    /\ SignedUpClients => u \in userDir \/ (signup /\ k = Pwd)

\* PUTS: ++max_sequence, then KvCache::Puts: guard, Log, cache write.
Puts(u, k, v) ==
    LET s == maxSeq + 1 IN
    /\ Mutation(u, k, FALSE)
    /\ maxSeq' = s
    /\ IF ValidateAndUpdateSeqNum(cache, s)
         THEN /\ wal' = Append(wal, PutsRec(s, u, k, v)) /\ walExists' = TRUE
              /\ cache' = CachePuts([cache EXCEPT !.seq = s], u, k, v)
              /\ store' = [store EXCEPT ![u][k] = v]
         ELSE UNCHANGED <<cache, wal, walExists, store>>
    /\ AfterCommand(isPrimary)
    /\ UNCHANGED <<killed, isPrimary, initFlag, ckptMarker, mainPc, disk, userDir>>

\* DELE: as PUTS with the tombstone, logged as a Dele record.
Dele(u, k) ==
    LET s == maxSeq + 1 IN
    /\ Mutation(u, k, FALSE)
    /\ maxSeq' = s
    /\ IF ValidateAndUpdateSeqNum(cache, s)
         THEN /\ wal' = Append(wal, DeleRec(s, u, k)) /\ walExists' = TRUE
              /\ cache' = CachePuts([cache EXCEPT !.seq = s], u, k, Empty)
              /\ store' = [store EXCEPT ![u][k] = None]
         ELSE UNCHANGED <<cache, wal, walExists, store>>
    /\ AfterCommand(isPrimary)
    /\ UNCHANGED <<killed, isPrimary, initFlag, ckptMarker, mainPc, disk, userDir>>

\* CPUT: run_command reads the key (its result is discarded: old_value is
\* always ""), creates the user directory for a sign-up, then Cputs with
\* ++max_sequence: guard (which advances sequence_id_), Gets, compare, Log,
\* cache write. A failed read or compare returns after the guard.
Cput(u, k, prev, new) ==
    LET s == maxSeq + 1
        c1 == CacheGets(cache, userDir, u, k).cache
        dirs == IF k = Pwd /\ u \notin userDir /\ prev = Empty
                  THEN userDir \cup {u} ELSE userDir
        g == CacheGets([c1 EXCEPT !.seq = s], dirs, u, k)
    IN
    /\ Mutation(u, k, TRUE)
    /\ maxSeq' = s
    /\ userDir' = dirs
    /\ IF ~ValidateAndUpdateSeqNum(c1, s)
         THEN cache' = c1 /\ UNCHANGED <<wal, walExists, store>>
       ELSE IF g.st # FINISHED \/ g.val # prev
         THEN cache' = g.cache /\ UNCHANGED <<wal, walExists, store>>
       ELSE /\ wal' = Append(wal, PutsRec(s, u, k, new)) /\ walExists' = TRUE
            /\ cache' = CachePuts(g.cache, u, k, new)
            /\ store' = [store EXCEPT ![u][k] = new]
    /\ AfterCommand(isPrimary)
    /\ UNCHANGED <<killed, isPrimary, initFlag, ckptMarker, mainPc, disk>>

\* GETS: KvCache::Gets; only the read cache changes.
Gets(u, k) ==
    /\ ClientCommand
    /\ cache' = CacheGets(cache, userDir, u, k).cache
    /\ AfterCommand(isPrimary)
    /\ UNCHANGED <<maxSeq, killed, isPrimary, initFlag, ckptMarker, mainPc, diskVars, store>>

\* ALL: KvCache::GetsAll reads and changes nothing.
All(u) ==
    /\ ClientCommand
    /\ AfterCommand(isPrimary)
    /\ UNCHANGED <<cache, maxSeq, killed, isPrimary, initFlag, ckptMarker, mainPc, diskVars, store>>

\* Mutant: a checkpoint that flushes the chunks but does not truncate the WAL.
CheckpointFlushNoTruncate ==
    /\ mainPc # "down" /\ pendingCkpt > 0 /\ ckptMarker = None
    /\ disk' = FlushUpdates(cache)
    /\ walExists' = TRUE
    /\ ckptMarker' = cache.seq
    /\ UNCHANGED <<cache, maxSeq, killed, isPrimary, initFlag, lastCkptTime,
                   pendingCkpt, mainPc, userDir, wal, store>>

\* Mutant: the marker records the next sequence number, not the last one.
CheckpointFlushNextSeq ==
    /\ mainPc # "down" /\ pendingCkpt > 0 /\ ckptMarker = None
    /\ disk' = FlushUpdates(cache)
    /\ wal' = <<>> /\ walExists' = TRUE
    /\ ckptMarker' = cache.seq + 1
    /\ UNCHANGED <<cache, maxSeq, killed, isPrimary, initFlag, lastCkptTime,
                   pendingCkpt, mainPc, userDir, store>>

\* checkpoint(KvCache cache) takes the cache BY VALUE: Checkpoint runs on a
\* copy, flushes its updates into the chunks and truncates the WAL; the
\* copy's caches are cleared, the global cache keeps its contents.
CheckpointFlush ==
    /\ mainPc # "down" /\ pendingCkpt > 0 /\ ckptMarker = None
    /\ disk' = FlushUpdates(cache)
    /\ wal' = <<>> /\ walExists' = TRUE
    /\ ckptMarker' = cache.seq
    /\ UNCHANGED <<cache, maxSeq, killed, isPrimary, initFlag, lastCkptTime,
                   pendingCkpt, mainPc, userDir, store>>

\* The rest of Checkpoint: Log the marker with the copy's sequence_id_.
CheckpointLogMarker ==
    /\ mainPc # "down" /\ ckptMarker # None
    /\ wal' = Append(wal, Marker(ckptMarker))
    /\ ckptMarker' = None
    /\ pendingCkpt' = pendingCkpt - 1
    /\ UNCHANGED <<cache, maxSeq, killed, isPrimary, initFlag, lastCkptTime,
                   mainPc, disk, userDir, walExists, store>>

(***************************************************************************)
(* Process life cycle and the admin commands (kvstore.cpp, master monitor)*)
(***************************************************************************)

\* The process ends (a crash, or error() -> exit(1)): everything in memory
\* is gone; the next process starts from the static initialisers.
ProcessExit ==
    /\ cache' = FreshCache /\ maxSeq' = 0
    /\ killed' = FALSE /\ isPrimary' = FALSE /\ initFlag' = FALSE
    /\ pendingCkpt' = 0 /\ ckptMarker' = None /\ mainPc' = "down"
    /\ UNCHANGED <<lastCkptTime, diskVars, store>>

\* The process is killed at any point, also inside a checkpoint.
Crash ==
    /\ mainPc # "down"
    /\ ProcessExit

\* RunServer: the threads start (handle_connect sets last_checkpoint_time
\* to 1), the node registers with the master and waits for `init`.
RunServer ==
    /\ mainPc = "down"
    /\ mainPc' = "wait_init"
    /\ lastCkptTime' = 1 % CkptPeriod
    /\ UNCHANGED <<cache, maxSeq, killed, isPrimary, initFlag, pendingCkpt,
                   ckptMarker, diskVars, store>>

\* CLUSTER (parse_secondary_from_master): this node heads the address list,
\* so it becomes primary, and `init` is set. The master sends it once when
\* the node registers and once, just before RESTART, to a killed node.
Cluster ==
    /\ EventLoopFree /\ (~initFlag \/ (killed /\ ~isPrimary))
    /\ isPrimary' = TRUE /\ initFlag' = TRUE
    /\ AfterCommand(TRUE)
    /\ UNCHANGED <<cache, maxSeq, killed, ckptMarker, mainPc, diskVars, store>>

\* InitCacheForPrimary succeeds: there is no WAL yet, or it replays.
InitSucceeds == ~walExists \/ ReplayLoggings(wal).ok

\* The effect of a successful InitCacheForPrimary (followed, in
\* ReplayLoggings, by max_sequence = sequence_id_): a new WAL holding a
\* marker, or the replayed caches.
InitCacheForPrimary ==
    IF walExists
      THEN /\ cache' = ReplayLoggings(wal).cache
           /\ maxSeq' = ReplayLoggings(wal).cache.seq
           /\ UNCHANGED <<wal, walExists>>
      ELSE /\ wal' = <<Marker(cache.seq)>> /\ walExists' = TRUE
           /\ UNCHANGED <<cache, maxSeq>>

\* The main thread, once `init` is set, initialises the primary.
InitPrimary ==
    /\ mainPc = "wait_init" /\ initFlag /\ isPrimary
    /\ InitSucceeds
    /\ InitCacheForPrimary
    /\ mainPc' = "serving"
    /\ UNCHANGED <<killed, isPrimary, initFlag, lastCkptTime, pendingCkpt,
                   ckptMarker, disk, userDir, store>>

\* ... or the initialisation fails and the process exits.
InitPrimaryExit ==
    /\ mainPc = "wait_init" /\ initFlag /\ isPrimary
    /\ ~InitSucceeds
    /\ ProcessExit

\* KILL: the node drops every later command but CLUSTER and RESTART.
Kill ==
    /\ EventLoopFree /\ ~killed /\ initFlag
    /\ killed' = TRUE /\ isPrimary' = FALSE
    /\ AfterCommand(FALSE)
    /\ UNCHANGED <<cache, maxSeq, initFlag, ckptMarker, mainPc, diskVars, store>>

\* RESTART of a killed primary: InitCacheForPrimary on the event loop.
Restart ==
    /\ EventLoopFree /\ killed /\ isPrimary
    /\ InitSucceeds
    /\ killed' = FALSE
    /\ InitCacheForPrimary
    /\ AfterCommand(TRUE)
    /\ UNCHANGED <<isPrimary, initFlag, ckptMarker, mainPc, disk, userDir, store>>

\* ... whose failure is error() -> exit(1).
RestartExit ==
    /\ EventLoopFree /\ killed /\ isPrimary
    /\ ~InitSucceeds
    /\ ProcessExit

(***************************************************************************)
(* Specification                                                           *)
(***************************************************************************)

\* A fresh deployment: no process, no WAL, no user directory.
Init ==
    /\ cache = FreshCache /\ maxSeq = 0
    /\ killed = FALSE /\ isPrimary = FALSE /\ initFlag = FALSE
    /\ lastCkptTime = 1 % CkptPeriod /\ pendingCkpt = 0 /\ ckptMarker = None
    /\ mainPc = "down"
    /\ disk = NoEntries /\ userDir = {} /\ wal = <<>> /\ walExists = FALSE
    /\ store = NoEntries

Next ==
    \/ \E u \in Users, k \in Keys :
          \/ \E v \in Vals : Puts(u, k, v)
          \/ Dele(u, k)
          \/ \E p \in Vals \cup {Empty}, n \in Vals : Cput(u, k, p, n)
          \/ Gets(u, k)
    \/ \E u \in Users : All(u)
    \/ CheckpointFlush \/ CheckpointLogMarker
    \/ Cluster \/ InitPrimary \/ InitPrimaryExit
    \/ Kill \/ Restart \/ RestartExit
    \/ RunServer \/ Crash

Spec == Init /\ [][Next]_vars

(***************************************************************************)
(* Properties                                                              *)
(***************************************************************************)

CacheVal == Vals \cup {Empty, None}

TypeOK ==
    /\ cache \in [seq : 0..MaxSeq, upd : [Users -> [Keys -> CacheVal]],
                  rc : [Users -> [Keys -> CacheVal]]]
    /\ maxSeq \in 0..MaxSeq
    /\ killed \in BOOLEAN /\ isPrimary \in BOOLEAN /\ initFlag \in BOOLEAN
    /\ lastCkptTime \in 0..(CkptPeriod - 1)
    /\ pendingCkpt \in 0..1 /\ ckptMarker \in 0..MaxSeq \cup {None}
    /\ mainPc \in {"down", "wait_init", "serving"}
    /\ disk \in [Users -> [Keys -> Vals \cup {None}]]
    /\ userDir \subseteq Users
    /\ wal \in Seq(Record) /\ walExists \in BOOLEAN
    /\ store \in [Users -> [Keys -> Vals \cup {None}]]

\* The contents a GETS answer stands for: its value, or None for the empty
\* string and for the error statuses.
AsContents(g) == IF g.st = FINISHED /\ g.val # Empty THEN g.val ELSE None

\* Every GETS the node answers (it answers as primary) returns what the
\* applied PUTS/DELE/CPUT commands define, across checkpoints, kills and
\* crashes: cache eviction, the by-value checkpoint and the replay together
\* must never surface a stale or lost value.
GetsReturnsStore ==
    [][\A u \in Users, k \in Keys :
          Gets(u, k) /\ isPrimary => AsContents(CacheGets(cache, userDir, u, k)) = store[u][k]]_vars

\* Whenever the WAL on disk replays, the state it recovers over the chunk
\* store is exactly what the applied commands define: nothing acknowledged
\* is lost or resurrected by a crash at any point, including between the
\* chunk writes, the WAL truncation and the marker of a checkpoint.
RecoveredMatchesStore ==
    walExists /\ ReplayLoggings(wal).ok =>
        \A u \in Users, k \in Keys :
            AsContents(CacheGets(ReplayLoggings(wal).cache, userDir, u, k)) = store[u][k]

\* Spec section 3, invariant 4, as the code keeps it: a checkpoint marker
\* only ever heads the WAL, and the records behind it carry strictly
\* increasing sequence numbers above the marker's. The sequence guard in
\* Puts/Cputs/Dele, the truncation in Checkpoint and the fresh marker of
\* InitCacheForPrimary together keep it across checkpoints, kills, restarts
\* and crashes.
WalOrdered ==
    /\ \A i \in DOMAIN wal : wal[i].op = "Ckpt" => i = 1
    /\ \A i, j \in DOMAIN wal : i < j => wal[i].seq < wal[j].seq

\* Spec sections 4.2 and 7: replay must be safe at any time, and a node
\* that serves traffic must be able to recover from its own WAL. Checked
\* whenever the node serves and no checkpoint is in progress, including
\* after Cputs has rejected a command.
RecoverableLog ==
    mainPc = "serving" /\ pendingCkpt = 0 /\ ckptMarker = None =>
        ReplayLoggings(wal).ok

\* Spec section 4.3: a GETS for a user whose directory does not exist, of a
\* key not in updates_cache_, fails with USER_ERROR (the read cache is
\* populated only by successful loads from the chunk store).
MissingUserRejected ==
    [][\A u \in Users, k \in Keys :
          Gets(u, k) /\ u \notin userDir /\ cache.upd[u][k] = None =>
              CacheGets(cache, userDir, u, k).st = USER_ERROR]_vars
====

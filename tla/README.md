# TLA+ models of the replicated key-value backend

This directory holds TLA+ models of the storage backend in `src/backend`:
the per-node engine (`KvCache`, the WAL, checkpoints and replay), the
server that drives it (`kvstore.cpp`), and the replication protocol between
a primary and its secondaries, and the frontend's storage service
(`src/frontend/storage.h`), which keeps each user's file tree in the store,
and the SMTP server (`src/email`), which appends incoming mail to the
recipients' mailboxes in the store.
Each model sits beside the code it is translated from. The models are checked with TLC.

## 1. The system

| Part | Source | State | Operations |
|---|---|---|---|
| KvCache engine | `backend/cache.h` | `sequence_id_`, `updates_cache_`, `read_cache_`; the logging file (WAL) | Gets, GetsAll, Puts, Cputs, Dele, Checkpoint, InitCacheForPrimary, ReplayLoggings, and the sync half (PrimarySyncSecondary, SecondaryRecoverFromPrimary, NeedFullSync, PerformFullSyncFromPrimary, PrimarySendAllContent) |
| Chunk store | `backend/chunk.h` | per user: `chunk_index`, `chunk_metadata`, `chunk-<n>`, `delete_list` | init, get_value, get_all_kv, append_kvs (write_meta_back, lazy_delete, rotation at 2^26) |
| Backend server | `backend/kvstore.cpp`, `kv_config.h`, `cluster_interface.h` | globals `max_sequence`, `killed`, `isPrimary`, `init`, `last_checkpoint_time`, `secondary` | run_command for PUTS, CPUT, GETS, DELE, ALL, CKPT, SYNC, CLUSTER, KILL, RESTART; handle_connect (a checkpoint every 20 messages on a primary); RunServer (register, wait for `init`, initialise) |
| Replication | `cluster_interface.h`, `cache.h` 318-760 | secondaries' caches and WALs, connections | forward_to_secondary (the primary forwards each mutation before applying it), SYNC / OK / FULL / SYNC DONE |
| Master | `master/monitor.h`, `master.cpp` | `alive_backends`, `dead_backends` per group | registration (set_backend_fd), kill_backend, restart_backend, crash detection (delete_backend_fd), CLUSTER broadcasts; the primary is the first alive node of a group |
| Storage service | `frontend/storage.h`, `storage_interface.h` | per user: the metadata value `storage_metadata` (Latest ID and one line per entry) and one content key per file; per request a StorageHandler with `directories_`, `latest_id_`, `metadata_str_` | upload, mkdir, delete (recursive), rename, move, each a CPUT of the whole metadata with undo, ReadMetadata and retry |
| SMTP server | `email/smtp.cpp`, `server.h`, `mbox.h` | per connection a detached thread with its State (Init, From, To, Data) and Mail (recipients); the static `master_fd`; per user the value `mbox` | MAIL, RCPT, DATA, RSET, QUIT, a failed read or reply (the thread exits), and "." which runs MBox::init and MBox::write (a CPUT with a reload-and-retry loop) for each recipient, then replies 250; SIGINT closes every connection (Server::stop) and exits |
| Clients | `frontend/*` | none relevant to the store | sign_up = CPUT(pwd, "", p); change_pwd = CPUT(pwd, old, new); sign_in = GETS(pwd); mbox and file metadata updated by CPUT retry loops |
| Admin console | `master/admin.h` | — | KILL and RESTART forms (kill_backend, restart_backend); the rest renders HTML and reads a user's raw data |
| Transport | `common/*` | — | length-prefixed sockets, file I/O |

How the parts interact:
- A client command reaches the primary of the user's group.
- The primary forwards each mutation to the secondaries, then numbers it
  `++max_sequence`, validates the number against `sequence_id_`, logs it,
  and applies it to `updates_cache_`.
- Every 20th message a primary checkpoints. The checkpoint flushes
  `updates_cache_` into the chunks, truncates the WAL, and writes a marker
  with `sequence_id_`.
- A restarted primary replays its WAL. A restarted secondary fetches the
  primary's WAL, and all its files when the primary checkpointed later than
  it did.
- The master tells a node its role with CLUSTER, and stops or revives it
  with KILL and RESTART.
- The master sends each HTTP connection to a random frontend. A storage
  request reads the user's metadata with GETS, edits a private copy and
  writes it back with CPUT, so two frontends serving one user race only
  through that CPUT.
- The SMTP server asks the master for each recipient's primary over the
  one `master_fd` all its threads share, reads the recipient's mailbox
  with GETS and appends the mail with CPUT. Two sessions writing to one
  mailbox race only through that CPUT.

What is hard to test in this code:
- **Crashes** between any two file writes: inside a checkpoint, and between
  the chunk files and `delete_list`.
- **Failed commands** that still consume a sequence number.
- **The startup window.** The event loop runs before the WAL is replayed.
- **Caches** that outlive the events that should clear them.
- **Forwarding to secondaries** is best-effort and not ordered with the
  primary's own numbering.
- **Kill and restart orders from the master** race the nodes' own recovery.
- **Storage requests of one user on two frontends**, whose retries reload
  the metadata into a table that still holds what the other one deleted.
- **Mail delivered by concurrent SMTP sessions**, whose CPUT retries keep
  the mail id taken before the reload.

Each of these hazards is listed in `PROJECT.json` at the line where it
bites.

## 2. Modules

### KvNode (with MCKvNode)

KvNode models one storage node that is the only member of its group, so it
becomes primary when it receives CLUSTER. It includes the admin commands
and process crashes.

**Process state.** These variables are lost when the process crashes:
- `cache`: the KvCache object as a record `[seq, upd, rc]`.
- `maxSeq`, `killed`, `isPrimary`, `initFlag`, `lastCkptTime`: the server's
  globals.
- `pendingCkpt` and `ckptMarker`: where the event loop is inside the
  checkpoint that ends a command.
- `mainPc`: the RunServer main thread, which is `down`, `wait_init` or
  `serving`.

**Disk state.** These variables survive a crash:
- `disk`: each user's chunk contents, abstracted to a key-to-value map.
- `userDir`: the users that have a directory.
- `wal` and `walExists`: the logging file, as a sequence of records.

**History.** `store` is a history variable: the contents that the applied
mutations define.

How the code maps to the model:
- Every client command is one action: `Puts`, `Dele`, `Cput`, `Gets`, `All`.
  Each action includes `++max_sequence`, the sequence guard, the Log and the
  cache write, plus handle_connect's counter (`AfterCommand`). The
  code's counter never wraps, and only its value modulo the checkpoint
  period is read, so the model keeps that residue.
- A checkpoint is two steps, so that a crash can fall between them:
  - `CheckpointFlush` writes the chunks and truncates the WAL.
  - `CheckpointLogMarker` writes the marker.
- `checkpoint()` takes the KvCache by value, so the global cache is left
  unchanged by a checkpoint.
- CLUSTER, KILL and RESTART are the actions `Cluster`, `Kill`, `Restart`
  and `RestartExit`. `InitPrimary` and `InitPrimaryExit` are the main
  thread's InitCacheForPrimary, or its `error()` exit. `Crash` can happen
  in any state.
- Replay is the recursive operator `ReplayOps`. It applies each record
  through the sequence guard and stops at the first rejected one, as
  ReplayLoggings does.
- Values are model values. `Empty` is both the empty string and the delete
  tombstone; `None` is absence.

Two constants select the environment:
- `SignedUpClients = TRUE` makes clients behave as the frontend does: PUTS
  and DELE only after the sign-up CPUT of `pwd`. That CPUT is what creates
  the user directory (run_command, kvstore.cpp 94-97).
- `ServeBeforeInit = TRUE` lets clients reach the event loop before
  InitCacheForPrimary has run, which the code allows. `FALSE` is the
  discipline of spec section 7.

### Chunk and ChunkStore (with MCChunk)

`Chunk` models the files of one user's chunk store.
- **Files:**
  - `chunkFile`: each chunk is a sequence of `<<key, value>>` records.
  - `indexFile`: the append index.
  - `metaFile`: key to chunk id.
  - `delFile`: `delete_list`.
- **The Chunk object of one `append_kvs` call:** the loop position (`pc`,
  `todo`), `appendIdx`, `meta`, `delList` and lazy_delete's `delMp`.

There is one action per file write:
- `Begin` is `chunk.init` plus the call.
- `AppendOne` is one loop iteration, with its rotation.
- `WriteIndex`, `WriteMeta` and `WriteDel` are the three files of
  write_meta_back.
- `LazyRead`, `LazyChunk` and `LazyRemove` are the steps of lazy_delete.

A record counts as one unit of size, and a chunk rotates after it holds
more than `SizeLimit` records.

`Read(k)` is get_value. It finds the last record of the key in the chunk
that metadata names (`SelectLastInSeq`). lazy_delete's rewrite is the
recursive `RemoveFirsts`. It is checked, on every reachable input,
against a reference definition stated with set comprehension
(`CompactionMatchesReference`).

`ChunkStore` is what KvCache relies on: a map that a batch changes
key by key, towards the batch's values. A crash abandons the batch, which
KvCache re-runs from the WAL, because Checkpoint truncates the WAL only
after every append_kvs has returned. `crashes` counts the process deaths:
`Abandon`, the only step that ends a batch `Finish` could not, counts
one, so a batch left half-applied without a crash is not a step of
ChunkStore. In Chunk it is a history variable that `Crash` increments. `Chunk` refines it under the mapping
`kv <- Contents` (get_all_kv), `batch <- the batch in progress`; the
property is `ChunkRefinesStore`. `ChunkStore`'s effect per key is
KvNode's `AppendKvs`, which is how KvNode abstracts the chunk files.

`Crash` kills the process after a step of a phase in `CrashAt`. Each
file write is atomic in the model; a crash inside lazy_delete's or
write_meta_back's truncating rewrite is listed as a hazard instead.

### KvEngine

`KvEngine` is the storage engine of one node for one user, written as pure
operators over two records. This lets a cluster model hold one engine per
node:
- `mem` is the process state: `sequence_id_`, `max_sequence`, `updates_cache_`.
- `dsk` is the files: the chunk store's logical contents, whether the user
  directory exists, and the WAL.

The operators and the code they come from:

| Operator | Code |
|---|---|
| `MutateMem`, `MutateDsk` | the PUTS, CPUT and DELE branches of run_command, including the directory creation of a sign-up (kvstore.cpp 72-119) |
| `CheckpointDsk` | KvCache::Checkpoint. The chunk write is skipped when the user directory is missing, but the WAL is truncated anyway. |
| `ReplayLoggings`, `InitCacheForPrimary` | the replay and primary start-up |
| `NeedFullSync` | the sync decision (cache.h 520-588) |
| `FullSyncDsk`, `SyncedDsk` | the files of a secondary after a full or a replay-only sync |

`read_cache_` is left out. KvNode models it, and run_command's own Gets
before a CPUT makes the comparison see the logical value.

### KvReplication (with MCKvReplication)

`KvReplication` models a replication group of backends, the master of
`monitor.h`, and the clients.

**Master state:**
- `alive` is `alive_backends` in order.
- `bk` and `ent` are a node's `backends[]` record and its entry in
  `alive_backends` or `dead_backends`.
- `mconn` holds the backend connections the master has not yet seen close.
- `reg` holds the BACKEND_INITIAL requests it has not yet read.

**Node state:**
- `proc` is the main thread: down, wait_init, syncing or serving.
- `inc` numbers the processes started.
- `mem` and `dsk` are the engine.
- The globals `killed`, `isPrimary`, `init` (`initFlag`) and `secondary`
  (`view`).
- `tick` is `last_checkpoint_time` modulo the period.
- `waiting` is the sync exchange a thread is blocked in.

**Network.** Every message in the code is a new TCP connection to the
node's one listening socket, written at once by its sender. So `inbox[n]`
is a FIFO of `[from, msg]`. A message to a process that is down fails to
connect, and a process that ends loses its inbox.

**Actions.** Each handler is one action:
- run_command's branches: `RecvCluster`, `RecvRestartPrimary`,
  `RecvRestartSecondary`, `RecvKill`, `RecvCommand`, `RecvCkpt`,
  `RecvSync` and `RecvIgnored`. Each one includes handle_connect's counter
  and the periodic checkpoint (`Finish`).
- RunServer: `Boot`, `InitPrimary`, `StartSync` and `SyncPeerLost`.
- The master's handlers: `SetBackendFd`, `DeleteBackendFd`, `KillBackend`
  and `RestartBackend`. `AdminHandler` is the admin console's POST handler
  (admin_handler), which calls one of the last two.
- `ClientRequest`: get_primary, then one command to that node.
- `Crash`: an outside kill at any point.

`RecvSync` joins PrimarySyncSecondary to SecondaryRecoverFromPrimary: the
two sides are blocked on each other, so the exchange is one step. A
primary without a logging file fails in PrimarySendLogging with `error()`,
and that macro exits the process.

**Initial states:**
- `FreshInit`: initialize_backend lists every node as CRASH and no
  process runs.
- `DeployedInit`: a running group after its start-up. The head ran
  InitCacheForPrimary (a WAL holding marker 0), the others synced from it,
  and no user has signed up yet.

### StorageService (with MCStorageService)

One user's file tree, served by the frontends in `Frontends`. Each
frontend runs one request at a time (`handle_connect`, frontend.cpp
9-45), and the backend applies one call at a time, so each call to the
store is one step.

State:
- `meta` is the value of `storage_metadata`. It is abstracted to what
  ParseMetadataFile reads from it: the Latest ID and the set of entry lines
  `[par, name, id, file]`. Its initial value is the one initialize_usr
  writes at sign-up.
- `content` is the set of IDs whose content key holds a value.
- `fe[f]` is the StorageHandler frontend `f` runs: its Dirent table `dt`
  (indexed by ID, with `name`, `file`, `par` and `entries_` as `ent`), the
  IDs it holds (`live`), `latest_id_` (`lat`), `metadata_str_` (`mstr`),
  the undo record of its edit, and for a delete a stack of HandleDelete
  calls (`Frame`). `pc` is the call to the store it waits for.
- `up` is FALSE once its connection to the backend broke: every later call
  fails at once, and a write raises SIGPIPE.

Pure operators translate the handler's helpers: `Validate`
(ValidatePathAndGetDir), `PathOf` (Dirent::Path, which overflows the
stack on a parent cycle), `Serialize` (GetMetadataStr, a breadth-first walk
with no visited set, `Loops` when it never ends) and `Merge` (ReadMetadata
into the existing table, where FindOrCreateDirMapping keeps old Dirents).
`Create`, `Rename`, `Move` and `RunDel` are the handlers' local work up to
their next call to the store; `UndoCreate`, `UndoRename`, `UndoMove` and
`UndoDelete` their reverts.

One action per call and outcome: `Start` (InitializeHandler and the
handler's first edit) and `StartFails`; `CputOk`, `CputFails` (the
metadata changed, the backend answered an error, or the connection broke
after the backend may have applied the write) and `CputHang`; `Reload`
and `ReloadFails`; `Puts`, `PutsFails` and `UpReload` (ReadMetadata, then
HandleDelete(path, 1, TRUE)); `Dele` and `DeleFails`; `Sigpipe` and
`Crash`. `Finished` is the state where every request has been served.

### Mailbox (with MCMailbox)

The SMTP server and the mailboxes it writes. Every accepted connection
runs `smtp_worker` on a detached thread (Server::start), so the sessions
in `Sessions` run concurrently; the backend applies one call at a time,
so each GETS or CPUT is one step.

State:
- `mbox[u]` is the value of `(u, "mbox")`, abstracted to the mails
  parse_mails reads from it: each its id line and the transaction that
  sent it (`MailRec`). A missing mailbox is the empty sequence, which is
  what MBox::init makes of KEY_ERROR.
- `sm[s]` is the thread of session `s`: its State `st` (with `Closed`
  once the thread exited), the recipients, the number of finished
  transactions, and in the delivery loop the recipient index `k`, the
  text MBox holds, the id `mid` write gave the mail and whether the
  connection to the backend still works (`up`).
- `master` is FALSE once `master_fd` failed. main opens it once and no
  thread reopens it.

Actions: `MailFrom`, `RcptTo`, `DataCmd`, `Rset`, `Quit` (QUIT outside
the mail text), `Disconnect` (do_read or a reply's do_write fails, in any
state; the thread exits), `Dot` (the "."), then per
recipient `OpenMBox` (usr_to_address, the connect and MBox::init) or
`OpenFails`, `WriteMBox` (the CPUT: FINISHED, or VALUE_ERROR and a
reload), `WriteFails` (LINK_ERROR, possibly after the backend applied
it) and `ReloadMBox` (MBox::init inside write's loop; the mail keeps its
id). `Stall` is a call of the loop (usr_to_address, the GETS or the
CPUT) whose answer never comes: tcp_read_msg has no timeout, a killed or
non-primary backend reads a command and sends nothing back, and a thread
whose master reply another thread read waits for good. A call on a
broken connection fails at once instead. `NextRcpt` is the loop's step to the next recipient; after the last
one the mail is cleared and 250 is sent whatever happened. `Shutdown` is
SIGINT: sig_handler calls Server::stop, which closes every connection,
and exits, so every thread ends where it is, also in the middle of a
delivery loop; the mailboxes keep what was already stored. `Idle` is the
server waiting for connections once every session closed.

The module is shown to implement `MailStore` (below) with the mapping
`boxes <- mbox`, `owed <- Owed` and `stuck <- Stuck`, where `Owed` is the set of
deliveries (mail, recipient slot, user) a session in its delivery loop
has still to make, from recipient `k` to the last one, and `Stuck` those
of sessions in `Stall`. "." accepts a
mail's deliveries, `WriteMBox`'s FINISHED CPUT stores one, and
`NextRcpt` after a failure, `Shutdown` or the end of a delivery gives
deliveries up, and `Stall` makes a session's deliveries stuck; every other step is a stuttering step of MailStore.

`email/mail.h` is not in the repository. The model takes Mail::clear to
empty the recipients, as RSET must for the next transaction.

### MailStore

The abstract specification of what the SMTP server promises the mailbox
owners. `owed` is the set of deliveries accepted and not yet settled;
`boxes[u]` the mails stored for `u`. `Accept(D)` adds the deliveries of
one mail, `Store(d)` settles one by appending its mail, with some id, to
its user's mailbox, and `GiveUp(D)` settles deliveries without touching
a mailbox. `Stall(D)` marks owed deliveries `stuck`: their store waits
forever, so they are never stored, only given up. Nothing else changes a mailbox: no mail is removed or
rewritten, and no delivery stores its mail twice. `Safety` is the
specification; `Settled` says every owed delivery is settled
eventually or gets stuck. It is not code and has no map entries; it is checked only
through Mailbox's refinement mapping.

## 3. Runs

The KvNode runs use one user `u1`, two keys (`pwd`, `k1`) and two values. `MaxSeq
= 3` allows three mutations, enough for sign-up, write and delete, or for
a failed CPUT followed by a logged write. `CkptPeriod = 3` stands for the
code's 20. It makes checkpoints fall after every third message, so they
land between any pair of commands, right after a RESTART replay, and twice
in one behaviour. No symmetry is used: the set of users has one element.
Deadlock is checked: a node can always crash and restart.

| Run | cfg | Expect | What it shows |
|---|---|---|---|
| kvnode | `KvNode.cfg` | pass | With signed-up clients and initialisation before serving, every GETS answers the contents the applied mutations define (`GetsReturnsStore`). This holds across by-value checkpoints, kills, restarts and crashes at any point. Whenever the WAL replays, it recovers exactly those contents (`RecoveredMatchesStore`). The WAL keeps a single leading marker with increasing sequence numbers (`WalOrdered`). |
| kvnode_cput_gap | `KvNodeGap.cfg` | violation | `RecoverableLog`: a CPUT rejected with USER_ERROR or VALUE_ERROR has already advanced `sequence_id_`. The next logged write leaves a gap that ReplayLoggings rejects, so the node exits at every later start. |
| chunk | `Chunk.cfg` | pass | Three batches over two keys and two values, with rotation after two records (`SizeLimit = 1`, up to three chunks) and crashes anywhere before lazy_delete starts. `ChunkRefinesStore`, `LiveRecordsPresent` and `CompactionMatchesReference` hold. |
| chunk_stale_delete_list | `ChunkStaleDel.cfg` | violation | `LiveRecordsPresent`: with crashes also after write_meta_back, `delete_list` survives and is re-applied. In TLC's trace the stale entry is `<<k1, 0>>`, queued by deleting a key not in metadata. It deletes the live record the next batch writes into chunk-0. |

Two more disagreements are recorded as hazards in `PROJECT.json`. With
`ServeBeforeInit = TRUE`, TLC finds `GetsReturnsStore` violated: a
restarted node answers from its cache before InitCacheForPrimary replays
its WAL. With `KvNode.cfg`'s constants, TLC finds `MissingUserRejected`
violated: the second GETS for a user without a directory answers FINISHED
with "" (the read cache keeps the entry the first GETS created).

Each property of the passing run has a mutant: a plausible bug in the
mapped code that TLC must catch. The mutants are listed in `PROJECT.json`:
- Puts without read-cache eviction;
- append_kvs ignoring tombstones;
- in Chunk:
  - get_value stopping at the first record, or answering "" for
    KEY_ERROR;
  - a delete that leaves the key in metadata;
  - compaction that drops every record of a listed key;
- a checkpoint without truncation;
- a checkpoint marker that records the next sequence number instead of
  the last one (TypeOK: the marker passes `MaxSeq`).

### Replication runs

All replication runs use the module `MCKvReplication`:
- two nodes `a` and `b`;
- one user, whose only key is `pwd`, and two values;
- the client commands a frontend sends for one user, in order: the
  sign-up CPUT, a password change, and a PUTS.

The bounds:
- `MaxAdmin` bounds the admin's kill and restart requests.
- `MaxBoots` bounds process starts per node. Crashes need no bound: a
  process crashes at most once.
- `CkptPeriod` stands for the code's 20. Period 2 hides behaviours,
  because a checkpoint then creates the WAL early. The passing runs
  therefore use 3 and 4, chosen so that checkpoints fall between the
  client commands. `repl_split_brain` uses 2: its violation needs no
  checkpoint, and a hidden behaviour cannot make a violation false.

Two nodes that each head their own view send CKPT back and forth until one
of them reads a CLUSTER or KILL. Runs that check only safety bound each
inbox at `MaxQueue = 3` (`CONSTRAINT QueueBound`) and use node symmetry.
The run with a liveness property (`repl_start_race`) uses neither, so no cut-off state can fake
a counterexample. A fresh deployment with one start per node has no such
exchange, so its state space is finite without the bound.
Deadlock is not checked: once boots and admin requests are used up, a
group can be stopped for good.

| Run | cfg | Expect | What it shows |
|---|---|---|---|
| repl | `KvReplication.cfg` | pass | In a running group with 3 admin requests, crashes and client writes, `ViewsFollowMaster` holds: once every message is read, each serving node holds the master's view and is primary exactly when it heads it. |
| repl_boot | `ReplBoot.cfg` | pass | A fresh deployment with crashes, start-up syncs and writes. `TypeOK` and `ReplicasAgree` hold: settled serving nodes read the same contents. `SyncConverges` holds: every finished sync gives the secondary its primary's contents. |
| repl_lost_write | `ReplLostWrite.cfg` | violation | `SyncConverges` fails in 5 steps: <ol><li>kill_backend makes `b` primary before `a` reads KILL;</li><li>the sign-up goes to `a`;</li><li>a PUTS goes to `b`, which has no user directory;</li><li>`b`'s checkpoint writes no chunk but truncates the WAL;</li><li>the restarted `a` syncs and never gets the write.</li></ol> |
| repl_split_brain | `ReplSplitBrain.cfg` | violation | `ViewsFollowMaster` fails: a fast reboot reads the CLUSTER meant for its predecessor and becomes primary. No later CLUSTER clears the role, so two nodes act as primary. |
| repl_start_race | `ReplStartRace.cfg` | violation | `StartedNodeServes` fails with no outside crash: a start-up SYNC that reaches the primary before InitCacheForPrimary exits both processes. |

KvReplication also defines `RegisteredNodeJoins` (every registered
process gets past `while (!init)`) and `SyncTerminates` (every sync
exchange ends). No run checks them. At the bounds of `repl_boot`, one
start per node and no admin requests, the hangs they are about cannot
arise, so a pass there would show nothing. Once the bounds are widened,
TLC finds both violated. The two hangs are recorded as hazards in
`PROJECT.json`:
- **A node that may start twice.** A new process can register while the
  master still lists the node as alive. set_backend_fd then sends no
  CLUSTER, delete_backend_fd later removes the node, and the process
  waits in `while (!init)` forever.
- **A running group with admin kills.** The admin can kill the head while
  a restarted secondary's event loop waits for its SYNC answer. The
  secondary never reads another message.

The mutants of the replication properties are:
- KILL that leaves `isPrimary` set;
- a primary that does not forward;
- a registration recorded under the old incarnation;
- a replay-only sync that keeps the secondary's WAL.

### Storage runs

Both runs use `MCStorageService` with two frontends and two names `x`,
`y`. Paths are one or two names deep. `MaxAttempt = 1` stands for
kMaxAttempt = 20: one retry is enough to reach every branch of the undo,
reload and retry code, and exhaustion. `MaxReq = 3` allows three
requests: an upload, a second upload and a delete, or a create followed
by a rename or move. Deadlock is checked, with `Finished` as the final
state.

| Run | cfg | Expect | What it shows |
|---|---|---|---|
| storage | `Storage.cfg` | pass | With every request type, one failing call (`MaxKvFail = 1`), SIGPIPE and crashes, `StoredIdsAllocated` holds: every ID the metadata lists, and every content key, is at most its Latest ID. `LatestNeverDecreases` holds: the Latest ID never goes back. |
| storage_stale_reload | `StorageStale.cfg` | violation | `NoGhostFile` fails in 11 states with no failing call and no crash. <ol><li>`f1` uploads `x` (ID 2), its content is stored.</li><li>`f2` starts to upload `y` and `f1` starts to delete `x`; both read the same metadata.</li><li>`f1` removes the content of `x` and commits the metadata without `x`.</li><li>`f2`'s CPUT fails. Its ReadMetadata merges the new metadata into its table, which still holds `x`.</li><li>`f2`'s retry commits the metadata with `x` and `y`: `x` is listed again and cannot be downloaded.</li></ol> |

The mutants of the storage properties are an upload whose content is
stored under the next ID instead of the entry's (TypeOK: the key passes
every ID there is), a creation that does not increment
`latest_id_`, and a metadata write without the compare.

StorageService also defines `StoredChangeIsRequested`: every metadata
write changes only the entry its request names. TLC finds it violated by
the stale reload above, and by upload `x`, mkdir `y`, rename `x` to `y`:
HandleRename's AddEntry overwrites `y`, which leaves the metadata. It is
recorded with the hazards.

### Mailbox run

`MCMailbox` has two sessions and two users. `MaxTxn = 1` and
`MaxRcpt = 2` let each session send one mail to two recipients, the same
user twice or two users, so the sessions meet on a mailbox in every
order. `MaxKvFail = 2` breaks up to two connections, to the backend or to
the master. The sessions may also drop their clients, and the server may
be shut down, and any call of a delivery loop may never return. Deadlock is checked, with `Idle` as the final state.

| Run | cfg | Expect | What it shows |
|---|---|---|---|
| mbox | `Mailbox.cfg` | pass | `ImplementsMailStore` holds: every step of the server is a step of MailStore under the mapping, so a mailbox changes only by one appended mail, for a delivery still owed, and the CPUT retry never overwrites a mail another session stored nor stores one twice. `DeliveriesSettled` holds: every delivery owed after "." is eventually stored or given up, through VALUE_ERROR reloads, broken connections and shutdown, unless a call of its loop never returns. |

The mutants are a loop that runs one recipient past the end (TypeOK), a
write without the compare (`ImplementsMailStore`) and a loop that also
retries on LINK_ERROR, which spins on a broken connection
(`DeliveriesSettled`).

Mailbox also defines `MailIdsUnique`. With the instance above TLC finds it
violated in 14 states: both sessions read the empty mailbox of `u1`, both
give their mail id 1, and the second CPUT, retried after its reload,
stores a second mail with id 1. The hazard is recorded in `PROJECT.json`,
with the 250 reply sent after a failed delivery.

## 4. Fairness

The KvNode, Chunk and storage runs check only safety, and so do the
passing replication runs. KvReplication's `Spec` assumes weak fairness
of three kinds of step, which the liveness property of
`repl_start_race` needs:
- each node's event loop (`Loop(n)`);
- each node's main thread (`Main(n)`);
- the master's event loop (`MasterLoop`).

These threads loop forever, and nothing in the code blocks them once a
step is enabled.

Mailbox assumes weak fairness of each session's delivery loop
(`Deliver(s)`): a call that is answered, with a result or a broken
connection, is answered eventually, and the thread then takes its next
step. An answer is not guaranteed: a killed or non-primary node never
replies, a thread may lose its master reply to another thread, and
tcp_read_msg has no timeout. That is `Stall`, which gets no fairness and
disables the loop for good. So `DeliveriesSettled` (MailStore's
`Settled` under the mapping) promises settlement only for deliveries
that are not stuck. It is still violated by a loop that spins on the
answers it gets. The commands, `Disconnect` and `Shutdown` get
no fairness: the client may never send the next one, and SIGINT may
never come. Boots, crashes, admin requests and client requests get no
fairness: they come from outside, and nothing forces them to happen.

## 5. Not modelled, and why

- **Log write failures and the WAL regex alphabet.** Data details.
- **`current_size` in `chunk_index`.** It is written but never read back
  for a decision.
- **Reordering of buffered appends.** A torn append only adds records
  that no metadata points to.
- **Several groups.** The master hashes users to groups (get_group_id),
  but one group shows every interaction between the nodes.
- **The byte format of the sync transfer** (MatchHeaderAndExtractContent).
  A transfer is modelled by the files it carries.
- **The admin thread's unlocked access to the master's vectors.** Each
  admin call is one atomic step.
- **Replies to clients and heartbeats.** They change no state.
- **SIGPIPE on a write to a closed sync connection.** This is listed as a
  hazard.
- **The compiler's freedom with `while (!init);`.** The model lets the main
  thread see `init` once CLUSTER is handled.
- **Not in the model:**
  - HTTP and admin HTML, and SMTP's HELO, NOOP, replies and malformed
    commands, which change no state;
  - do_read when the client closes the connection: read returns 0, and
    the loop `while (rcvd < 1)` spins on it forever instead of failing.
    The thread then never ends and holds no lock, so no mailbox state
    depends on it; the model's `Disconnect` is the `n < 0` path only;
  - two SMTP threads crossing replies on the shared `master_fd`: each
    usr_to_address is one step of the model;
  - the frontend's webmail (`frontend/email.h`): it writes through
    `frontend/mail/mbox.h`, which is not in the repository (its MBox has a
    `del` that `email/mbox.h` lacks), so there is no code to translate;
  - the frontend's relay to other domains (`frontend/mail/relay.h`): it
    talks only to remote SMTP servers found by DNS and writes nothing to
    the store. Two defects of it are noted here instead:
    connect_remote sends HELO and expects "250" in its first read, which
    usually holds only the server's 220 greeting; and the mail text is sent
    without dot-stuffing, so a line "." in it ends the mail early and the
    rest is read by the remote server as commands;
  - login (`frontend/login.h`): each request is one CPUT or GETS of `pwd`,
    which KvNode's client commands already are;
  - socket framing;
  - load balancing;
  - the storage service's read-only requests (download, directory query,
    QUERY_ALL_DIR), which change nothing;
  - the text format of the storage metadata. It is modelled by the entry
    lines it holds, so the CPUT compares sets of entries. In the code, two
    handlers that hold the same tree may list a folder's entries in a
    different unordered_map order; that can only add CPUT failures, which
    the model already has.
  - Dirent::Path calls inside ParseDirEntry, HandleRename and HandleMove.
    They only build strings, but a parent cycle in the table makes them
    overflow the stack.

  None of these change the store's state except through the commands
  modelled above.
- **KILL before the first CLUSTER.** KvNode accepts KILL only once `init`
  is set.
- **CKPT from a primary.** In KvNode it is sent only to secondaries.
  KvReplication models it.

---------------------------- MODULE KvReplication ----------------------------
(***************************************************************************)
(* One replication group of backend nodes together with the master that  *)
(* manages it (src/backend/kvstore.cpp, cluster_interface.h, cache.h and  *)
(* src/master/monitor.h, master.cpp) and the clients that write through   *)
(* it (the frontend asks the master for the primary, then sends there).   *)
(*                                                                         *)
(* Every message travels on its own TCP connection: the master opens one  *)
(* per CLUSTER, KILL and RESTART, the primary one per forwarded command   *)
(* and CKPT, a secondary one for its SYNC. Every sender connects and      *)
(* writes at once, so a node's event loop reads the messages in the order *)
(* their connections reached its listening socket: inbox[n] is that       *)
(* order. A message to a node whose process is down fails to connect and  *)
(* is lost; a process that ends loses the messages sent to it.            *)
(*                                                                         *)
(* The storage engine of each node is KvEngine (one user): mem[n] is lost *)
(* with the process, dsk[n] survives it.                                  *)
(***************************************************************************)
EXTENDS KvEngine, FiniteSets

CONSTANTS
    Nodes,          \* the backends of the group (model values)
    Master,         \* sender name of the master
    Client,         \* sender name of the frontends
    ClientCmds,     \* the commands the frontends send for the user, in order
    MaxAdmin,       \* bound on admin kill/restart requests
    MaxBoots,       \* bound on process starts per node
    CkptPeriod,     \* the 20 of `last_checkpoint_time % 20` (kvstore.cpp 204)
    Deployed,       \* TRUE: start from a running group instead of a fresh deployment
    Crashes         \* TRUE: processes may be killed from outside (Ctrl-C)

ASSUME /\ Master \notin Nodes /\ Client \notin Nodes \cup {Master}
       /\ ClientCmds \in Seq(Cmds) /\ MaxAdmin \in Nat /\ MaxBoots \in Nat \ {0}
       /\ CkptPeriod \in Nat \ {0} /\ Deployed \in BOOLEAN /\ Crashes \in BOOLEAN

Senders == Nodes \cup {Master, Client}

VARIABLES
    \* master (monitor.h)
    alive,    \* alive_backends, in the order of its entries
    bk,       \* backends[n]: [st, fd], fd the incarnation or 0 for -1
    ent,      \* n's entry in alive_backends or dead_backends: [st, fd]
    mconn,    \* connections from backends the master has not seen closed
    reg,      \* BACKEND_INITIAL requests the master has not read yet
    \* backend processes (kvstore.cpp, kv_config.h)
    proc,     \* RunServer's main thread: down, wait_init, syncing, serving
    inc,      \* number of processes started so far (the current incarnation)
    mem, dsk, \* the storage engine (KvEngine)
    killed, isPrimary, initFlag,
    view,     \* the `secondary` vector of the last CLUSTER
    tick,     \* last_checkpoint_time modulo CkptPeriod
    waiting,  \* the SYNC exchange a thread of the node is blocked in, or None
    \* network
    inbox,    \* inbox[n]: [from, msg] of the connections n has not read yet
    \* bounds
    nClient, nAdmin

masterVars == <<alive, bk, ent, mconn, reg>>
nodeVars == <<proc, inc, mem, dsk, killed, isPrimary, initFlag, view, tick, waiting>>
vars == <<masterVars, nodeVars, inbox, nClient, nAdmin>>

Up == {n \in Nodes : proc[n] # "down"}

ClusterMsg(v) == [com |-> "CLUSTER", addrs |-> v]
KillMsg == [com |-> "KILL"]
RestartMsg == [com |-> "RESTART"]
CkptMsg == [com |-> "CKPT"]
SyncMsg(i) == [com |-> "SYNC", inc |-> i]

\* Connect and write to every node of tos whose process is up.
Send(ch, from, tos, msg) ==
    [n \in Nodes |-> IF n \in tos \cap Up THEN Append(ch[n], [from |-> from, msg |-> msg]) ELSE ch[n]]

\* The inboxes once n has read its oldest connection.
Consume(ch, n) == [ch EXCEPT ![n] = Tail(@)]

\* forward_to_secondary: every node of the view but n itself.
Forward(ch, n, v, msg) == Send(ch, n, Range(v) \ {n}, msg)

Without(seq, x) == SelectSeq(seq, LAMBDA y : y # x)

\* broadcast_group_addr(get_cluster(addr)): the alive nodes, in order.
Broadcast(ch, v) == Send(ch, Master, Range(v), ClusterMsg(v))

(***************************************************************************)
(* Backend processes                                                       *)
(***************************************************************************)

\* The process ends (a crash, error() -> exit(1), an uncaught exception):
\* its memory is gone and so are the connections to it.
ProcessExitVars(n) ==
    /\ proc' = [proc EXCEPT ![n] = "down"]
    /\ mem' = [mem EXCEPT ![n] = FreshMem]
    /\ killed' = [killed EXCEPT ![n] = FALSE]
    /\ isPrimary' = [isPrimary EXCEPT ![n] = FALSE]
    /\ initFlag' = [initFlag EXCEPT ![n] = FALSE]
    /\ view' = [view EXCEPT ![n] = <<>>]
    /\ waiting' = [waiting EXCEPT ![n] = None]

ClearInbox(ch, n) == [ch EXCEPT ![n] = <<>>]

\* The event loop of n is blocked inside a RESTART's sync exchange.
Blocked(n) == waiting[n] # None /\ waiting[n].in = "loop"

\* The event loop of n may read a message.
LoopFree(n) == proc[n] # "down" /\ ~Blocked(n)

\* handle_connect after run_command: last_checkpoint_time was bumped for
\* the message; a primary (isPrimary after the command) then calls
\* checkpoint(cache), which forwards CKPT when the view starts with n.
Finish(n, prim, v, m2, d2, ch2) ==
    LET t == (tick[n] + 1) % CkptPeriod IN
    /\ tick' = [tick EXCEPT ![n] = t]
    /\ mem' = [mem EXCEPT ![n] = m2]
    /\ IF prim /\ t = 0
         THEN /\ dsk' = [dsk EXCEPT ![n] = CheckpointDsk(m2, d2)]
              /\ inbox' = IF Head(v) = n THEN Forward(ch2, n, v, CkptMsg) ELSE ch2
         ELSE /\ dsk' = [dsk EXCEPT ![n] = d2]
              /\ inbox' = ch2

\* The oldest connection to n, when the loop may read it.
Recv(n) == LoopFree(n) /\ inbox[n] # <<>>
Msg(n) == Head(inbox[n]).msg
Sender(n) == Head(inbox[n]).from

\* CLUSTER (parse_secondary_from_master): the view is replaced, the node
\* becomes primary if it heads it (it never stops being one here), `init`
\* is set. Read also by a killed node.
RecvCluster(n) ==
    LET v == Msg(n).addrs
        prim == isPrimary[n] \/ Head(v) = n IN
    /\ Recv(n) /\ Msg(n).com = "CLUSTER"
    /\ view' = [view EXCEPT ![n] = v]
    /\ isPrimary' = [isPrimary EXCEPT ![n] = prim]
    /\ initFlag' = [initFlag EXCEPT ![n] = TRUE]
    /\ Finish(n, prim, v, mem[n], dsk[n], Consume(inbox, n))
    /\ UNCHANGED <<masterVars, proc, inc, killed, waiting, nClient, nAdmin>>

\* RESTART of a killed node, primary branch: InitCacheForPrimary on the
\* event loop; its failure is error() -> exit(1).
RecvRestartPrimary(n) ==
    LET r == InitCacheForPrimary(mem[n], dsk[n]) IN
    /\ Recv(n) /\ Msg(n).com = "RESTART" /\ killed[n] /\ isPrimary[n]
    /\ IF r.ok
         THEN /\ killed' = [killed EXCEPT ![n] = FALSE]
              /\ Finish(n, TRUE, view[n], r.mem, r.dsk, Consume(inbox, n))
              /\ UNCHANGED <<proc, isPrimary, initFlag, view, waiting>>
         ELSE /\ ProcessExitVars(n)
              /\ inbox' = ClearInbox(Consume(inbox, n), n)
              /\ UNCHANGED <<dsk, tick>>
    /\ UNCHANGED <<masterVars, inc, nClient, nAdmin>>

\* RESTART of a killed node, secondary branch: connect to the head of the
\* view (five attempts; error() if it is down), send SYNC and block the
\* event loop in SecondaryRecoverFromPrimary.
RecvRestartSecondary(n) ==
    LET p == Head(view[n]) IN
    /\ Recv(n) /\ Msg(n).com = "RESTART" /\ killed[n] /\ ~isPrimary[n]
    /\ IF p \in Up
         THEN /\ killed' = [killed EXCEPT ![n] = FALSE]
              /\ tick' = [tick EXCEPT ![n] = (@ + 1) % CkptPeriod]
              /\ waiting' = [waiting EXCEPT ![n] = [peer |-> p, pinc |-> inc[p], in |-> "loop"]]
              /\ inbox' = [Consume(inbox, n) EXCEPT ![p] = Append(@, [from |-> n, msg |-> SyncMsg(inc[n])])]
              /\ UNCHANGED <<proc, mem, isPrimary, initFlag, view>>
         ELSE /\ ProcessExitVars(n)
              /\ inbox' = ClearInbox(Consume(inbox, n), n)
              /\ UNCHANGED tick
    /\ UNCHANGED <<masterVars, inc, dsk, nClient, nAdmin>>

\* Mutant: KILL that leaves the role bit set.
RecvKillKeepsPrimary(n) ==
    /\ Recv(n) /\ Msg(n).com = "KILL" /\ ~killed[n]
    /\ killed' = [killed EXCEPT ![n] = TRUE]
    /\ Finish(n, isPrimary[n], view[n], mem[n], dsk[n], Consume(inbox, n))
    /\ UNCHANGED <<masterVars, proc, inc, isPrimary, initFlag, view, waiting, nClient, nAdmin>>

\* KILL: killed, and no longer primary.
RecvKill(n) ==
    /\ Recv(n) /\ Msg(n).com = "KILL" /\ ~killed[n]
    /\ killed' = [killed EXCEPT ![n] = TRUE]
    /\ isPrimary' = [isPrimary EXCEPT ![n] = FALSE]
    /\ Finish(n, FALSE, view[n], mem[n], dsk[n], Consume(inbox, n))
    /\ UNCHANGED <<masterVars, proc, inc, initFlag, view, waiting, nClient, nAdmin>>

\* Mutant: a primary that applies commands without forwarding them.
RecvCommandNoForward(n) ==
    LET c == Msg(n) IN
    /\ Recv(n) /\ c.com \in {"PUTS", "CPUT", "DELE"} /\ ~killed[n]
    /\ Finish(n, isPrimary[n], view[n], MutateMem(mem[n], dsk[n], c), MutateDsk(mem[n], dsk[n], c),
              Consume(inbox, n))
    /\ UNCHANGED <<masterVars, proc, inc, killed, isPrimary, initFlag, view, waiting, nClient, nAdmin>>

\* PUTS, CPUT, DELE: a primary first forwards the command to the rest of
\* its view, then the engine applies it (KvEngine MutateMem/MutateDsk).
RecvCommand(n) ==
    LET c == Msg(n)
        ch == IF isPrimary[n] THEN Forward(Consume(inbox, n), n, view[n], c)
              ELSE Consume(inbox, n) IN
    /\ Recv(n) /\ c.com \in {"PUTS", "CPUT", "DELE"} /\ ~killed[n]
    /\ Finish(n, isPrimary[n], view[n], MutateMem(mem[n], dsk[n], c), MutateDsk(mem[n], dsk[n], c), ch)
    /\ UNCHANGED <<masterVars, proc, inc, killed, isPrimary, initFlag, view, waiting, nClient, nAdmin>>

\* CKPT: checkpoint(cache) reads secondary.at(0), which throws on the empty
\* vector of a node that has not read a CLUSTER yet; otherwise it forwards
\* CKPT when n heads its view, and checkpoints.
RecvCkpt(n) ==
    /\ Recv(n) /\ Msg(n).com = "CKPT" /\ ~killed[n]
    /\ IF view[n] = <<>>
         THEN /\ ProcessExitVars(n)
              /\ inbox' = ClearInbox(Consume(inbox, n), n)
              /\ UNCHANGED <<dsk, tick>>
         ELSE /\ Finish(n, isPrimary[n], view[n], mem[n], CheckpointDsk(mem[n], dsk[n]),
                        IF Head(view[n]) = n THEN Forward(Consume(inbox, n), n, view[n], CkptMsg)
                        ELSE Consume(inbox, n))
              /\ UNCHANGED <<proc, killed, isPrimary, initFlag, view, waiting>>
    /\ UNCHANGED <<masterVars, inc, nClient, nAdmin>>

\* PrimarySyncSecondary on n gets through to s: n is primary (else it
\* returns SYNC_ERROR having written nothing, and s stays blocked) and s
\* is the process that sent m, still on the connection (else the writes
\* and the read fail: SYNC_ERROR).
SyncAnswered(n, s, m) ==
    isPrimary[n] /\ m.inc = inc[s] /\ s \in Up /\ waiting[s] # None

\* SYNC from s, read on n's loop, together with the secondary's side of
\* the exchange (SecondaryRecoverFromPrimary), both blocked on each other.
\* A primary without a logging file fails in PrimarySendLogging with
\* error(), which exits the process. When answered, s decides with
\* NeedFullSync, takes the primary's WAL (and, for a full sync, every
\* file), and replays; a failed replay is error() -> exit(1) on s.
RecvSync(n) ==
    LET s == Sender(n)
        m == Msg(n)
        d2 == SyncedDsk(dsk[s], dsk[n])
        r == ReplayLoggings(d2)
        ch == Consume(inbox, n) IN
    /\ Recv(n) /\ m.com = "SYNC" /\ ~killed[n]
    /\ IF isPrimary[n] /\ ~dsk[n].hasWal
         THEN /\ ProcessExitVars(n)
              /\ inbox' = ClearInbox(ch, n)
              /\ UNCHANGED <<dsk, tick>>
       ELSE IF ~SyncAnswered(n, s, m)
         THEN /\ tick' = [tick EXCEPT ![n] = (@ + 1) % CkptPeriod]
              /\ inbox' = ch
              /\ UNCHANGED <<proc, mem, dsk, killed, isPrimary, initFlag, view, waiting>>
       ELSE IF r.ok
         THEN /\ tick' = [tick EXCEPT ![n] = (@ + 1) % CkptPeriod]
              /\ dsk' = [dsk EXCEPT ![s] = d2]
              /\ mem' = [mem EXCEPT ![s] = r.mem]
              /\ waiting' = [waiting EXCEPT ![s] = None]
              /\ proc' = [proc EXCEPT ![s] = IF waiting[s].in = "main" THEN "serving" ELSE @]
              /\ inbox' = ch
              /\ UNCHANGED <<killed, isPrimary, initFlag, view>>
         ELSE /\ tick' = [tick EXCEPT ![n] = (@ + 1) % CkptPeriod]
              /\ dsk' = [dsk EXCEPT ![s] = d2]
              /\ ProcessExitVars(s)
              /\ inbox' = ClearInbox(ch, s)
    /\ UNCHANGED <<masterVars, inc, nClient, nAdmin>>

\* A message run_command ignores: anything but CLUSTER and RESTART while
\* killed, RESTART while not killed. Only the counter (and the periodic
\* checkpoint of a primary) moves.
RecvIgnored(n) ==
    LET c == Msg(n).com IN
    /\ Recv(n)
    /\ IF killed[n] THEN c \notin {"CLUSTER", "RESTART"} ELSE c = "RESTART"
    /\ Finish(n, isPrimary[n], view[n], mem[n], dsk[n], Consume(inbox, n))
    /\ UNCHANGED <<masterVars, proc, inc, killed, isPrimary, initFlag, view, waiting, nClient, nAdmin>>

\* Mutant: the registration is recorded under the previous incarnation.
BootStaleIncarnation(n) ==
    /\ proc[n] = "down" /\ inc[n] < MaxBoots
    /\ proc' = [proc EXCEPT ![n] = "wait_init"]
    /\ inc' = [inc EXCEPT ![n] = @ + 1]
    /\ tick' = [tick EXCEPT ![n] = 1 % CkptPeriod]
    /\ reg' = reg \cup {<<n, inc[n]>>}
    /\ mconn' = mconn \cup {<<n, inc[n]>>}
    /\ UNCHANGED <<alive, bk, ent, mem, dsk, killed, isPrimary, initFlag, view, waiting,
                   inbox, nClient, nAdmin>>

\* RunServer: a new process starts its threads (handle_connect sets
\* last_checkpoint_time to 1), connects to the master and sends
\* BACKEND_INITIAL, then spins until `init`.
Boot(n) ==
    /\ proc[n] = "down" /\ inc[n] < MaxBoots
    /\ proc' = [proc EXCEPT ![n] = "wait_init"]
    /\ inc' = [inc EXCEPT ![n] = @ + 1]
    /\ tick' = [tick EXCEPT ![n] = 1 % CkptPeriod]
    /\ reg' = reg \cup {<<n, inc[n] + 1>>}
    /\ mconn' = mconn \cup {<<n, inc[n] + 1>>}
    /\ UNCHANGED <<alive, bk, ent, mem, dsk, killed, isPrimary, initFlag, view, waiting,
                   inbox, nClient, nAdmin>>

\* backend_initial has returned: the master has read this process's
\* BACKEND_INITIAL and answered it.
Registered(n) == <<n, inc[n]>> \notin reg

\* RunServer once backend_initial returned and `init` is set, as primary:
\* InitCacheForPrimary, error() when it fails.
InitPrimary(n) ==
    LET r == InitCacheForPrimary(mem[n], dsk[n]) IN
    /\ proc[n] = "wait_init" /\ Registered(n) /\ initFlag[n] /\ isPrimary[n]
    /\ IF r.ok
         THEN /\ proc' = [proc EXCEPT ![n] = "serving"]
              /\ mem' = [mem EXCEPT ![n] = r.mem]
              /\ dsk' = [dsk EXCEPT ![n] = r.dsk]
              /\ UNCHANGED <<killed, isPrimary, initFlag, view, waiting, inbox>>
         ELSE /\ ProcessExitVars(n)
              /\ inbox' = ClearInbox(inbox, n)
              /\ UNCHANGED dsk
    /\ UNCHANGED <<masterVars, inc, tick, nClient, nAdmin>>

\* RunServer once backend_initial returned and `init` is set, as
\* secondary: connect to secondary.at(0) (error() if it is down), send SYNC
\* and wait in SecondaryRecoverFromPrimary while the event loop runs on.
StartSync(n) ==
    LET p == Head(view[n]) IN
    /\ proc[n] = "wait_init" /\ Registered(n) /\ initFlag[n] /\ ~isPrimary[n]
    /\ IF p \in Up
         THEN /\ proc' = [proc EXCEPT ![n] = "syncing"]
              /\ waiting' = [waiting EXCEPT ![n] = [peer |-> p, pinc |-> inc[p], in |-> "main"]]
              /\ inbox' = [inbox EXCEPT ![p] = Append(@, [from |-> n, msg |-> SyncMsg(inc[n])])]
              /\ UNCHANGED <<mem, killed, isPrimary, initFlag, view>>
         ELSE /\ ProcessExitVars(n)
              /\ inbox' = ClearInbox(inbox, n)
    /\ UNCHANGED <<masterVars, inc, dsk, tick, nClient, nAdmin>>

\* The peer of a blocked sync exchange is gone: the read fails, the sync
\* returns SYNC_ERROR and the node calls error().
SyncPeerLost(n) ==
    /\ waiting[n] # None
    /\ waiting[n].peer \notin Up \/ inc[waiting[n].peer] # waiting[n].pinc
    /\ ProcessExitVars(n)
    /\ inbox' = ClearInbox(inbox, n)
    /\ UNCHANGED <<masterVars, inc, dsk, tick, nClient, nAdmin>>

\* The process is killed from outside (Ctrl-C) at any point.
Crash(n) ==
    /\ Crashes /\ proc[n] # "down"
    /\ ProcessExitVars(n)
    /\ inbox' = ClearInbox(inbox, n)
    /\ UNCHANGED <<masterVars, inc, dsk, tick, nClient, nAdmin>>

(***************************************************************************)
(* Master (monitor.h) and clients                                          *)
(***************************************************************************)

\* BACKEND_INITIAL on connection i of n (set_backend_fd): backends[n]
\* takes the fd and ALIVE; only if n's entry is in dead_backends does it
\* move to the end of alive_backends, with a CLUSTER broadcast.
SetBackendFd(n, i) ==
    /\ <<n, i>> \in reg
    /\ reg' = reg \ {<<n, i>>}
    /\ bk' = [bk EXCEPT ![n] = [st |-> "ALIVE", fd |-> i]]
    /\ IF n \notin Range(alive)
         THEN /\ ent' = [ent EXCEPT ![n] = [st |-> "ALIVE", fd |-> i]]
              /\ alive' = Append(alive, n)
              /\ inbox' = Broadcast(inbox, Append(alive, n))
         ELSE UNCHANGED <<ent, alive, inbox>>
    /\ UNCHANGED <<mconn, nodeVars, nClient, nAdmin>>

\* The master reads EOF on connection i of n, whose process has ended
\* (delete_backend_fd, matching by fd): backends[n] if it holds that fd;
\* the entry if it holds it, moved out of alive_backends with a broadcast.
DeleteBackendFd(n, i) ==
    /\ <<n, i>> \in mconn \ reg
    /\ proc[n] = "down" \/ inc[n] # i
    /\ mconn' = mconn \ {<<n, i>>}
    /\ bk' = IF bk[n].fd = i THEN [bk EXCEPT ![n] = [st |-> "CRASH", fd |-> 0]] ELSE bk
    /\ IF ent[n].fd = i
         THEN /\ ent' = [ent EXCEPT ![n] = [st |-> "CRASH", fd |-> 0]]
              /\ alive' = Without(alive, n)
              /\ inbox' = IF n \in Range(alive) THEN Broadcast(inbox, Without(alive, n)) ELSE inbox
         ELSE UNCHANGED <<ent, alive, inbox>>
    /\ UNCHANGED <<reg, nodeVars, nClient, nAdmin>>

\* Admin kill (kill_backend): DEAD; if n is alive it leaves alive_backends,
\* the remaining nodes get a CLUSTER, and only then n gets KILL.
KillBackend(n) ==
    /\ nAdmin < MaxAdmin
    /\ bk[n].st = "ALIVE" \/ n \in Range(alive)
    /\ nAdmin' = nAdmin + 1
    /\ bk' = IF bk[n].st = "ALIVE" THEN [bk EXCEPT ![n].st = "DEAD"] ELSE bk
    /\ IF n \in Range(alive)
         THEN /\ ent' = [ent EXCEPT ![n].st = "DEAD"]
              /\ alive' = Without(alive, n)
              /\ inbox' = Send(Broadcast(inbox, Without(alive, n)), Master, {n}, KillMsg)
         ELSE UNCHANGED <<ent, alive, inbox>>
    /\ UNCHANGED <<mconn, reg, nodeVars, nClient>>

\* Admin restart (restart_backend) of a node killed by the admin: its
\* entry goes back to the end of alive_backends, every alive node gets a
\* CLUSTER, and only then n gets RESTART.
RestartBackend(n) ==
    /\ nAdmin < MaxAdmin
    /\ bk[n].st = "DEAD" \/ (n \notin Range(alive) /\ ent[n].st = "DEAD")
    /\ nAdmin' = nAdmin + 1
    /\ bk' = IF bk[n].st = "DEAD" THEN [bk EXCEPT ![n].st = "ALIVE"] ELSE bk
    /\ IF n \notin Range(alive) /\ ent[n].st = "DEAD"
         THEN /\ ent' = [ent EXCEPT ![n].st = "ALIVE"]
              /\ alive' = Append(alive, n)
              /\ inbox' = Send(Broadcast(inbox, Append(alive, n)), Master, {n}, RestartMsg)
         ELSE UNCHANGED <<ent, alive, inbox>>
    /\ UNCHANGED <<mconn, reg, nodeVars, nClient>>

\* A frontend asks the master for the user's primary (get_primary: the
\* first alive backend) and sends the command there; the connection fails
\* if that process is down.
ClientRequest ==
    /\ nClient < Len(ClientCmds)
    /\ alive # <<>> /\ Head(alive) \in Up
    /\ nClient' = nClient + 1
    /\ inbox' = Send(inbox, Client, {Head(alive)}, ClientCmds[nClient + 1])
    /\ UNCHANGED <<masterVars, nodeVars, nAdmin>>

(***************************************************************************)
(* Specification                                                           *)
(***************************************************************************)

NoFiles == [chunks |-> [k \in Keys |-> None], dir |-> FALSE, wal |-> <<>>, hasWal |-> FALSE]

\* A fresh deployment: initialize_backend put every backend in
\* dead_backends (state CRASH, fd -1); no process runs, no file exists.
FreshInit ==
    /\ alive = <<>>
    /\ bk = [n \in Nodes |-> [st |-> "CRASH", fd |-> 0]]
    /\ ent = [n \in Nodes |-> [st |-> "CRASH", fd |-> 0]]
    /\ mconn = {} /\ reg = {}
    /\ proc = [n \in Nodes |-> "down"]
    /\ inc = [n \in Nodes |-> 0]
    /\ mem = [n \in Nodes |-> FreshMem]
    /\ dsk = [n \in Nodes |-> NoFiles]
    /\ killed = [n \in Nodes |-> FALSE]
    /\ isPrimary = [n \in Nodes |-> FALSE]
    /\ initFlag = [n \in Nodes |-> FALSE]
    /\ view = [n \in Nodes |-> <<>>]
    /\ tick = [n \in Nodes |-> 1 % CkptPeriod]
    /\ waiting = [n \in Nodes |-> None]
    /\ inbox = [n \in Nodes |-> <<>>]
    /\ nClient = 0 /\ nAdmin = 0

\* A running group: every node has started once, registered and read the
\* CLUSTER listing the group; the head ran InitCacheForPrimary, which
\* created a WAL holding marker 0, and every other node synced from it
\* (replay only, both checkpoint ids being 0) and took that WAL. No user
\* has signed up yet. Any number of messages may have been read.
DeployedInit ==
    /\ alive \in SetToSeqs(Nodes)
    /\ bk = [n \in Nodes |-> [st |-> "ALIVE", fd |-> 1]]
    /\ ent = [n \in Nodes |-> [st |-> "ALIVE", fd |-> 1]]
    /\ mconn = Nodes \X {1} /\ reg = {}
    /\ proc = [n \in Nodes |-> "serving"]
    /\ inc = [n \in Nodes |-> 1]
    /\ mem = [n \in Nodes |-> FreshMem]
    /\ dsk = [n \in Nodes |-> [NoFiles EXCEPT !.wal = <<Marker(0)>>, !.hasWal = TRUE]]
    /\ killed = [n \in Nodes |-> FALSE]
    /\ isPrimary = [n \in Nodes |-> n = Head(alive)]
    /\ initFlag = [n \in Nodes |-> TRUE]
    /\ view = [n \in Nodes |-> alive]
    /\ tick \in [Nodes -> 0..(CkptPeriod - 1)]
    /\ waiting = [n \in Nodes |-> None]
    /\ inbox = [n \in Nodes |-> <<>>]
    /\ nClient = 0 /\ nAdmin = 0

Init == IF Deployed THEN DeployedInit ELSE FreshInit

\* Everything a node's event loop does with one message.
Loop(n) ==
    \/ RecvCluster(n) \/ RecvRestartPrimary(n) \/ RecvRestartSecondary(n)
    \/ RecvKill(n) \/ RecvCommand(n) \/ RecvCkpt(n) \/ RecvSync(n) \/ RecvIgnored(n)

\* What RunServer's main thread does.
Main(n) == InitPrimary(n) \/ StartSync(n) \/ SyncPeerLost(n)

\* What the master's event loop does.
MasterLoop == \E n \in Nodes, i \in 1..MaxBoots : SetBackendFd(n, i) \/ DeleteBackendFd(n, i)

\* One POST to the admin console (admin_handler, on the thread of
\* handle_admin_browser): a KILL or a RESTART form for node n. GET and the
\* RAW form only render pages and read the store.
AdminHandler(n) == KillBackend(n) \/ RestartBackend(n)

Next ==
    \/ \E n \in Nodes : Loop(n) \/ Main(n) \/ Boot(n) \/ Crash(n)
                        \/ AdminHandler(n)
    \/ MasterLoop
    \/ ClientRequest

\* Each thread that has work takes it: the event loops of the nodes and of
\* the master, and the main threads. Crashes, boots, admin requests and
\* clients are not forced to happen.
Fairness ==
    /\ \A n \in Nodes : WF_vars(Loop(n)) /\ WF_vars(Main(n))
    /\ WF_vars(MasterLoop)

Spec == Init /\ [][Next]_vars /\ Fairness

(***************************************************************************)
(* Properties                                                              *)
(***************************************************************************)

Msgs == Cmds \cup {KillMsg, RestartMsg, CkptMsg} \cup {SyncMsg(i) : i \in 1..MaxBoots}
          \cup [com : {"CLUSTER"}, addrs : Seq(Nodes)]
Entry == [st : {"ALIVE", "DEAD", "CRASH"}, fd : 0..MaxBoots]

TypeOK ==
    /\ alive \in Seq(Nodes) /\ bk \in [Nodes -> Entry] /\ ent \in [Nodes -> Entry]
    /\ mconn \subseteq Nodes \X (1..MaxBoots) /\ reg \subseteq mconn
    /\ proc \in [Nodes -> {"down", "wait_init", "syncing", "serving"}]
    /\ inc \in [Nodes -> 0..MaxBoots]
    /\ \A n \in Nodes :
          /\ mem[n].seq \in Nat /\ mem[n].maxSeq \in Nat
          /\ mem[n].upd \in [Keys -> Vals \cup {Empty, None}]
          /\ dsk[n].chunks \in [Keys -> Vals \cup {None}]
          /\ dsk[n].dir \in BOOLEAN /\ dsk[n].hasWal \in BOOLEAN
    /\ killed \in [Nodes -> BOOLEAN] /\ isPrimary \in [Nodes -> BOOLEAN]
    /\ initFlag \in [Nodes -> BOOLEAN]
    /\ view \in [Nodes -> Seq(Nodes)]
    /\ tick \in [Nodes -> 0..(CkptPeriod - 1)]
    /\ \A n \in Nodes : waiting[n] = None \/ waiting[n].peer \in Nodes
    /\ \A n \in Nodes : \A j \in DOMAIN inbox[n] : inbox[n][j] \in [from : Senders, msg : Msgs]
    /\ nClient \in 0..Len(ClientCmds) /\ nAdmin \in 0..MaxAdmin

\* No message is in flight, no thread waits on a sync exchange, and the
\* master has read every registration and every closed connection.
Quiescent == /\ \A n \in Nodes : inbox[n] = <<>> /\ waiting[n] = None
             /\ reg = {}
             /\ \A <<n, i>> \in mconn : proc[n] # "down" /\ inc[n] = i

\* The nodes the master lists as alive whose process serves and is not killed.
Serving == {n \in Range(alive) : proc[n] = "serving" /\ ~killed[n]}

\* Spec 8.5: when a sync exchange ends (RecvSync answers and the replay on
\* the secondary succeeds), the secondary reads what its primary reads.
SyncConverges ==
    [][\A s \in Nodes :
         (waiting[s] # None /\ waiting'[s] = None /\ proc'[s] # "down")
           => Contents(mem'[s], dsk'[s]) = Contents(mem[waiting[s].peer], dsk[waiting[s].peer])]_vars

\* Spec 8.6: once every forwarded command has been read, the nodes the
\* master lists as alive read the same contents.
ReplicasAgree ==
    Quiescent => \A n, m \in Serving : Contents(mem[n], dsk[n]) = Contents(mem[m], dsk[m])

\* Once the master's messages are read, the serving nodes share the
\* master's view and exactly its head acts as primary.
ViewsFollowMaster ==
    Quiescent => \A n \in Serving : view[n] = alive /\ (isPrimary[n] <=> n = Head(alive))

\* RunServer's main thread, once BACKEND_INITIAL is sent, eventually gets
\* past `while (!init)`: the master answers every registration with a
\* CLUSTER (set_backend_fd, delete_backend_fd).
RegisteredNodeJoins == \A n \in Nodes : proc[n] = "wait_init" ~> proc[n] # "wait_init"

\* A sync exchange (StartSync, RESTART of a secondary) eventually ends,
\* answered by PrimarySyncSecondary or broken by the loss of the peer.
SyncTerminates == \A n \in Nodes : waiting[n] # None ~> waiting[n] = None

\* Every process RunServer starts eventually serves, as long as nothing
\* kills it from outside: the start-up path (registration, CLUSTER,
\* InitCacheForPrimary or the sync from the primary) ends in the
\* heartbeat loop and never in error().
StartedNodeServes == \A n \in Nodes : proc[n] = "wait_init" ~> proc[n] = "serving"
====

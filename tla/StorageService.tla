--------------------------- MODULE StorageService ---------------------------
(***************************************************************************)
(* The frontend's storage service for one user (src/frontend/storage.h).  *)
(* The user's file tree is one metadata value under the KV key            *)
(* "storage_metadata"; the content of file i is the value under key "i".  *)
(* Every request builds a fresh StorageHandler, reads the metadata into   *)
(* its own Dirent table (directories_), edits that table and writes the   *)
(* metadata back with a CPUT from the value it read. A failed CPUT undoes *)
(* the local edit, reads the metadata again and retries.                  *)
(*                                                                         *)
(* Each frontend process serves one request at a time (one handle_connect *)
(* thread, frontend.cpp 9-45); the master sends each new connection to a  *)
(* random frontend, so two requests of one user can run on two frontends  *)
(* at once. The backend's primary applies one command at a time, so each  *)
(* call to the store (kv_gets, kv_cput, kv_puts, kv_dele) is one atomic   *)
(* step; the handler's local work between two calls belongs to the step   *)
(* of the call before it.                                                  *)
(*                                                                         *)
(* The metadata string is abstracted to what ParseMetadataFile reads from *)
(* it: the latest ID and the set of entry lines [par, name, id, file].    *)
(***************************************************************************)
EXTENDS Integers, Sequences, SequencesExt, Graphs

CONSTANTS
    Frontends,   \* the frontend processes (model values)
    Names,       \* entry names a request may use (model values)
    Ops,         \* the request types clients send
    MaxReq,      \* bound on requests started
    MaxAttempt,  \* kMaxAttempt (storage.h 14), smaller in the model
    MaxKvFail,   \* bound on calls that lose their connection
    Crashes      \* TRUE: a frontend process may be killed mid-request

ASSUME /\ Ops \subseteq {"upload", "mkdir", "delete", "rename", "move"}
       /\ MaxReq \in Nat /\ MaxAttempt \in Nat \ {0} /\ MaxKvFail \in Nat
       /\ Crashes \in BOOLEAN

Root == 1                     \* the root folder's ID in initialize_usr
NoId == 0                     \* a null Dirent pointer
Ids == 1 .. (MaxReq + 1)      \* every creation takes the next ID
UsrName == "usr"              \* the root folder is named after the user
NameSeq == SetToSeq(Names)    \* one fixed iteration order of a directory

\* Request paths below the user's root folder, at most two levels deep.
Paths == {<<n>> : n \in Names} \cup {<<n, m>> : n \in Names, m \in Names}

\* Dirent (storage.h 32-89): relative_path_, is_file_, parent_, entries_.
NoEntries == [n \in Names |-> NoId]
Dirent == [name : Names \cup {UsrName}, file : BOOLEAN,
           par : Ids \cup {NoId}, ent : [Names -> Ids \cup {NoId}]]
RootDirent == [name |-> UsrName, file |-> FALSE, par |-> NoId, ent |-> NoEntries]

\* The content of the metadata value: one line per entry of every folder
\* GetMetadataStr visits, and the Latest ID line.
Entry == [par : Ids, name : Names, id : Ids, file : BOOLEAN]
Meta == [latest : Ids, edges : SUBSET Entry]
InitialMetadata == [latest |-> 1, edges |-> {}]

Requests ==
    [op : {"upload", "mkdir"} \cap Ops, path : Paths]
    \cup [op : {"delete"} \cap Ops, path : Paths]
    \cup [op : {"rename"} \cap Ops, path : Paths, new : Names]
    \cup [op : {"move"} \cap Ops, path : Paths, dest : Paths \cup {<<>>}]
NoReq == [op |-> "none"]

\* A HandleDelete call in progress: its arguments, where it is, the
\* pointers ValidatePathAndGetDir gave it and the child paths left to delete.
Frame == [path : Paths, att : -1 .. MaxAttempt, exp : BOOLEAN,
          stage : {"enter", "kids", "file", "remove", "failed"},
          par : Ids \cup {NoId}, cur : Ids \cup {NoId}, rel : Names \cup {UsrName},
          kids : Seq(Paths)]
NewFrame(p, a, x) == [path |-> p, att |-> a, exp |-> x, stage |-> "enter",
                      par |-> NoId, cur |-> NoId, rel |-> UsrName, kids |-> <<>>]

\* The StorageHandler of the request a frontend serves, and where it is:
\* idle, or waiting for the result of the next call to the store.
\*   cput: WriteMetadataToKv   reload: ReadMetadata after a failed CPUT
\*   puts: the uploaded content   upreload: ReadMetadata after a failed puts
\*   dele: the content of the file HandleDelete removes
Pcs == {"idle", "cput", "reload", "puts", "upreload", "dele"}
Idle == [pc |-> "idle", req |-> NoReq, att |-> 0, live |-> {},
         dt |-> [i \in Ids |-> RootDirent], lat |-> 0, mstr |-> InitialMetadata,
         undo |-> [id |-> NoId], stack |-> <<>>, up |-> TRUE]
----------------------------------------------------------------------------
(***************************************************************************)
(* The handler's Dirent table (pure operators).                           *)
(***************************************************************************)

\* ValidatePathAndGetDir: walk the path from root_ through entries_. The
\* walk fails with a null parent when a folder on the way is missing, and
\* with the last folder as parent when only the last name is missing.
Validate(dt, p) ==
    IF p = <<>> THEN [ok |-> TRUE, par |-> Root, dir |-> Root, rel |-> UsrName]
    ELSE LET walk[i \in 0 .. Len(p) - 1] ==
                 IF i = 0 THEN Root
                 ELSE IF walk[i - 1] = NoId THEN NoId
                 ELSE dt[walk[i - 1]].ent[p[i]]
             pd == walk[Len(p) - 1]
         IN IF pd = NoId
            THEN [ok |-> FALSE, par |-> NoId, dir |-> NoId, rel |-> Last(p)]
            ELSE [ok |-> dt[pd].ent[Last(p)] # NoId, par |-> pd,
                  dir |-> dt[pd].ent[Last(p)], rel |-> Last(p)]

\* Dirent::Path below the root folder, as HandleDelete strips it: follow
\* parent_ up to the root. A parent_ cycle recurses until the stack
\* overflows (Overflow).
Overflow == <<UsrName>>
RECURSIVE PathOf(_, _, _)
PathOf(dt, i, fuel) ==
    IF i = Root THEN <<>>
    ELSE IF fuel = 0 THEN Overflow
    ELSE LET up == PathOf(dt, dt[i].par, fuel - 1)
         IN IF up = Overflow THEN Overflow ELSE Append(up, dt[i].name)

\* The paths of a folder's entries, in the order HandleDelete lists them.
KidPaths(dt, d) ==
    LET named == SelectSeq(NameSeq, LAMBDA n : dt[d].ent[n] # NoId)
    IN [k \in 1 .. Len(named) |-> PathOf(dt, dt[d].ent[named[k]], Cardinality(Ids))]

\* GetMetadataStr: a breadth-first walk from root_ that enters the entries
\* of type D. It never marks a folder visited, so a folder cycle reachable
\* from the root makes it loop (Loops).
FolderGraph(dt) ==
    [node |-> Ids,
     edge |-> {<<p, c>> \in Ids \X Ids :
                 \E n \in Names : dt[p].ent[n] = c /\ ~dt[c].file}]
Visited(dt) == {d \in Ids : ConnectionsIn(FolderGraph(dt))[Root, d]}
Loops(dt) ==
    LET g == FolderGraph(dt)
    IN \E d \in Visited(dt), c \in Ids :
          <<d, c>> \in g.edge /\ ConnectionsIn(g)[c, d]
Serialize(h) ==
    [latest |-> h.lat,
     edges |-> UNION {{[par |-> p, name |-> n, id |-> h.dt[p].ent[n],
                        file |-> h.dt[h.dt[p].ent[n]].file] :
                          n \in {m \in Names : h.dt[p].ent[m] # NoId}} :
                        p \in Visited(h.dt)}]

\* ReadMetadata / ParseMetadataFile into the handler's directories_:
\* FindOrCreateDirMapping keeps a Dirent it already has (its name, type
\* and entries), AddEntry adds or overwrites a parsed entry, UpdateParent
\* sets the parent. Entries the metadata no longer lists stay.
EdgeTo(m, i) == CHOOSE e \in m.edges : e.id = i
Merge(h, m) ==
    LET ids == h.live \cup {Root} \cup {e.id : e \in m.edges}
        Made(i) == IF i = Root THEN RootDirent
                   ELSE [name |-> EdgeTo(m, i).name, file |-> EdgeTo(m, i).file,
                         par |-> NoId, ent |-> NoEntries]
        base == [i \in Ids |-> IF i \in ids \ h.live THEN Made(i) ELSE h.dt[i]]
        Lists(i, n) == \E e \in m.edges : e.par = i /\ e.name = n
    IN [h EXCEPT
          !.live = ids, !.lat = m.latest, !.mstr = m,
          !.dt = [i \in Ids |->
                   [base[i] EXCEPT
                      !.ent = [n \in Names |->
                                 IF Lists(i, n)
                                 THEN (CHOOSE e \in m.edges : e.par = i /\ e.name = n).id
                                 ELSE base[i].ent[n]],
                      !.par = IF \E e \in m.edges : e.id = i THEN EdgeTo(m, i).par
                              ELSE base[i].par]]]
----------------------------------------------------------------------------
(***************************************************************************)
(* The handlers' local work between two calls to the store.               *)
(***************************************************************************)

\* Mutant: the new entry takes latest_id_ + 1 but latest_id_ is not incremented.
CreateNoIncrement(h) ==
    LET v == Validate(h.dt, h.req.path)
        id == h.lat + 1
    IN IF v.ok \/ v.par = NoId THEN Idle
       ELSE [h EXCEPT
               !.dt = [@ EXCEPT ![id] = [name |-> v.rel, file |-> h.req.op = "upload",
                                         par |-> v.par, ent |-> NoEntries],
                                ![v.par].ent[v.rel] = id],
               !.live = @ \cup {id},
               !.undo = [id |-> id, par |-> v.par, rel |-> v.rel], !.pc = "cput"]

\* HandleCreationAndQuery for FILE_UPLOAD and DIR_CREATE: the path must be
\* new and its parent found; the entry takes ID latest_id_ + 1, is added
\* under the parent and latest_id_ is incremented before the CPUT.
Create(h) ==
    LET v == Validate(h.dt, h.req.path)
        id == h.lat + 1
    IN IF v.ok \/ v.par = NoId THEN Idle
       ELSE [h EXCEPT
               !.dt = [@ EXCEPT ![id] = [name |-> v.rel, file |-> h.req.op = "upload",
                                         par |-> v.par, ent |-> NoEntries],
                                ![v.par].ent[v.rel] = id],
               !.live = @ \cup {id}, !.lat = id,
               !.undo = [id |-> id, par |-> v.par, rel |-> v.rel], !.pc = "cput"]
UndoCreate(h) ==
    [h EXCEPT !.dt[h.undo.par].ent[h.undo.rel] = NoId,
              !.live = @ \ {h.undo.id}, !.lat = @ - 1]

\* HandleRename: rename the Dirent, drop its old name from the parent and
\* add the new one (AddEntry overwrites an entry already of that name).
Rename(h) ==
    LET v == Validate(h.dt, h.req.path)
        d1 == [h.dt EXCEPT ![v.dir].name = h.req.new]
        d2 == [d1 EXCEPT ![v.par].ent[v.rel] = NoId]
    IN IF ~v.ok THEN Idle
       ELSE [h EXCEPT !.dt = [d2 EXCEPT ![v.par].ent[h.req.new] = v.dir],
                      !.undo = [id |-> v.dir, par |-> v.par, rel |-> v.rel],
                      !.pc = "cput"]
UndoRename(h) ==
    LET u == h.undo
        d1 == [h.dt EXCEPT ![u.id].name = u.rel]
        d2 == [d1 EXCEPT ![u.par].ent[h.req.new] = NoId]
    IN [h EXCEPT !.dt = [d2 EXCEPT ![u.par].ent[u.rel] = u.id]]

\* HandleMove: re-parent the entry under the Dirent the new path names,
\* whatever that Dirent is.
Move(h) ==
    LET v == Validate(h.dt, h.req.path)
        w == Validate(h.dt, h.req.dest)
        d1 == [h.dt EXCEPT ![v.dir].par = w.dir]
        d2 == [d1 EXCEPT ![v.par].ent[v.rel] = NoId]
    IN IF ~v.ok \/ ~w.ok THEN Idle
       ELSE [h EXCEPT !.dt = [d2 EXCEPT ![w.dir].ent[v.rel] = v.dir],
                      !.undo = [id |-> v.dir, par |-> v.par, rel |-> v.rel, dest |-> w.dir],
                      !.pc = "cput"]
UndoMove(h) ==
    LET u == h.undo
        d1 == [h.dt EXCEPT ![u.id].par = u.par]
        d2 == [d1 EXCEPT ![u.par].ent[u.rel] = u.id]
    IN [h EXCEPT !.dt = [d2 EXCEPT ![u.dest].ent[u.rel] = NoId]]

\* MaxAttempReached, then the request's edit.
Attempt(h) ==
    IF h.att < 0 THEN Idle
    ELSE CASE h.req.op \in {"upload", "mkdir"} -> Create(h)
           [] h.req.op = "rename" -> Rename(h)
           [] h.req.op = "move"   -> Move(h)

\* HandleDelete as a stack of calls: Top is the running one.
Top(h) == Last(h.stack)
SetTop(h, fr) == [h EXCEPT !.stack = [@ EXCEPT ![Len(@)] = fr]]
\* A call returns; a failed one makes its caller return too.
Return(h, ok) ==
    LET rest == SubSeq(h.stack, 1, Len(h.stack) - 1)
    IN IF rest = <<>> THEN [h EXCEPT !.stack = <<>>]
       ELSE [h EXCEPT !.stack = IF ok THEN rest
                                ELSE [rest EXCEPT ![Len(rest)].stage = "failed"]]

\* Run the delete calls until the next call to the store. enter:
\* MaxAttempReached and ValidatePathAndGetDir, then list a non-empty
\* folder's children; kids: HandleDelete(child, 0) for each; file: a file
\* is removed from the store first; remove: drop the entry and CPUT.
RECURSIVE RunDel(_, _)
RunDel(h, fuel) ==
    IF h.stack = <<>> \/ fuel = 0 THEN Idle
    ELSE LET fr == Top(h) IN
    CASE fr.stage = "failed" -> RunDel(Return(h, FALSE), fuel - 1)
      [] fr.stage = "enter" ->
           LET v == Validate(h.dt, fr.path)
               ks == KidPaths(h.dt, v.dir)
               at == [fr EXCEPT !.par = v.par, !.cur = v.dir, !.rel = v.rel]
           IN IF fr.att < 0 \/ ~v.ok THEN RunDel(Return(h, FALSE), fuel - 1)
              ELSE IF h.dt[v.dir].file \/ ks = <<>>
              THEN RunDel(SetTop(h, [at EXCEPT !.stage = "file"]), fuel - 1)
              ELSE IF \E k \in 1 .. Len(ks) : ks[k] = Overflow THEN Idle
              ELSE RunDel(SetTop(h, [at EXCEPT !.stage = "kids", !.kids = ks]), fuel - 1)
      [] fr.stage = "kids" ->
           IF fr.kids = <<>>
           THEN RunDel(SetTop(h, [fr EXCEPT !.stage = "file"]), fuel - 1)
           ELSE LET h1 == SetTop(h, [fr EXCEPT !.kids = Tail(fr.kids)])
                IN RunDel([h1 EXCEPT !.stack = Append(@, NewFrame(Head(fr.kids), 0, fr.exp))],
                          fuel - 1)
      [] fr.stage = "file" ->
           IF h.dt[fr.cur].file THEN [h EXCEPT !.pc = "dele"]
           ELSE RunDel(SetTop(h, [fr EXCEPT !.stage = "remove"]), fuel - 1)
      [] fr.stage = "remove" ->
           [h EXCEPT !.dt[fr.par].ent[fr.rel] = NoId, !.live = @ \ {fr.cur},
                     !.pc = "cput"]
UndoDelete(h) ==
    [h EXCEPT !.dt[Top(h).par].ent[Top(h).rel] = Top(h).cur, !.live = @ \cup {Top(h).cur}]
Fuel == 8 * Cardinality(Ids)
Continue(h) == IF h.stack = <<>> THEN Attempt(h) ELSE RunDel(h, Fuel)
----------------------------------------------------------------------------
VARIABLES
    meta,      \* the value under "storage_metadata"
    content,   \* the IDs whose key holds the uploaded content
    fe,        \* fe[f]: the handler frontend f runs, or Idle
    nReq,      \* requests started so far
    nFail      \* calls that failed so far

vars == <<meta, content, fe, nReq, nFail>>

TypeOK ==
    /\ meta \in Meta
    /\ content \subseteq Ids
    /\ \A f \in Frontends :
         LET h == fe[f] IN
         /\ h.pc \in Pcs /\ h.live \subseteq Ids /\ h.dt \in [Ids -> Dirent]
         /\ h.lat \in 0 .. MaxReq + 1 /\ h.mstr \in Meta /\ h.up \in BOOLEAN
         /\ h.att \in -1 .. MaxAttempt /\ h.stack \in Seq(Frame)
    /\ nReq \in 0 .. MaxReq /\ nFail \in 0 .. MaxKvFail

\* initialize_usr (reply.h 17-39) wrote the first metadata at sign-up.
Init ==
    /\ meta = InitialMetadata
    /\ content = {}
    /\ fe = [f \in Frontends |-> Idle]
    /\ nReq = 0
    /\ nFail = 0

\* A call fails: on a live connection either the backend answers an error
\* or the connection breaks (counted by nFail); once broken, every later
\* call of the request fails at once. lost: the connection broke.
CallFails(f, lost) ==
    \/ /\ ~fe[f].up /\ lost /\ UNCHANGED nFail
    \/ /\ fe[f].up /\ nFail < MaxKvFail /\ nFail' = nFail + 1

\* The result of WriteMetadataToKv for the handler of the running request.
Committed(h) ==
    LET h1 == [h EXCEPT !.mstr = Serialize(h)] IN
    IF h.stack # <<>> THEN RunDel(Return(h1, TRUE), Fuel)
    ELSE IF h.req.op = "upload" THEN [h1 EXCEPT !.pc = "puts"]
    ELSE Idle
Undo(h) ==
    IF h.stack # <<>> THEN UndoDelete(h)
    ELSE CASE h.req.op \in {"upload", "mkdir"} -> UndoCreate(h)
           [] h.req.op = "rename" -> UndoRename(h)
           [] h.req.op = "move"   -> UndoMove(h)
\* After ReadMetadata succeeded: call the handler again with one attempt
\* less; HandleDelete retries expecting the content to be gone already.
Retry(h) ==
    IF h.stack # <<>>
    THEN RunDel(SetTop(h, NewFrame(Top(h).path, Top(h).att - 1, TRUE)), Fuel)
    ELSE Attempt([h EXCEPT !.att = @ - 1])

\* A request arrives: the interface function builds the handler,
\* InitializeHandler reads the metadata, HandleRequest runs to its first
\* call to the store.
Start(f) ==
    /\ fe[f].pc = "idle" /\ nReq < MaxReq
    /\ nReq' = nReq + 1
    /\ \E r \in Requests :
         LET h == [Idle EXCEPT !.req = r, !.att = MaxAttempt,
                    !.stack = IF r.op = "delete"
                              THEN <<NewFrame(r.path, MaxAttempt, FALSE)>> ELSE <<>>]
         IN fe' = [fe EXCEPT ![f] = Continue(Merge(h, meta))]
    /\ UNCHANGED <<meta, content, nFail>>

\* InitializeHandler fails: the request is answered FAIL.
StartFails(f) ==
    /\ fe[f].pc = "idle" /\ nReq < MaxReq
    /\ nReq' = nReq + 1
    /\ CallFails(f, TRUE)
    /\ UNCHANGED <<meta, content, fe>>

\* GetMetadataStr never returns on a folder cycle reachable from the root:
\* the stringstream grows until the allocation fails and the process ends.
CputHang(f) ==
    /\ fe[f].pc = "cput" /\ Loops(fe[f].dt)
    /\ fe' = [fe EXCEPT ![f] = Idle]
    /\ UNCHANGED <<meta, content, nReq, nFail>>

\* Mutant: a store that writes the metadata without comparing it (a PUTS).
CputOkBlind(f) ==
    /\ fe[f].pc = "cput" /\ ~Loops(fe[f].dt) /\ fe[f].up
    /\ meta' = Serialize(fe[f])
    /\ fe' = [fe EXCEPT ![f] = Committed(fe[f])]
    /\ UNCHANGED <<content, nReq, nFail>>

\* kv_cput(metadata_str_, new metadata) succeeds.
CputOk(f) ==
    /\ fe[f].pc = "cput" /\ ~Loops(fe[f].dt) /\ fe[f].up
    /\ meta = fe[f].mstr
    /\ meta' = Serialize(fe[f])
    /\ fe' = [fe EXCEPT ![f] = Committed(fe[f])]
    /\ UNCHANGED <<content, nReq, nFail>>

\* The CPUT fails: the metadata changed since it was read, the backend
\* answered an error, or the connection broke (after the backend may have
\* applied it). The handler undoes its edit and reads the metadata again.
CputFails(f) ==
    /\ fe[f].pc = "cput" /\ ~Loops(fe[f].dt)
    /\ \E lost \in BOOLEAN :
         /\ \/ fe[f].up /\ meta # fe[f].mstr /\ ~lost /\ UNCHANGED <<meta, nFail>>
            \/ CallFails(f, lost) /\ ~lost /\ UNCHANGED meta
            \/ CallFails(f, lost) /\ lost
               /\ \/ UNCHANGED meta
                  \/ fe[f].up /\ meta = fe[f].mstr /\ meta' = Serialize(fe[f])
         /\ fe' = [fe EXCEPT ![f] = [Undo(fe[f]) EXCEPT !.pc = "reload",
                                                    !.up = @ /\ ~lost]]
    /\ UNCHANGED <<content, nReq>>

\* ReadMetadata after a failed CPUT, and the retry.
Reload(f) ==
    /\ fe[f].pc = "reload" /\ fe[f].up
    /\ fe' = [fe EXCEPT ![f] = Retry(Merge(fe[f], meta))]
    /\ UNCHANGED <<meta, content, nReq, nFail>>

\* ReadMetadata fails: the request returns (HandleDelete answers FAIL and
\* so do the calls that wait for it).
ReloadFails(f) ==
    /\ fe[f].pc \in {"reload", "upreload"}
    /\ \E lost \in BOOLEAN : CallFails(f, lost)
    /\ fe' = [fe EXCEPT ![f] = Idle]
    /\ UNCHANGED <<meta, content, nReq>>

\* Mutant: the content is stored under the next ID, not the new entry's.
PutsNextId(f) ==
    /\ fe[f].pc = "puts" /\ fe[f].up
    /\ content' = content \cup {fe[f].undo.id + 1}
    /\ fe' = [fe EXCEPT ![f] = Idle]
    /\ UNCHANGED <<meta, nReq, nFail>>

\* kv_puts of the uploaded content under the new entry's ID.
Puts(f) ==
    /\ fe[f].pc = "puts" /\ fe[f].up
    /\ content' = content \cup {fe[f].undo.id}
    /\ fe' = [fe EXCEPT ![f] = Idle]
    /\ UNCHANGED <<meta, nReq, nFail>>

\* kv_puts fails (the content may be stored if the connection broke after
\* the backend applied it): read the metadata and delete the new entry.
PutsFails(f) ==
    /\ fe[f].pc = "puts"
    /\ \E lost \in BOOLEAN :
         /\ CallFails(f, lost)
         /\ content' \in IF lost /\ fe[f].up THEN {content, content \cup {fe[f].undo.id}}
                     ELSE {content}
         /\ fe' = [fe EXCEPT ![f].pc = "upreload", ![f].up = @ /\ ~lost]
    /\ UNCHANGED <<meta, nReq>>

\* The upload's ReadMetadata succeeded: HandleDelete(path, 1, TRUE).
UpReload(f) ==
    /\ fe[f].pc = "upreload" /\ fe[f].up
    /\ LET h == Merge(fe[f], meta)
       IN fe' = [fe EXCEPT ![f] = RunDel([h EXCEPT !.stack = <<NewFrame(h.req.path, 1, TRUE)>>],
                                         Fuel)]
    /\ UNCHANGED <<meta, content, nReq, nFail>>

\* kv_dele of the file's content, before its entry leaves the metadata.
Dele(f) ==
    /\ fe[f].pc = "dele" /\ fe[f].up
    /\ content' = content \ {Top(fe[f]).cur}
    /\ fe' = [fe EXCEPT ![f] = RunDel(SetTop(fe[f], [Top(fe[f]) EXCEPT !.stage = "remove"]),
                                      Fuel)]
    /\ UNCHANGED <<meta, nReq, nFail>>

\* kv_dele fails: HandleDelete answers FAIL unless it expects the failure.
DeleFails(f) ==
    LET h == fe[f] IN
    /\ h.pc = "dele"
    /\ \E lost \in BOOLEAN :
         /\ CallFails(f, lost)
         /\ content' \in IF lost /\ h.up THEN {content, content \ {Top(h).cur}} ELSE {content}
         /\ LET h1 == [h EXCEPT !.up = @ /\ ~lost]
            IN fe' = [fe EXCEPT ![f] =
                        IF Top(h).exp
                        THEN RunDel(SetTop(h1, [Top(h) EXCEPT !.stage = "remove"]), Fuel)
                        ELSE RunDel(Return(h1, FALSE), Fuel)]
    /\ UNCHANGED <<meta, nReq>>

\* Writing to a connection the backend has closed raises SIGPIPE, which
\* no frontend code ignores: the process ends.
Sigpipe(f) ==
    /\ fe[f].pc # "idle" /\ ~fe[f].up
    /\ fe' = [fe EXCEPT ![f] = Idle]
    /\ UNCHANGED <<meta, content, nReq, nFail>>

\* The frontend process is killed; a new one serves later requests.
Crash(f) ==
    /\ Crashes /\ fe[f].pc # "idle"
    /\ fe' = [fe EXCEPT ![f] = Idle]
    /\ UNCHANGED <<meta, content, nReq, nFail>>

\* Every request has been served.
Finished ==
    /\ nReq = MaxReq /\ \A f \in Frontends : fe[f].pc = "idle"
    /\ UNCHANGED vars

Next ==
    \/ \E f \in Frontends :
         \/ Start(f) \/ StartFails(f)
         \/ CputHang(f) \/ CputOk(f) \/ CputFails(f)
         \/ Reload(f) \/ ReloadFails(f)
         \/ Puts(f) \/ PutsFails(f) \/ UpReload(f)
         \/ Dele(f) \/ DeleFails(f)
         \/ Sigpipe(f) \/ Crash(f)
    \/ Finished

Spec == Init /\ [][Next]_vars
----------------------------------------------------------------------------
(***************************************************************************)
(* Properties.                                                             *)
(***************************************************************************)

\* HandleCreationAndQuery gives a new entry the ID latest_id_ + 1 and
\* increments latest_id_ in the same metadata write; kv_puts stores content
\* only under the ID of an entry already written. So every ID the stored
\* metadata lists, and every content key, is at most its Latest ID.
StoredIdsAllocated ==
    /\ \A e \in meta.edges : e.id <= meta.latest
    /\ \A i \in content : i <= meta.latest

\* The metadata is only replaced by a CPUT from the value the handler read,
\* so its Latest ID never goes back, whatever the interleaving of handlers.
LatestNeverDecreases == [][meta'.latest >= meta.latest]_meta

\* The entries a metadata write adds or removes.
ChangeOf(m1, m2) == (m1.edges \ m2.edges) \cup (m2.edges \ m1.edges)
\* The Dirent the request's running call creates, renames, moves or deletes.
TargetOf(h) == IF h.stack # <<>> THEN Top(h).cur ELSE h.undo.id

\* Every metadata write of a request changes only the entry the request
\* names: HandleCreationAndQuery, HandleRename, HandleMove and HandleDelete
\* each edit one Dirent of the metadata they have just read.
StoredChangeIsRequested ==
    [][\A f \in Frontends :
         CputOk(f) => \A e \in ChangeOf(meta, meta') : e.id = TargetOf(fe[f])]_vars

\* A file entry the metadata lists whose content is not in the store.
Ghost(i) == (\E e \in meta.edges : e.id = i /\ e.file) /\ i \notin content
\* A request between the two writes of its file: an upload that has
\* written the entry and not yet the content, or a delete that has removed
\* the content and not yet the entry.
InFlight(i) ==
    \E f \in Frontends :
       \/ fe[f].pc \in {"puts", "upreload"} /\ fe[f].undo.id = i
       \/ fe[f].stack # <<>> /\ \E k \in 1 .. Len(fe[f].stack) : fe[f].stack[k].cur = i

\* Every file the metadata lists can be downloaded (HandleFileDownload gets
\* the content under its ID), except while the request writing it is
\* between its metadata write and its content write.
NoGhostFile == \A i \in Ids : Ghost(i) => InFlight(i)
====

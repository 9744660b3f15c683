------------------------------ MODULE Mailbox ------------------------------
(***************************************************************************)
(* The SMTP server (src/email/smtp.cpp, server.h) and the mailbox it       *)
(* writes (src/email/mbox.h). Every accepted connection gets its own       *)
(* detached thread running smtp_worker, so sessions run concurrently. A    *)
(* session walks the command states Init, From, To, Data; on "." it writes *)
(* the mail into the mailbox of every recipient in turn. A mailbox is one  *)
(* KV value, "mbox" of the recipient's row; MBox::write appends the mail   *)
(* to the text MBox::init read and stores it with a CPUT, and on a failed  *)
(* CPUT reads the mailbox again and retries.                               *)
(*                                                                         *)
(* The backend applies one call at a time, so each call (GETS, CPUT) is    *)
(* one step. A mailbox's text is abstracted to the sequence of mails it    *)
(* holds, each with the id line parse_mails reads back and the identity of *)
(* the transaction that sent it; HELO, NOOP, unknown commands and replies  *)
(* out of sequence change no state and are left out.                       *)
(***************************************************************************)
EXTENDS Integers, Sequences, FiniteSetsExt

CONSTANTS
    Sessions,    \* SMTP connections served at the same time (model values)
    Users,       \* local recipients, each signed up (model values)
    MaxTxn,      \* bound on mail transactions per session
    MaxRcpt,     \* bound on RCPT TO commands per transaction
    MaxKvFail    \* bound on calls whose connection breaks

ASSUME /\ MaxTxn \in Nat \ {0} /\ MaxRcpt \in Nat \ {0} /\ MaxKvFail \in Nat

\* A mail is told apart by the transaction that sent it.
MailIds == Sessions \X (1 .. MaxTxn)
MaxMails == Cardinality(Sessions) * MaxTxn * MaxRcpt
\* One mail of an mbox text: its header, the id line, the body.
MailRec == [id : 1 .. MaxMails + 1, mail : MailIds]

\* parse_mails: current_id is the largest id line of the text, 0 if none.
CurrentId(text) == Max({0} \cup {text[i].id : i \in DOMAIN text})

\* The smtp_worker of a session: its command state, the recipients of the
\* open transaction, and during the delivery loop (pc # "cmd") the
\* recipient it is at, the mbox text MBox holds, the id given to the mail
\* and whether the connection to the backend still works.
States == {"Init", "From", "To", "Data", "Closed"}
Pcs == {"cmd", "open", "cput", "reload", "stalled"}
Worker == [st |-> "Init", rcpts |-> <<>>, txn |-> 0, pc |-> "cmd",
           k |-> 0, text |-> <<>>, mid |-> 0, up |-> TRUE]
----------------------------------------------------------------------------
VARIABLES
    mbox,     \* mbox[u]: the mails stored under (u, "mbox")
    sm,       \* sm[s]: the smtp_worker thread of session s
    master,   \* master_fd, the one connection to the master all threads share
    nFail     \* calls that broke their connection so far

vars == <<mbox, sm, master, nFail>>

TypeOK ==
    /\ mbox \in [Users -> Seq(MailRec)]
    /\ \A s \in Sessions :
         /\ sm[s].st \in States /\ sm[s].pc \in Pcs
         /\ sm[s].rcpts \in Seq(Users) /\ Len(sm[s].rcpts) <= MaxRcpt
         /\ sm[s].k \in IF sm[s].pc = "cmd" THEN {0} ELSE 1 .. Len(sm[s].rcpts)
         /\ sm[s].txn \in 0 .. MaxTxn /\ sm[s].text \in Seq(MailRec)
         /\ sm[s].mid \in 0 .. MaxMails + 1 /\ sm[s].up \in BOOLEAN
    /\ master \in BOOLEAN /\ nFail \in 0 .. MaxKvFail

\* Every session starts with the 220 greeting; no mbox holds a mail yet.
Init ==
    /\ mbox = [u \in Users |-> <<>>]
    /\ sm = [s \in Sessions |-> Worker]
    /\ master = TRUE
    /\ nFail = 0

Mine(s) == <<s, sm[s].txn + 1>>     \* the mail the session is delivering
Rcpt(s) == sm[s].rcpts[sm[s].k]      \* the recipient it is at
----------------------------------------------------------------------------
(***************************************************************************)
(* Commands.                                                               *)
(***************************************************************************)

\* MAIL FROM:<...> in state Init.
MailFrom(s) ==
    /\ sm[s].pc = "cmd" /\ sm[s].st = "Init" /\ sm[s].txn < MaxTxn
    /\ sm' = [sm EXCEPT ![s].st = "From"]
    /\ UNCHANGED <<mbox, master, nFail>>

\* RCPT TO:<u@localhost> in state From or To adds a recipient.
RcptTo(s) ==
    /\ sm[s].pc = "cmd" /\ sm[s].st \in {"From", "To"}
    /\ Len(sm[s].rcpts) < MaxRcpt
    /\ \E u \in Users :
         sm' = [sm EXCEPT ![s].rcpts = Append(@, u), ![s].st = "To"]
    /\ UNCHANGED <<mbox, master, nFail>>

\* DATA in state To.
DataCmd(s) ==
    /\ sm[s].pc = "cmd" /\ sm[s].st = "To"
    /\ sm' = [sm EXCEPT ![s].st = "Data"]
    /\ UNCHANGED <<mbox, master, nFail>>

\* RSET outside the mail text: Mail::clear and back to Init.
Rset(s) ==
    /\ sm[s].pc = "cmd" /\ sm[s].st \in {"Init", "From", "To"}
    /\ sm' = [sm EXCEPT ![s].st = "Init", ![s].rcpts = <<>>]
    /\ UNCHANGED <<mbox, master, nFail>>

\* QUIT outside the mail text: 221, the connection is closed and the
\* thread exits.
Quit(s) ==
    /\ sm[s].pc = "cmd" /\ sm[s].st \in {"Init", "From", "To"}
    /\ sm' = [sm EXCEPT ![s].st = "Closed"]
    /\ UNCHANGED <<mbox, master, nFail>>

\* do_read or a reply's do_write fails, in any state and also after the
\* 250 of a delivery: the thread exits with pthread_exit.
Disconnect(s) ==
    /\ sm[s].pc = "cmd" /\ sm[s].st # "Closed"
    /\ sm' = [sm EXCEPT ![s].st = "Closed"]
    /\ UNCHANGED <<mbox, master, nFail>>

\* "." ends the mail text: the delivery loop starts at the first recipient.
Dot(s) ==
    /\ sm[s].pc = "cmd" /\ sm[s].st = "Data"
    /\ sm' = [sm EXCEPT ![s].pc = "open", ![s].k = 1]
    /\ UNCHANGED <<mbox, master, nFail>>
----------------------------------------------------------------------------
(***************************************************************************)
(* The delivery loop.                                                      *)
(***************************************************************************)

\* Mutant: the loop runs one recipient past the end.
NextRcptPastEnd(h) ==
    IF h.k <= Len(h.rcpts)
    THEN [h EXCEPT !.k = @ + 1, !.pc = "open", !.up = TRUE]
    ELSE [h EXCEPT !.k = 0, !.pc = "cmd", !.st = "Init", !.rcpts = <<>>,
                   !.txn = @ + 1, !.up = TRUE, !.text = <<>>, !.mid = 0]

\* The loop moves to the next recipient, whatever write returned; after
\* the last one Mail::clear, state Init and the 250 reply.
NextRcpt(h) ==
    IF h.k < Len(h.rcpts)
    THEN [h EXCEPT !.k = @ + 1, !.pc = "open", !.up = TRUE]
    ELSE [h EXCEPT !.k = 0, !.pc = "cmd", !.st = "Init", !.rcpts = <<>>,
                   !.txn = @ + 1, !.up = TRUE, !.text = <<>>, !.mid = 0]

\* A call fails with LINK_ERROR: the connection breaks (counted), or it
\* is already broken and every call on it fails at once.
Breaks(s) ==
    \/ sm[s].up /\ nFail < MaxKvFail /\ nFail' = nFail + 1
    \/ ~sm[s].up /\ UNCHANGED nFail

\* usr_to_address, tcp_client_socket and MBox::init succeed: the text of
\* the mbox is read and MBox::write gives the mail id current_id + 1.
OpenMBox(s) ==
    /\ sm[s].pc = "open" /\ master
    /\ LET t == mbox[Rcpt(s)]
       IN sm' = [sm EXCEPT ![s].text = t, ![s].mid = CurrentId(t) + 1,
                           ![s].pc = "cput"]
    /\ UNCHANGED <<mbox, master, nFail>>

\* usr_to_address, the connect or the GETS fails: the recipient is
\* skipped. main opens master_fd once; a failed read or write on it is
\* never repaired, so every later lookup fails at once.
OpenFails(s) ==
    /\ sm[s].pc = "open"
    /\ \/ master /\ nFail < MaxKvFail /\ nFail' = nFail + 1 /\ master' \in BOOLEAN
       \/ ~master /\ UNCHANGED <<nFail, master>>
    /\ sm' = [sm EXCEPT ![s] = NextRcpt(@)]
    /\ UNCHANGED mbox

\* Mutant: the mail is stored with a PUTS, without comparing the text.
WriteMBoxBlind(s) ==
    LET h == sm[s] IN
    /\ h.pc = "cput" /\ h.up
    /\ mbox' = [mbox EXCEPT ![Rcpt(s)] = Append(h.text, [id |-> h.mid, mail |-> Mine(s)])]
    /\ sm' = [sm EXCEPT ![s] = NextRcpt(h)]
    /\ UNCHANGED <<master, nFail>>

\* kv_cput(mbox, text, text + mail): FINISHED when the stored text is the
\* one read (next recipient), VALUE_ERROR when it changed (read again).
WriteMBox(s) ==
    LET h == sm[s]
        u == Rcpt(s)
    IN /\ h.pc = "cput" /\ h.up
       /\ IF mbox[u] = h.text
          THEN /\ mbox' = [mbox EXCEPT ![u] = Append(h.text, [id |-> h.mid, mail |-> Mine(s)])]
               /\ sm' = [sm EXCEPT ![s] = NextRcpt(h)]
          ELSE /\ sm' = [sm EXCEPT ![s].pc = "reload"]
               /\ UNCHANGED mbox
       /\ UNCHANGED <<master, nFail>>

\* Mutant: the loop retries on LINK_ERROR too (while state != FINISHED).
WriteFailsRetry(s) ==
    LET h == sm[s] IN
    /\ h.pc = "cput" /\ Breaks(s)
    /\ \/ UNCHANGED mbox
       \/ /\ h.up /\ mbox[Rcpt(s)] = h.text
          /\ mbox' = [mbox EXCEPT ![Rcpt(s)] = Append(h.text, [id |-> h.mid, mail |-> Mine(s)])]
    /\ sm' = [sm EXCEPT ![s].pc = "reload", ![s].up = FALSE]
    /\ UNCHANGED master

\* The CPUT returns LINK_ERROR (the backend may have applied it before the
\* connection broke): the loop ends and write returns false.
WriteFails(s) ==
    LET h == sm[s] IN
    /\ h.pc = "cput" /\ Breaks(s)
    /\ \/ UNCHANGED mbox
       \/ /\ h.up /\ mbox[Rcpt(s)] = h.text
          /\ mbox' = [mbox EXCEPT ![Rcpt(s)] = Append(h.text, [id |-> h.mid, mail |-> Mine(s)])]
    /\ sm' = [sm EXCEPT ![s] = NextRcpt(h)]
    /\ UNCHANGED master

\* MBox::init inside the loop: GETS reads the text again (its result is
\* not checked, and the mail keeps the id it was given), and the CPUT is
\* sent with the new text. A GETS that fails leaves the text as it was.
ReloadMBox(s) ==
    /\ sm[s].pc = "reload"
    /\ \/ sm[s].up /\ sm' = [sm EXCEPT ![s].text = mbox[Rcpt(s)], ![s].pc = "cput"]
                   /\ UNCHANGED <<master, nFail>>
       \/ Breaks(s) /\ sm' = [sm EXCEPT ![s].up = FALSE, ![s].pc = "cput"]
    /\ UNCHANGED <<mbox, master>>

\* The backend or the master never answers the call the loop is in:
\* tcp_read_msg blocks with no timeout, and a killed or non-primary node
\* reads a command and sends nothing back. A call on a broken connection
\* fails at once instead.
Stall(s) ==
    /\ \/ sm[s].pc = "open" /\ master
       \/ sm[s].pc \in {"cput", "reload"} /\ sm[s].up
    /\ sm' = [sm EXCEPT ![s].pc = "stalled"]
    /\ UNCHANGED <<mbox, master, nFail>>

\* SIGINT: Server::stop closes every connection and the process exits,
\* also in the middle of delivery loops; no session replies.
Shutdown ==
    /\ \E s \in Sessions : sm[s].st # "Closed"
    /\ sm' = [s \in Sessions |-> [Worker EXCEPT !.st = "Closed", !.txn = sm[s].txn]]
    /\ UNCHANGED <<mbox, master, nFail>>

\* Every session has closed: the server only waits for new connections.
Idle ==
    /\ \A s \in Sessions : sm[s].st = "Closed"
    /\ UNCHANGED vars

Deliver(s) ==
    OpenMBox(s) \/ OpenFails(s) \/ WriteMBox(s) \/ WriteFails(s) \/ ReloadMBox(s)

Next ==
    \/ \E s \in Sessions :
         \/ MailFrom(s) \/ RcptTo(s) \/ DataCmd(s) \/ Rset(s) \/ Quit(s)
         \/ Disconnect(s) \/ Dot(s) \/ Deliver(s) \/ Stall(s)
    \/ Shutdown
    \/ Idle

\* Each worker thread runs until it blocks on a read: of its client, or of
\* a backend or the master that never answers (Stall). A call that is
\* answered is answered eventually, so the delivery loop is fair; a stall
\* is a possibility, not a step the thread must take.
Spec == Init /\ [][Next]_vars /\ \A s \in Sessions : WF_vars(Deliver(s))
----------------------------------------------------------------------------
(***************************************************************************)
(* Properties.                                                             *)
(***************************************************************************)

\* The deliveries a session owes: from the recipient it is at to the last
\* one, while its delivery loop runs.
Owed ==
    UNION {{[mail |-> Mine(s), slot |-> i, user |-> sm[s].rcpts[i]] :
               i \in sm[s].k .. Len(sm[s].rcpts)} :
           s \in {t \in Sessions : sm[t].pc # "cmd"}}

\* The deliveries of sessions whose call never returns.
Stuck == {d \in Owed : sm[d.mail[1]].pc = "stalled"}

MS == INSTANCE MailStore WITH
        boxes <- mbox, owed <- Owed, stuck <- Stuck, Mails <- MailIds,
        Slots <- 1 .. MaxRcpt, Ids <- 1 .. MaxMails + 1

\* The server implements MailStore: sessions change a mailbox only by
\* MBox::write's CPUT from the text they read, which appends the mail of
\* the recipient the loop is at, once, and then moves on; a stale text
\* is read again before the retry, so no session overwrites a mail
\* another one stored.
ImplementsMailStore == MS!Safety

\* Every delivery owed is settled, unless a call of its loop never
\* returns: MBox::write stops on FINISHED and on LINK_ERROR, and retries a
\* CPUT that failed on a changed text only with the text read again, so
\* each loop that gets its answers moves through its recipients.
DeliveriesSettled == MS!Settled

\* Every mail of an mbox has its own id: the frontend shows and picks a
\* mail by its id (email_reply.h 136-143).
MailIdsUnique ==
    \A u \in Users : \A i, j \in DOMAIN mbox[u] :
        i # j => mbox[u][i].id # mbox[u][j].id
====

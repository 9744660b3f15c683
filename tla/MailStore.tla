----------------------------- MODULE MailStore -----------------------------
(***************************************************************************)
(* What the SMTP server promises the owners of the mailboxes, whatever the *)
(* sessions, connections and retries below it. Once a mail's "." is read,  *)
(* it owes one delivery per RCPT TO of the transaction. A delivery is      *)
(* settled once: either the mail is appended to the recipient's mailbox,   *)
(* with some id, or it is given up. Nothing else ever changes a mailbox:   *)
(* no mail is removed, rewritten or stored twice for one delivery. A      *)
(* delivery may get stuck: the call that would store it never returns.   *)
(* A stuck delivery is never stored, only given up. Every owed delivery   *)
(* is settled eventually, or gets stuck.                                   *)
(***************************************************************************)
EXTENDS Sequences

CONSTANTS
    Users,       \* the mailboxes
    Mails,       \* the identities of mails
    Slots,       \* the position of a recipient in a mail's RCPT TO list
    Ids          \* the id lines a stored mail may carry

Delivery == [mail : Mails, slot : Slots, user : Users]

VARIABLES
    boxes,   \* boxes[u]: the mails stored for u, oldest first
    owed,    \* the deliveries accepted and not yet settled
    stuck    \* the owed deliveries whose store waits forever

vars == <<boxes, owed, stuck>>

Init ==
    /\ boxes = [u \in Users |-> <<>>]
    /\ owed = {}
    /\ stuck = {}

\* A mail is accepted with its deliveries, all new.
Accept(D) ==
    /\ D # {} /\ D \cap owed = {}
    /\ \E m \in Mails : \A d \in D : d.mail = m
    /\ owed' = owed \cup D
    /\ UNCHANGED <<boxes, stuck>>

\* One owed delivery is settled by storing the mail.
Store(d) ==
    /\ d \in owed \ stuck
    /\ owed' = owed \ {d}
    /\ UNCHANGED stuck
    /\ \E i \in Ids :
         boxes' = [boxes EXCEPT ![d.user] = Append(@, [id |-> i, mail |-> d.mail])]

\* Owed deliveries are given up; the mailboxes stay as they are.
GiveUp(D) ==
    /\ D # {} /\ D \subseteq owed
    /\ owed' = owed \ D /\ stuck' = stuck \ D
    /\ UNCHANGED boxes

\* Owed deliveries get stuck; they stay owed.
Stall(D) ==
    /\ D # {} /\ D \subseteq owed \ stuck
    /\ stuck' = stuck \cup D
    /\ UNCHANGED <<boxes, owed>>

Next ==
    \/ \E D \in SUBSET Delivery : Accept(D) \/ GiveUp(D) \/ Stall(D)
    \/ \E d \in Delivery : Store(d)

Safety == Init /\ [][Next]_vars

\* Every delivery owed is settled, by storing the mail or giving it up,
\* unless it gets stuck.
Settled == \A d \in Delivery : d \in owed ~> (d \notin owed \/ d \in stuck)
====

---------------------------- MODULE MCMailbox ----------------------------
(* Model values for checking Mailbox with TLC. *)
EXTENDS Mailbox

CONSTANTS s1, s2, u1, u2

MCSessions == {s1, s2}
MCUsers == {u1, u2}
====

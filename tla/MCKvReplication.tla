--------------------------- MODULE MCKvReplication ---------------------------
(* Model values and command sets for checking KvReplication with TLC. *)
EXTENDS KvReplication

CONSTANTS a, b, pwd, v1, v2

MCNodes == {a, b}
MCKeys == {pwd}
MCVals == {v1, v2}

\* What a frontend sends for one user: the sign-up (a CPUT of pwd from
\* ""), a password change (CPUT from the old password), a plain write.
MCClientCmds == <<CputCmd(pwd, Empty, v1), CputCmd(pwd, v1, v2), PutsCmd(pwd, v1)>>
\* Bound on the connections waiting at one node. Two nodes
\* that each head their own view pass CKPT back and forth (RecvCkpt) until
\* one reads its KILL or CLUSTER; the bound cuts such exchanges short.
MaxQueue == 3
QueueBound == \A n \in Nodes : Len(inbox[n]) <= MaxQueue

\* The nodes are interchangeable: nothing in the code singles one out.
MCSymmetry == Permutations(MCNodes)
====

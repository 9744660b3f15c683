------------------------------ MODULE MCKvNode ------------------------------
(* Model-checking instance of KvNode: one user, the key "pwd" and one     *)
(* other key, two values.                                                  *)
EXTENDS KvNode

CONSTANTS u1, pwd, k1, v1, v2

MCUsers == {u1}
MCKeys == {pwd, k1}
MCVals == {v1, v2}
====

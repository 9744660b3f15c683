------------------------------ MODULE ChunkStore ------------------------------
(***************************************************************************)
(* What the chunk store of one user promises to KvCache: a map from keys  *)
(* to values, changed only by append_kvs batches and read by get_value.   *)
(*                                                                         *)
(* While a batch is in progress the keys of the batch take their new      *)
(* values, any number of them at a time and in any order; append_kvs      *)
(* returns only once all of them have. A crash abandons the batch with    *)
(* the keys already applied: KvCache runs it again after replaying the    *)
(* WAL, which Checkpoint truncates only after every append_kvs returned.  *)
(***************************************************************************)
EXTENDS Naturals

CONSTANTS Keys, Vals, Empty, None

VARIABLES kv,      \* the logical contents: key -> value, None when absent
          batch,   \* the batch append_kvs is applying, None for keys not in it
          readVal, \* the result of the last get_value (None for KEY_ERROR)
          crashes  \* how many times the process has died

absVars == <<kv, batch, readVal, crashes>>

NoBatch == [k \in Keys |-> None]

\* The effect of a batch entry: the empty value deletes the key.
Eff(v) == IF v = Empty THEN None ELSE v

Init == kv = [k \in Keys |-> None] /\ batch = NoBatch /\ readVal = None /\ crashes = 0

Begin(b) ==
    /\ batch = NoBatch /\ batch' = b
    /\ UNCHANGED <<kv, readVal, crashes>>

ApplySome(S) ==
    /\ S \subseteq {k \in Keys : batch[k] # None}
    /\ kv' = [k \in Keys |-> IF k \in S THEN Eff(batch[k]) ELSE kv[k]]
    /\ UNCHANGED <<batch, readVal, crashes>>

Finish ==
    /\ \A k \in Keys : batch[k] # None => kv[k] = Eff(batch[k])
    /\ batch' = NoBatch
    /\ UNCHANGED <<kv, readVal, crashes>>

\* The process dies: a batch in progress ends with the keys it has
\* applied. Only this step, which counts the death, ends a batch that
\* Finish could not.
Abandon ==
    /\ batch' = NoBatch /\ crashes' = crashes + 1
    /\ UNCHANGED <<kv, readVal>>

Read(k) ==
    /\ batch = NoBatch
    /\ readVal' = kv[k]
    /\ UNCHANGED <<kv, batch, crashes>>

Next ==
    \/ \E b \in [Keys -> Vals \cup {Empty, None}] : Begin(b)
    \/ \E S \in SUBSET Keys : ApplySome(S)
    \/ Finish \/ Abandon
    \/ \E k \in Keys : Read(k)

Spec == Init /\ [][Next]_absVars
====

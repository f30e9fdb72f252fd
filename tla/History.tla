------------------------------- MODULE History -------------------------------
(***************************************************************************)
(* What a caller of realm/p/checkpoint is promised: each key has one value *)
(* for every epoch.  Writing at an epoch sets the value from that epoch    *)
(* on; an epoch before the newest write is sealed and keeps its value for  *)
(* ever, unless a trim gave up the epochs below its horizon.               *)
(***************************************************************************)
EXTENDS Integers

CONSTANTS Keys,       \* the names of the series
          Epochs,     \* the epochs a caller may write in and ask about
          Values,     \* the values a caller may write
          Lost        \* the answer for an epoch that was trimmed away

VARIABLES
  value,     \* value[k][at]: what key k held during epoch at
  newest,    \* newest[k]: the epoch of the latest write, 0 before the first
  horizon    \* horizon[k]: epochs below it are given up

vars == <<value, newest, horizon>>

Init == /\ value = [k \in Keys |-> [at \in Epochs |-> 0]]
        /\ newest = [k \in Keys |-> 0]
        /\ horizon = [k \in Keys |-> 0]

Write(k, e, v) ==
  /\ e >= newest[k]
  /\ value' = [value EXCEPT ![k] =
                 [at \in Epochs |-> IF at >= e /\ at >= horizon[k] THEN v
                                    ELSE value[k][at]]]
  /\ newest' = [newest EXCEPT ![k] = e]
  /\ UNCHANGED horizon

Forget(k, h) ==
  /\ h >= horizon[k]
  /\ horizon' = [horizon EXCEPT ![k] = h]
  /\ value' = [value EXCEPT ![k] =
                 [at \in Epochs |-> IF at < h THEN Lost ELSE value[k][at]]]
  /\ UNCHANGED newest

Next == \E k \in Keys : \/ \E e \in Epochs, v \in Values : Write(k, e, v)
                        \/ \E h \in Epochs : Forget(k, h)

Spec == Init /\ [][Next]_vars
=============================================================================

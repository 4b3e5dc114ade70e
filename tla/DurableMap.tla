----------------------------- MODULE DurableMap -----------------------------
(***************************************************************************)
(* What the storage engine promises: a map that only its writers and a     *)
(* restart change, and beside it what a restart would bring back.          *)
(***************************************************************************)
CONSTANTS Keys, Values, Absent

VARIABLES
  view,     \* view[k]: what a reader gets now
  durable,  \* durable[k]: what a reader gets after a restart
  answer,   \* what the last read returned
  busy      \* work of its own is under way: nothing else is served

map == <<view, durable, answer, busy>>

Init ==
  /\ view = [k \in Keys |-> Absent]
  /\ durable = [k \in Keys |-> Absent]
  /\ answer = Absent
  /\ busy = FALSE

----------------------------------------------------------------------------
(* What clients ask for.  A write or a read can leave work to be done.     *)

Put(k, v) ==
  /\ ~busy
  /\ view' = [view EXCEPT ![k] = v]
  /\ busy' \in BOOLEAN
  /\ UNCHANGED <<durable, answer>>

Get(k) ==
  /\ ~busy
  /\ answer' = view[k]
  /\ busy' \in BOOLEAN
  /\ UNCHANGED <<view, durable>>

(* A delete is durable unless the disk refuses it.                         *)
Delete(k) ==
  /\ ~busy
  /\ view' = [view EXCEPT ![k] = Absent]
  /\ durable' = durable \/ durable' = [durable EXCEPT ![k] = Absent]
  /\ UNCHANGED <<answer, busy>>

----------------------------------------------------------------------------
(* Work of its own: readers never see it.                                  *)

(* A value that is written to disk replaces the older one there, which is  *)
(* gone from the moment the writing begins.                                *)
BeginPersist(k) ==
  /\ busy
  /\ durable' = [durable EXCEPT ![k] = Absent]
  /\ UNCHANGED <<view, answer, busy>>

EndPersist(k) ==
  /\ busy
  /\ durable' = [durable EXCEPT ![k] = view[k]]
  /\ UNCHANGED <<view, answer, busy>>

BeginOrEndWork ==
  /\ busy' = ~busy
  /\ UNCHANGED <<view, durable, answer>>

Restart ==
  /\ view' = durable
  /\ busy' = FALSE
  /\ UNCHANGED <<durable, answer>>

Next ==
  \/ \E k \in Keys, v \in Values : Put(k, v)
  \/ \E k \in Keys : Get(k) \/ Delete(k) \/ BeginPersist(k) \/ EndPersist(k)
  \/ BeginOrEndWork \/ Restart

Spec == Init /\ [][Next]_map
=============================================================================

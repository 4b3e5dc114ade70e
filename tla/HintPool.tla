------------------------------ MODULE HintPool ------------------------------
(***************************************************************************)
(* What hinted handoff promises, without lists, indices and goroutines: a  *)
(* hint that was stored stays until its target has it or it is given up,   *)
(* and is sent only while it stays.  Less is promised of unsafe hints,     *)
(* whose list was shortened under a delivery, by another delivery, by      *)
(* expiry or by a call to clear it: they may leave without having been     *)
(* sent, and may be sent, or sent again, after they left, from a copy.     *)
(*                                                                         *)
(* QuorumManager takes its handoff steps from this module; HintedHandoff   *)
(* is how internal/replication/hinted_handoff.go implements it.            *)
(***************************************************************************)
EXTENDS Naturals, FiniteSets

CONSTANTS Hints, MaxHints
VARIABLES
  pending,    \* the hints that are in the store
  stored,     \* those that have ever been put there
  delivered,  \* those that their target has received
  dropped,    \* those that were refused or given up
  unsafe      \* those whose list was shortened under a delivery

pool == <<pending, stored, delivered, dropped, unsafe>>

Init ==
  pending = {} /\ stored = {} /\ delivered = {} /\ dropped = {} /\ unsafe = {}

(* New hints are kept while there is room, and refused otherwise.          *)
Store(new) ==
  /\ new \cap (stored \cup dropped) = {}
  /\ \E kept \in SUBSET new :
       /\ pending' = pending \cup kept
       /\ stored' = stored \cup kept
       /\ dropped' = dropped \cup (new \ kept)
       /\ kept = new \/ Cardinality(pending') = MaxHints
  /\ Cardinality(pending') <= MaxHints
  /\ UNCHANGED delivered

Deliver(h) ==
  /\ h \in pending \cup (unsafe \cap stored)
  /\ delivered' = delivered \cup {h}
  /\ UNCHANGED <<pending, stored, dropped>>

(* Hints leave: those in done have been delivered, as far as they are not  *)
(* unsafe, those in lost are given up.                                     *)
Release(done, lost) ==
  /\ done \subseteq delivered \cup unsafe
  /\ pending' = pending \ (done \cup lost)
  /\ dropped' = dropped \cup lost
  /\ UNCHANGED <<stored, delivered>>

Next ==
  /\ \/ \E new \in SUBSET Hints : Store(new)
     \/ \E h \in Hints : Deliver(h)
     \/ \E done, lost \in SUBSET pending : Release(done, lost)
  /\ unsafe \subseteq unsafe'

Spec == Init /\ [][Next]_pool
=============================================================================

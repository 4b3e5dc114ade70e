--------------------------- MODULE HintedHandoff ---------------------------
(***************************************************************************)
(* internal/replication/hinted_handoff.go: the lists of hints, the         *)
(* goroutines that deliver them when a node is reported healthy again, and *)
(* the worker that only expires them.                                      *)
(*                                                                         *)
(* A delivery copies the list of its target under the lock, sends the      *)
(* hints of the copy one by one without the lock, and takes the lock again *)
(* to remove, BY POSITION, what it delivered from the list as it is then.  *)
(*                                                                         *)
(* A hint is named by the write and the node it is for.  Times are         *)
(* abstracted to the set of hints older than hintTTL; within one list      *)
(* hints get old in the order they were stored.                            *)
(***************************************************************************)
EXTENDS Naturals, SequencesExt

CONSTANTS
  Writes,      \* the writes that may store hints
  Nodes,       \* the nodes hints are for
  Deliverers,  \* bound: deliveries going on at the same time
  MaxHints,    \* HintedHandoff.maxHints
  MaxRetries   \* Hint.MaxRetries

ASSUME HandoffAssumption ==
  /\ IsFiniteSet(Writes) /\ IsFiniteSet(Nodes) /\ Nodes # {}
  /\ MaxHints \in Nat /\ MaxRetries \in Nat \ {0}

Hints == Writes \X Nodes

VARIABLES
  hints,      \* hints[n]: the list of hints for node n; <<>> when absent
  retries,    \* retries[h]: RetryCount of the Hint, shared by list and copies
  old,        \* the hints older than hintTTL
  at,         \* at[k]: where delivery k is
  target,     \* target[k]: the node it delivers to
  copy,       \* copy[k]: hintsCopy
  next,       \* next[k]: the index into the copy it has come to
  succeeded,  \* succeeded[k]: successfullyDelivered, a set of indices
  read,       \* read[k]: the RetryCount it is about to add one to
  unsafe,     \* history: nodes whose list was shortened under a delivery
  stored,     \* history: the hints that have been put into a list
  delivered,  \* history: the hints some delivery has written to their node
  dropped     \* history: the hints refused, expired, cleared, out of retries

delivery == <<at, target, copy, next, succeeded, read>>
history == <<unsafe, stored, delivered, dropped>>
vars == <<hints, retries, old, delivery, history>>

Pending == UNION {ToSet(hints[n]) : n \in Nodes}

(* getTotalHintCount                                                       *)
TotalHintCount == Cardinality(UNION {{n} \X DOMAIN hints[n] : n \in Nodes})

Steps == {"idle", "sending", "failing", "removing"}

(* The types, with the cap on stored hints.                                *)
TypeOK ==
  /\ hints \in [Nodes -> Seq(Hints)]
  /\ \A n \in Nodes : \A h \in ToSet(hints[n]) : h[2] = n
  /\ TotalHintCount <= MaxHints
  /\ retries \in [Hints -> Nat]
  /\ old \subseteq Hints
  /\ at \in [Deliverers -> Steps]
  /\ target \in [Deliverers -> Nodes]
  /\ copy \in [Deliverers -> Seq(Hints)]
  /\ next \in [Deliverers -> Nat \ {0}]
  /\ succeeded \in [Deliverers -> SUBSET Nat]
  /\ read \in [Deliverers -> Nat]
  /\ \A k \in Deliverers :
       /\ \A h \in ToSet(copy[k]) : h[2] = target[k]
       /\ next[k] <= Len(copy[k]) + 1
       /\ succeeded[k] \subseteq DOMAIN copy[k]
  /\ unsafe \subseteq Nodes
  /\ stored \subseteq Hints
  /\ delivered \subseteq stored /\ dropped \subseteq Hints

Init ==
  /\ hints = [n \in Nodes |-> <<>>]
  /\ retries = [h \in Hints |-> 0]
  /\ old = {}
  /\ at = [k \in Deliverers |-> "idle"]
  /\ target = [k \in Deliverers |-> CHOOSE n \in Nodes : TRUE]
  /\ copy = [k \in Deliverers |-> <<>>]
  /\ next = [k \in Deliverers |-> 1]
  /\ succeeded = [k \in Deliverers |-> {}]
  /\ read = [k \in Deliverers |-> 0]
  /\ unsafe = {} /\ stored = {} /\ delivered = {} /\ dropped = {}

----------------------------------------------------------------------------
(* Storing.                                                                *)

(* Mutant: the cap is compared with > instead of >=.                       *)
StoreHintOneMore(w, failed) ==
  LET fresh == {w} \X ToSet(failed)
      room == MaxHints + 1 - TotalHintCount
      kept == {<<w, failed[i]>> : i \in {j \in DOMAIN failed : j <= room}}
  IN
  /\ fresh \cap (stored \cup dropped) = {}
  /\ hints' = [n \in Nodes |->
       IF <<w, n>> \in kept THEN Append(hints[n], <<w, n>>) ELSE hints[n]]
  /\ stored' = stored \cup kept
  /\ dropped' = dropped \cup (fresh \ kept)
  /\ UNCHANGED <<retries, old, delivery, unsafe, delivered>>

(* StoreHint, called once for a successful put with the nodes that failed  *)
(* it, in the order of their answers.  The first ones get the room.        *)
StoreHint(w, failed) ==
  LET fresh == {w} \X ToSet(failed)
      room == MaxHints - TotalHintCount
      kept == {<<w, failed[i]>> : i \in {j \in DOMAIN failed : j <= room}}
  IN
  /\ fresh \cap (stored \cup dropped) = {}
  /\ hints' = [n \in Nodes |->
       IF <<w, n>> \in kept THEN Append(hints[n], <<w, n>>) ELSE hints[n]]
  /\ stored' = stored \cup kept
  /\ dropped' = dropped \cup (fresh \ kept)
  /\ UNCHANGED <<retries, old, delivery, unsafe, delivered>>

----------------------------------------------------------------------------
(* DeliverHintsToNode, in a goroutine of its own.                          *)

StartDelivery(k, n) ==  \* with an empty list it returns at once
  /\ at[k] = "idle"
  /\ hints[n] # <<>>
  /\ at' = [at EXCEPT ![k] = "sending"]
  /\ target' = [target EXCEPT ![k] = n]
  /\ copy' = [copy EXCEPT ![k] = hints[n]]
  /\ next' = [next EXCEPT ![k] = 1]
  /\ succeeded' = [succeeded EXCEPT ![k] = {}]
  /\ UNCHANGED <<hints, retries, old, read, history>>

(* The loop goes on to the next hint of the copy, or out of the loop.      *)
Advance(k) ==
  /\ next' = [next EXCEPT ![k] = @ + 1]
  /\ at' = [at EXCEPT ![k] = IF next[k] < Len(copy[k]) THEN "sending" ELSE "removing"]

Accepted(k) ==
  /\ at[k] = "sending"
  /\ delivered' = delivered \cup {copy[k][next[k]]}
  /\ succeeded' = [succeeded EXCEPT ![k] = @ \cup {next[k]}]
  /\ Advance(k)
  /\ UNCHANGED <<hints, retries, old, target, copy, read, unsafe, stored, dropped>>

(* hint.RetryCount++ without the lock: the count is read, then written.    *)
Failed(k) ==
  /\ at[k] = "sending"
  /\ read' = [read EXCEPT ![k] = retries[copy[k][next[k]]]]
  /\ at' = [at EXCEPT ![k] = "failing"]
  /\ UNCHANGED <<hints, retries, old, target, copy, next, succeeded, history>>

CountRetry(k) ==
  /\ at[k] = "failing"
  /\ retries' = [retries EXCEPT ![copy[k][next[k]]] = read[k] + 1]
  /\ Advance(k)
  /\ UNCHANGED <<hints, old, target, copy, succeeded, read, history>>

Exhausted == {h \in Hints : retries[h] >= MaxRetries}

(* Mutant: a delivery that had successes forgets to look at the retries.   *)
RemovedKeepingExhausted(k) ==
  {i \in DOMAIN hints[target[k]] : i \in succeeded[k]}

(* The indices of the list, as it is now, that go.                         *)
Removed(k) ==
  {i \in DOMAIN hints[target[k]] :
     i \in succeeded[k] \/ hints[target[k]][i] \in Exhausted}

(* The elements of the list in their order, but for those indices.         *)
Without(list, gone) ==
  LET kept == DOMAIN list \ gone
      nth(i) == CHOOSE j \in kept : Cardinality({m \in kept : m <= j}) = i
  IN  [i \in 1..Cardinality(kept) |-> list[nth(i)]]

RemoveNothing(k) ==  \* mutant: the list is left as it is
  /\ at[k] = "removing"
  /\ at' = [at EXCEPT ![k] = "idle"]
  /\ copy' = [copy EXCEPT ![k] = <<>>]
  /\ next' = [next EXCEPT ![k] = 1]
  /\ succeeded' = [succeeded EXCEPT ![k] = {}]
  /\ UNCHANGED <<hints, retries, old, target, read, history>>

BusyWith(n) == {k \in Deliverers : at[k] # "idle" /\ target[k] = n}

(* Positions in the copy of a delivery are positions in the list as long   *)
(* as nobody else shortens it.  These nodes get shorter lists.             *)
Shortened(nodes, except) ==
  unsafe' = unsafe \cup
    {n \in nodes : BusyWith(n) \ except # {} /\ Len(hints'[n]) < Len(hints[n])}

(* Mutant: the list becomes what the copy says is left, without the hints  *)
(* stored meanwhile.                                                       *)
RemoveFromCopy(k) ==
  LET n == target[k] IN
  /\ at[k] = "removing"
  /\ hints' = [hints EXCEPT ![n] = Without(copy[k], Removed(k))]
  /\ dropped' = dropped \cup
       {copy[k][i] : i \in {j \in DOMAIN copy[k] : j \in Removed(k) \ succeeded[k]}}
  /\ Shortened({n}, {k})
  /\ at' = [at EXCEPT ![k] = "idle"]
  /\ copy' = [copy EXCEPT ![k] = <<>>]
  /\ next' = [next EXCEPT ![k] = 1]
  /\ succeeded' = [succeeded EXCEPT ![k] = {}]
  /\ UNCHANGED <<retries, old, target, read, stored, delivered>>

RemoveDelivered(k) ==
  LET n == target[k] IN
  /\ at[k] = "removing"
  /\ hints' = [hints EXCEPT ![n] = Without(@, Removed(k))]
  /\ dropped' = dropped \cup {hints[n][i] : i \in Removed(k) \ succeeded[k]}
  /\ Shortened({n}, {k})
  /\ at' = [at EXCEPT ![k] = "idle"]
  /\ copy' = [copy EXCEPT ![k] = <<>>]
  /\ next' = [next EXCEPT ![k] = 1]
  /\ succeeded' = [succeeded EXCEPT ![k] = {}]
  /\ UNCHANGED <<retries, old, target, read, stored, delivered>>

----------------------------------------------------------------------------
(* What else takes hints away.                                             *)

GetOld(h) ==
  /\ h \in Pending \ old
  /\ LET list == hints[h[2]] IN
       \A i \in DOMAIN list : list[i] = h => \A j \in 1..i - 1 : list[j] \in old
  /\ old' = old \cup {h}
  /\ UNCHANGED <<hints, retries, delivery, history>>

(* attemptHintDelivery: every tick of deliveryWorker expires the old hints *)
(* and delivers nothing.                                                   *)
ExpireHints ==
  /\ hints' = [n \in Nodes |->
       Without(hints[n], {i \in DOMAIN hints[n] : hints[n][i] \in old})]
  /\ dropped' = dropped \cup (Pending \cap old)
  /\ Shortened(Nodes, {})
  /\ UNCHANGED <<retries, old, delivery, stored, delivered>>

ClearHints(n) ==
  /\ hints' = [hints EXCEPT ![n] = <<>>]
  /\ dropped' = dropped \cup ToSet(hints[n])
  /\ Shortened({n}, {})
  /\ UNCHANGED <<retries, old, delivery, stored, delivered>>

ClearAllHints ==
  /\ hints' = [n \in Nodes |-> <<>>]
  /\ dropped' = dropped \cup Pending
  /\ Shortened(Nodes, {})
  /\ UNCHANGED <<retries, old, delivery, stored, delivered>>

----------------------------------------------------------------------------
Deliver(k) == Accepted(k) \/ Failed(k) \/ CountRetry(k) \/ RemoveDelivered(k)

FailedLists == {s \in SetToAllKPermutations(Nodes) : s # <<>>}

StoreOrDeliver ==
  \/ \E w \in Writes, failed \in FailedLists : StoreHint(w, failed)
  \/ \E k \in Deliverers, n \in Nodes : StartDelivery(k, n)
  \/ \E k \in Deliverers : Deliver(k)

Next ==
  \/ StoreOrDeliver
  \/ \E h \in Hints : GetOld(h)
  \/ ExpireHints
  \/ \E n \in Nodes : ClearHints(n)
  \/ ClearAllHints

Spec == Init /\ [][Next]_vars

(* Hints are younger than their TTL and nobody clears them.                *)
YoungSpec == Init /\ [][StoreOrDeliver]_vars

----------------------------------------------------------------------------
(* Properties.                                                             *)

(* The lists, positions and copies implement the pool: seen from outside a *)
(* hint is sent only while it is stored, and leaves only when delivered or *)
(* given up, unless its list was shortened under a delivery.  Hints that   *)
(* are stored behind a delivery do no harm.                                *)
Pool == INSTANCE HintPool WITH
  pending <- Pending, unsafe <- {h \in Hints : h[2] \in unsafe}
ImplementsPool == Pool!Spec

(* A hint that was delivered is still listed only until the delivery that  *)
(* did it is over, so no later delivery writes the old value once more.    *)
DeliveredHintsLeave ==
  \A n \in Nodes \ unsafe : \A h \in ToSet(hints[n]) \cap delivered :
    \E k \in BusyWith(n) : \E i \in succeeded[k] : copy[k][i] = h

(* Once all deliveries to a node are over, no hint that is out of retries  *)
(* is left for it, even when deliveries overlapped and retry counts were   *)
(* lost between them, and hints were expired or cleared under them.        *)
ExhaustedHintsLeave ==
  \A n \in Nodes : BusyWith(n) = {} => ToSet(hints[n]) \cap Exhausted = {}

----------------------------------------------------------------------------
(* What the code does not keep.                                            *)

(* "Ensures data isn't lost": every hint is listed, was delivered or was   *)
(* given up on purpose.  When two deliveries to a node overlap, the second *)
(* takes positions for hints that it never sent.                           *)
NoHintLost == stored \subseteq Pending \cup delivered \cup dropped
=============================================================================

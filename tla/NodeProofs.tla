----------------------------- MODULE NodeProofs -----------------------------
(* One process of Node from its start to its exit, for any puts, peers,    *)
(* deliveries and bounds: what a drained shutdown keeps, and that no       *)
(* recovery of a peer with hints is missed.                                *)
EXTENDS Node, FiniteSetTheorems, TLAPS

----------------------------------------------------------------------------
(* The order of shutdown.                                                  *)

Mains == {"joining", "serving", "draining", "stopping", "closing", "closed",
          "exiting", "exited"}
Progress == {"none", "received", "accepted", "stored", "acked", "failed"}

(* How far main is says whether the node runs, whether handlers may be at  *)
(* work, and which puts are on disk.                                       *)
LifeInv ==
  /\ main \in Mains
  /\ put \in [Puts -> Progress]
  /\ isRunning <=> main \in {"serving", "draining", "stopping", "closing", "closed"}
  /\ main = "joining" => \A w \in Puts : put[w] = "none"
  /\ main \notin {"joining", "serving", "draining"} /\ ~gaveUp => Active = {}
  /\ \A w \in Puts : put[w] \in {"stored", "acked"} => w \in memory
  /\ main \in {"closed", "exiting", "exited"} /\ ~gaveUp =>
       \A w \in Puts : put[w] = "acked" => w \in saved

LEMMA HandlerLife ==
  ASSUME LifeInv, NEW w \in Puts, Handler(w)
  PROVE  LifeInv'
<1>1. /\ UNCHANGED <<life, saved>>
      /\ memory \subseteq memory'
      /\ \E from, to \in Progress : Moves(w, from, to)
      /\ put[w] = "none" => main = "serving"
      /\ put[w] # "none" => put[w] \in {"received", "accepted", "stored"}
      /\ put'[w] \in {"stored", "acked"} => w \in memory'
  BY DEF Handler, Receive, Accept, Refuse, StoreLocally, QuorumPut, QuorumFails,
         Moves, Progress, LifeInv, life
<1>2. /\ put' \in [Puts -> Progress] /\ \A v \in Puts \ {w} : put'[v] = put[v]
  BY <1>1 DEF Moves, LifeInv
<1>3. main = "serving" \/ w \in Active
  BY <1>1 DEF Active
<1>4. main \in {"serving", "draining"} \/ gaveUp
  BY <1>1, <1>3 DEF LifeInv, Active
<1> QED
  BY <1>1, <1>2, <1>4 DEF LifeInv, life

LEMMA MainLife ==
  ASSUME LifeInv, Main
  PROVE  LifeInv'
<1>1. UNCHANGED <<put, memory>> /\ Active' = Active
  BY DEF Main, Serve, Signal, Drained, GiveUp, StopDetector, CloseStorage, StopRunning,
         Exit, requests, Active
<1>2. CASE Serve
  BY <1>1, <1>2 DEF Serve, LifeInv, Mains, Active
<1>3. CASE Signal
  BY <1>1, <1>3 DEF Signal, MainGoes, LifeInv, Mains
<1>4. CASE Drained
  BY <1>1, <1>4 DEF Drained, MainGoes, LifeInv, Mains
<1>5. CASE GiveUp
  BY <1>1, <1>5 DEF GiveUp, MainGoes, LifeInv, Mains
<1>6. CASE StopDetector
  BY <1>1, <1>6 DEF StopDetector, MainGoes, LifeInv, Mains
<1>7. CASE CloseStorage
  BY <1>1, <1>7 DEF CloseStorage, MainGoes, LifeInv, Mains
<1>8. CASE StopRunning
  BY <1>1, <1>8 DEF StopRunning, MainGoes, LifeInv, Mains
<1>9. CASE Exit
  BY <1>1, <1>9 DEF Exit, MainGoes, LifeInv, Mains
<1> QED
  BY <1>2, <1>3, <1>4, <1>5, <1>6, <1>7, <1>8, <1>9 DEF Main

(* The detector and the deliveries leave all this alone; a race on         *)
(* nodeClients ends the process before the first request.                  *)
LEMMA LifeStep ==
  ASSUME LifeInv, [Next]_vars
  PROVE  LifeInv'
<1>1. CASE UNCHANGED <<main, isRunning, gaveUp, requests, saved>>
  BY <1>1 DEF LifeInv, requests, Active
<1>2. CASE Main
  BY <1>2, MainLife
<1>3. ASSUME NEW w \in Puts, Handler(w) PROVE LifeInv'
  BY <1>3, HandlerLife
<1>4. ASSUME NEW p \in Peers, MapRace(p) PROVE LifeInv'
  BY <1>4 DEF MapRace, LifeInv, Mains, Active, requests
<1>5. ASSUME NEW p \in Nodes, WatchPeer(p) \/ RegisterClient(p) PROVE LifeInv'
  BY <1>1, <1>5 DEF WatchPeer, RegisterClient, life
<1>6. ASSUME NEW p \in Peers, NEW s \in Detector!News, OnNodeStatusChange(p, s) PROVE LifeInv'
  BY <1>1, <1>6 DEF OnNodeStatusChange, life
<1>7. ASSUME NEW p \in Peers, DeliverHintsToNode(p) PROVE LifeInv'
  BY <1>1, <1>7 DEF DeliverHintsToNode, Spawned, life
<1>8. ASSUME NEW k \in Deliverers, Deliver(k) PROVE LifeInv'
  BY <1>1, <1>8 DEF Deliver, life
<1>9. CASE Detect \/ Expire
  BY <1>1, <1>9 DEF Detect, Expire, life
<1>10. CASE UNCHANGED vars
  BY <1>1, <1>10 DEF vars, life
<1> QED
  BY <1>2, <1>3, <1>4, <1>5, <1>6, <1>7, <1>8, <1>9, <1>10 DEF Next, Running, Alive

LEMMA LifeAtStart == Init => LifeInv
  BY DEF Init, LifeInv, Mains, Progress, Active

(* The invariant of the order of shutdown.                                 *)
THEOREM LifeInvariant == Spec => []LifeInv
<1>1. Init => LifeInv
  BY LifeAtStart
<1>2. LifeInv /\ [Next]_vars => LifeInv'
  BY LifeStep
<1> QED
  BY <1>1, <1>2, PTL DEF Spec

(* If Shutdown could wait for the handlers, none of them finds the node    *)
(* stopped, and every put that was acknowledged is on disk at the exit.    *)
THEOREM ShutdownKeepsPuts == Spec => []DrainedShutdownKeepsPuts
<1>1. LifeInv => DrainedShutdownKeepsPuts
  BY DEF LifeInv, Mains, Active, DrainedShutdownKeepsPuts
<1> QED
  BY <1>1, LifeInvariant, PTL

----------------------------------------------------------------------------
(* What is proved of the parts.  HP and DP name the operators of the       *)
(* handoff and of the detector once more, next to those that Node calls    *)
(* Handoff and Detector; the lemmas say that they are the same.            *)

HP == INSTANCE HintedHandoffProofs WITH Writes <- Puts
DP == INSTANCE FailureDetectorProofs

LEMMA HandoffAssumed == HP!HandoffAssumption
<1>1. IsFiniteSet(Puts) /\ IsFiniteSet(Nodes) /\ Nodes # {}
  BY NodeAssumption, FS_AddElement, FS_Union, FS_Singleton DEF Nodes
<1>2. \A S : HP!IsFiniteSet(S) <=> IsFiniteSet(S)
  BY DEF HP!IsFiniteSet, IsFiniteSet
<1> QED
  BY <1>1, <1>2, NodeAssumption DEF HP!HandoffAssumption

LEMMA DetectorAssumed == DP!DetectorAssumption
BY NodeAssumption DEF DP!DetectorAssumption

LEMMA SetsAreTheSame ==
  /\ \A s : Handoff!ToSet(s) = HP!ToSet(s)
  /\ \A s : Handoff!Cardinality(s) = HP!Cardinality(s)
  /\ \A s : Handoff!IsFiniteSet(s) <=> HP!IsFiniteSet(s)
BY DEF Handoff!ToSet, HP!ToSet, Handoff!Cardinality, HP!Cardinality,
       Handoff!IsFiniteSet, HP!IsFiniteSet

LEMMA CountsAreTheSame ==
  Handoff!TotalHintCount = HP!TotalHintCount /\ Handoff!TotalHintCount' = HP!TotalHintCount'
BY DEF Handoff!TotalHintCount, HP!TotalHintCount, Handoff!Cardinality, HP!Cardinality,
       Handoff!IsFiniteSet, HP!IsFiniteSet

LEMMA PendingsAreTheSame == Handoff!Pending = HP!Pending /\ Handoff!Pending' = HP!Pending'
BY DEF Handoff!Pending, HP!Pending, Handoff!ToSet, HP!ToSet

LEMMA WithoutsAreTheSame == \A l, g : Handoff!Without(l, g) = HP!Without(l, g)
BY DEF Handoff!Without, HP!Without, Handoff!Cardinality, HP!Cardinality,
       Handoff!IsFiniteSet, HP!IsFiniteSet

LEMMA PermutationsAreTheSame == Handoff!FailedLists = HP!FailedLists
BY DEF Handoff!FailedLists, HP!FailedLists, Handoff!SetToSeqs, HP!SetToSeqs,
       Handoff!SetToAllKPermutations, HP!SetToAllKPermutations,
       Handoff!Cardinality, HP!Cardinality, Handoff!IsFiniteSet, HP!IsFiniteSet

LEMMA NamesAreTheSame ==
  /\ Handoff!Hints = HP!Hints
  /\ \A k : Handoff!Removed(k) = HP!Removed(k)
BY DEF Handoff!Hints, HP!Hints, Handoff!Exhausted, HP!Exhausted, Handoff!Removed, HP!Removed

LEMMA TypesAreTheSame == Handoff!TypeOK <=> HP!TypeOK
BY SetsAreTheSame, CountsAreTheSame
   DEF Handoff!TypeOK, HP!TypeOK, Handoff!Hints, HP!Hints, Handoff!Steps, HP!Steps

LEMMA StoreIsTheSame == \A w, f : Handoff!StoreHint(w, f) => HP!StoreHint(w, f)
BY SetsAreTheSame, CountsAreTheSame
   DEF Handoff!StoreHint, HP!StoreHint, Handoff!delivery, HP!delivery

LEMMA StartIsTheSame == \A k, n : Handoff!StartDelivery(k, n) => HP!StartDelivery(k, n)
BY DEF Handoff!StartDelivery, HP!StartDelivery, Handoff!history, HP!history

LEMMA SendIsTheSame ==
  \A k : /\ (Handoff!Accepted(k) => HP!Accepted(k))
         /\ (Handoff!Failed(k) => HP!Failed(k))
         /\ (Handoff!CountRetry(k) => HP!CountRetry(k))
BY DEF Handoff!Accepted, HP!Accepted, Handoff!Failed, HP!Failed, Handoff!CountRetry,
       HP!CountRetry, Handoff!Advance, HP!Advance, Handoff!history, HP!history

LEMMA ShortenedIsTheSame == \A S, e : Handoff!Shortened(S, e) => HP!Shortened(S, e)
BY DEF Handoff!Shortened, HP!Shortened, Handoff!BusyWith, HP!BusyWith

LEMMA RemoveIsTheSame == \A k : Handoff!RemoveDelivered(k) => HP!RemoveDelivered(k)
BY ShortenedIsTheSame, NamesAreTheSame, WithoutsAreTheSame
   DEF Handoff!RemoveDelivered, HP!RemoveDelivered

LEMMA OldIsTheSame == \A h : Handoff!GetOld(h) => HP!GetOld(h)
BY PendingsAreTheSame
   DEF Handoff!GetOld, HP!GetOld, Handoff!delivery, HP!delivery, Handoff!history, HP!history

LEMMA ExpireIsTheSame == Handoff!ExpireHints => HP!ExpireHints
BY ShortenedIsTheSame, PendingsAreTheSame, WithoutsAreTheSame
   DEF Handoff!ExpireHints, HP!ExpireHints, Handoff!delivery, HP!delivery

----------------------------------------------------------------------------
(* The lists of hints, without counting them.                              *)

LEMMA WithoutIs ==
  ASSUME NEW S, NEW list \in Seq(S), NEW gone
  PROVE  /\ Handoff!Without(list, gone) \in Seq(S)
         /\ Len(Handoff!Without(list, gone)) <= Len(list)
         /\ \A i \in DOMAIN Handoff!Without(list, gone) :
              \E j \in DOMAIN list : Handoff!Without(list, gone)[i] = list[j]
<1>1. Handoff!Without(list, gone) = HP!Without(list, gone)
  BY WithoutsAreTheSame
<1>2. /\ HP!Without(list, gone) \in Seq(S)
      /\ Len(HP!Without(list, gone)) <= Len(list)
      /\ HP!ToSet(HP!Without(list, gone)) = {list[i] : i \in DOMAIN list \ gone}
  BY HandoffAssumed, HP!WithoutList
<1> QED
  BY <1>1, <1>2 DEF HP!ToSet

ListsOK ==
  /\ hints \in [Nodes -> Seq(Handoff!Hints)]
  /\ \A n \in Nodes : \A i \in DOMAIN hints[n] : hints[n][i][2] = n

DeliveriesOK ==
  /\ at \in [Deliverers -> Handoff!Steps]
  /\ target \in [Deliverers -> Nodes]
  /\ copy \in [Deliverers -> Seq(Handoff!Hints)]
  /\ next \in [Deliverers -> Nat]
  /\ \A k \in Deliverers : at[k] = "removing" => next[k] > Len(copy[k])

NoHints == \A n \in Nodes : hints[n] = <<>>

LEMMA PendingIs ==
  ASSUME NEW h
  PROVE  /\ h \in Handoff!Pending <=> \E n \in Nodes : \E i \in DOMAIN hints[n] : hints[n][i] = h
         /\ h \in Handoff!Pending' <=> \E n \in Nodes : \E i \in DOMAIN hints'[n] : hints'[n][i] = h
BY DEF Handoff!Pending, Handoff!ToSet

(* Hints go, and what is left of each list was there.                      *)
LEMMA ListsShrink ==
  ASSUME ListsOK,
         DOMAIN hints' = Nodes, hints' = [n \in Nodes |-> hints'[n]],
         \A n \in Nodes : \/ hints'[n] = hints[n]
                          \/ \E gone : hints'[n] = Handoff!Without(hints[n], gone)
  PROVE  ListsOK' /\ (NoHints => NoHints')
<1>1. ASSUME NEW n \in Nodes
      PROVE  /\ hints'[n] \in Seq(Handoff!Hints) /\ Len(hints'[n]) <= Len(hints[n])
             /\ \A i \in DOMAIN hints'[n] : hints'[n][i][2] = n
  <2>1. hints[n] \in Seq(Handoff!Hints) /\ \A j \in DOMAIN hints[n] : hints[n][j][2] = n
    BY DEF ListsOK
  <2>2. CASE hints'[n] = hints[n]
    BY <2>1, <2>2
  <2>3. ASSUME NEW gone, hints'[n] = Handoff!Without(hints[n], gone)
        PROVE  /\ hints'[n] \in Seq(Handoff!Hints) /\ Len(hints'[n]) <= Len(hints[n])
               /\ \A i \in DOMAIN hints'[n] : hints'[n][i][2] = n
    BY <2>1, <2>3, WithoutIs
  <2> QED
    BY <2>2, <2>3
<1>2. ListsOK'
  BY <1>1 DEF ListsOK, Handoff!Hints
<1>3. ASSUME NoHints, NEW n \in Nodes PROVE hints'[n] = <<>>
  <2>1. Len(hints[n]) = 0
    BY <1>3 DEF NoHints
  <2> QED
    BY <1>1, <2>1
<1> QED
  BY <1>2, <1>3 DEF NoHints

LEMMA RemovalShrinks ==
  ASSUME ListsOK, DeliveriesOK, NEW k \in Deliverers, Handoff!RemoveDelivered(k)
  PROVE  ListsOK' /\ (NoHints => NoHints')
<1>1. hints' = [hints EXCEPT ![target[k]] = Handoff!Without(@, Handoff!Removed(k))]
  BY DEF Handoff!RemoveDelivered
<1> QED
  BY <1>1, ListsShrink DEF ListsOK

LEMMA ExpiryShrinks ==
  ASSUME ListsOK, Handoff!ExpireHints
  PROVE  ListsOK' /\ (NoHints => NoHints')
<1>1. hints' = [n \in Nodes |-> Handoff!Without(hints[n], {i \in DOMAIN hints[n] : hints[n][i] \in old})]
  BY DEF Handoff!ExpireHints
<1> QED
  BY <1>1, ListsShrink

(* StoreHint appends hints to the lists of their nodes.                    *)
LEMMA ListsGrow ==
  ASSUME ListsOK, NEW w \in Puts, NEW failed, Handoff!StoreHint(w, failed)
  PROVE  ListsOK' /\ Handoff!Pending \subseteq Handoff!Pending'
<1>1. PICK kept : hints' = [n \in Nodes |->
        IF <<w, n>> \in kept THEN Append(hints[n], <<w, n>>) ELSE hints[n]]
  BY DEF Handoff!StoreHint
<1>2. ASSUME NEW n \in Nodes
      PROVE  /\ hints'[n] \in Seq(Handoff!Hints)
             /\ \A i \in DOMAIN hints[n] : i \in DOMAIN hints'[n] /\ hints'[n][i] = hints[n][i]
             /\ \A i \in DOMAIN hints'[n] : hints'[n][i][2] = n
  <2>1. /\ hints[n] \in Seq(Handoff!Hints) /\ <<w, n>> \in Handoff!Hints
        /\ \A i \in DOMAIN hints[n] : hints[n][i][2] = n
    BY DEF ListsOK, Handoff!Hints
  <2>2. CASE hints'[n] = hints[n]
    BY <2>1, <2>2
  <2>3. CASE hints'[n] = Append(hints[n], <<w, n>>)
    BY <2>1, <2>3
  <2> QED
    BY <1>1, <2>2, <2>3
<1>3. ListsOK'
  BY <1>1, <1>2 DEF ListsOK, Handoff!Hints
<1>4. ASSUME NEW h \in Handoff!Pending PROVE h \in Handoff!Pending'
  <2>1. PICK n \in Nodes : \E i \in DOMAIN hints[n] : hints[n][i] = h
    BY <1>4, PendingIs
  <2> QED
    BY <1>2, <2>1, PendingIs
<1> QED
  BY <1>3, <1>4

----------------------------------------------------------------------------
(* Recoveries.                                                             *)

(* Delivery k is at the copy that has hint h, and has not come by it yet.  *)
Carries(k, h) ==
  /\ at[k] # "idle" /\ target[k] = h[2]
  /\ \E i \in DOMAIN copy[k] :
       copy[k][i] = h /\ IF at[k] = "sending" THEN i >= next[k] ELSE i > next[k]

SeenTo(h) ==
  \/ pending[h[2]]["healthy"] > 0
  \/ spawned[h[2]] > 0
  \/ \E k \in Deliverers : Carries(k, h)

DetectorOK ==
  /\ status \in [Peers -> Detector!Statuses]
  /\ pending \in [Peers -> [Detector!News -> Nat]]

(* A recovered peer has a client, because no hint was stored before all    *)
(* peers had one.                                                          *)
ClientsOK ==
  /\ main = "joining" => NoHints
  /\ main \notin {"joining", "exited"} => clients = Peers

OwedOK ==
  /\ owed \subseteq Handoff!Pending
  /\ \A h \in owed : h[2] \in Peers /\ SeenTo(h)

RecoveryInv ==
  /\ ListsOK /\ DeliveriesOK /\ DetectorOK /\ ClientsOK /\ OwedOK
  /\ spawned \in [Peers -> Nat]

LEMMA OwedIsSeenTo == OwedOK => RecoveryIsSeenTo
  BY DEF OwedOK, SeenTo, Carries, RecoveryIsSeenTo, Handoff!BusyWith

(* Steps that leave hints, deliveries and callbacks alone.                 *)
LEMMA ElsewhereStep ==
  ASSUME RecoveryInv, DetectorOK', ClientsOK', UNCHANGED <<handoff, pending, spawned, owed>>
  PROVE  RecoveryInv'
<1>1. ListsOK' /\ DeliveriesOK' /\ Handoff!Pending' = Handoff!Pending
  BY DEF RecoveryInv, ListsOK, DeliveriesOK, Handoff!Pending, handoff
<1>2. OwedOK'
  BY <1>1 DEF RecoveryInv, OwedOK, SeenTo, Carries, handoff
<1> QED
  BY <1>1, <1>2 DEF RecoveryInv

LEMMA MainStep ==
  ASSUME RecoveryInv, main # "exited",
         \/ Main
         \/ \E p \in Nodes : WatchPeer(p) \/ RegisterClient(p)
         \/ \E p \in Peers : MapRace(p)
  PROVE  RecoveryInv'
<1>1. CASE Main
  <2>1. UNCHANGED <<handoff, pending, status, spawned, owed, clients>>
    BY <1>1 DEF Main, Serve, Signal, Drained, GiveUp, StopDetector, Detector!Stop,
           Detector!evidence, CloseStorage, StopRunning, Exit, detector
  <2>2. /\ main' # "joining"
        /\ main = "joining" => clients = Peers
    BY <1>1 DEF Main, Serve, Signal, Drained, GiveUp, StopDetector, CloseStorage,
           StopRunning, Exit, MainGoes
  <2>3. DetectorOK' /\ ClientsOK'
    BY <2>1, <2>2 DEF RecoveryInv, DetectorOK, ClientsOK
  <2> QED
    BY <2>1, <2>3, ElsewhereStep
<1>2. ASSUME NEW p \in Nodes, WatchPeer(p) PROVE RecoveryInv'
  <2>1. /\ UNCHANGED <<handoff, pending, spawned, owed, life>>
        /\ status' = [status EXCEPT ![p] = "unknown"]
    BY <1>2 DEF WatchPeer, Detector!AddNode, Detector!Enter
  <2>2. DetectorOK' /\ ClientsOK'
    BY <2>1 DEF RecoveryInv, DetectorOK, ClientsOK, NoHints, handoff, life, Detector!Statuses
  <2> QED
    BY <2>1, <2>2, ElsewhereStep
<1>3. ASSUME NEW p \in Nodes, RegisterClient(p) PROVE RecoveryInv'
  BY <1>3, ElsewhereStep
     DEF RegisterClient, RecoveryInv, DetectorOK, ClientsOK, NoHints, handoff, detector
<1>4. ASSUME NEW p \in Peers, MapRace(p) PROVE RecoveryInv'
  BY <1>4, ElsewhereStep
     DEF MapRace, RecoveryInv, DetectorOK, ClientsOK, NoHints, handoff, detector
<1> QED
  BY <1>1, <1>2, <1>3, <1>4

LEMMA HandlerStep ==
  ASSUME RecoveryInv, LifeInv, NEW w \in Puts, Handler(w)
  PROVE  RecoveryInv'
<1>1. UNCHANGED <<life, spawned, owed, detector>>
  BY DEF Handler, Receive, Accept, Refuse, StoreLocally, QuorumPut, QuorumFails
<1>2. CASE UNCHANGED handoff
  BY <1>1, <1>2, ElsewhereStep
     DEF RecoveryInv, DetectorOK, ClientsOK, NoHints, handoff, detector, life
<1>3. CASE QuorumPut(w)
  <2>1. PICK failed : Handoff!StoreHint(w, failed)
    BY <1>3 DEF QuorumPut
  <2>2. ListsOK' /\ Handoff!Pending \subseteq Handoff!Pending'
    BY <2>1, ListsGrow DEF RecoveryInv
  <2>3. UNCHANGED <<at, target, copy, next, pending, status>>
    BY <1>1, <2>1 DEF Handoff!StoreHint, Handoff!delivery, detector
  <2>4. main # "joining"
    BY <1>3 DEF QuorumPut, Moves, LifeInv
  <2>5. DeliveriesOK' /\ DetectorOK' /\ ClientsOK' /\ OwedOK'
    BY <1>1, <2>2, <2>3, <2>4
       DEF RecoveryInv, DeliveriesOK, DetectorOK, ClientsOK, OwedOK, SeenTo, Carries, life
  <2> QED
    BY <1>1, <2>2, <2>5 DEF RecoveryInv
<1> QED
  BY <1>2, <1>3 DEF Handler, Receive, Accept, Refuse, StoreLocally, QuorumFails

(* The detector spawns a callback whenever it finds a peer healthy again,  *)
(* and takes none away.                                                    *)
LEMMA DetectorStep ==
  ASSUME DetectorOK,
         \/ Detector!SendHeartbeats
         \/ Detector!CheckNodeHealth
         \/ \E p \in Peers : Detector!Answered(p) \/ Detector!Missed(p) \/ Detector!TimePasses(p)
         \/ \E w \in Detector!Workers : Detector!Return(w)
  PROVE  /\ DetectorOK'
         /\ \A p \in Peers : pending'[p]["healthy"] >= pending[p]["healthy"]
         /\ \A p \in Recovered : pending'[p]["healthy"] > 0
<1> USE DEF Detector!News, Detector!Statuses
<1>0. ASSUME NEW p \in Peers PROVE pending[p] \in [Detector!News -> Nat]
  BY DEF DetectorOK
<1>1. CASE UNCHANGED <<status, pending>>
  BY <1>0, <1>1 DEF DetectorOK, Recovered
<1>2. ASSUME NEW p \in Peers, NEW s \in Detector!Statuses, Detector!Becomes(p, s),
             s \in Detector!News \/ s = status[p]
      PROVE  /\ DetectorOK'
             /\ \A q \in Peers : pending'[q]["healthy"] >= pending[q]["healthy"]
             /\ \A q \in Recovered : pending'[q]["healthy"] > 0
  <2>1. status' = [status EXCEPT ![p] = s]
    BY <1>2 DEF Detector!Becomes
  <2>2. CASE status[p] = s
    BY <1>0, <1>2, <2>1, <2>2 DEF Detector!Becomes, DetectorOK, Recovered
  <2>3. CASE status[p] # s
    <3>1. /\ s \in Detector!News
          /\ pending' = [pending EXCEPT ![p] = [pending[p] EXCEPT ![s] = pending[p][s] + 1]]
      BY <1>2, <2>3 DEF Detector!Becomes
    <3>2. pending'[p] = [pending[p] EXCEPT ![s] = pending[p][s] + 1]
      BY <3>1 DEF DetectorOK
    <3>3. DetectorOK'
      BY <1>0, <2>1, <3>1 DEF DetectorOK
    <3>4. \A q \in Peers : q # p => pending'[q] = pending[q] /\ status'[q] = status[q]
      BY <2>1, <3>1 DEF DetectorOK
    <3>5. pending'[p]["healthy"] >= pending[p]["healthy"]
      BY <1>0, <3>1, <3>2
    <3>6. p \in Recovered => pending'[p]["healthy"] > 0
      <4>1. p \in Recovered => s = "healthy"
        BY <2>1 DEF DetectorOK, Recovered
      <4> QED
        BY <1>0, <3>1, <3>2, <4>1
    <3> QED
      BY <1>0, <3>3, <3>4, <3>5, <3>6 DEF Recovered
  <2> QED
    BY <2>2, <2>3
<1>3. CASE Detector!CheckNodeHealth
  <2>1. /\ status' = [p \in Peers |-> IF p \in Detector!Silent THEN "failed" ELSE status[p]]
        /\ pending' = [p \in Peers |-> IF p \in Detector!Silent
             THEN [pending[p] EXCEPT !["failed"] = pending[p]["failed"] + 1] ELSE pending[p]]
    BY <1>3 DEF Detector!CheckNodeHealth
  <2>2. ASSUME NEW p \in Peers
        PROVE  pending'[p] \in [Detector!News -> Nat] /\ pending'[p]["healthy"] = pending[p]["healthy"]
    BY <1>0, <2>1
  <2>3. DetectorOK'
    BY <2>1, <2>2 DEF DetectorOK
  <2>4. Recovered = {}
    BY <2>1 DEF Recovered
  <2> QED
    BY <1>0, <2>2, <2>3, <2>4
<1>4. ASSUME NEW p \in Peers, Detector!Answered(p)
      PROVE  Detector!Becomes(p, "healthy")
  BY <1>4 DEF Detector!Answered, Detector!Heard
<1>5. ASSUME NEW p \in Peers, Detector!Missed(p)
      PROVE  \E s \in Detector!Statuses :
               Detector!Becomes(p, s) /\ (s \in Detector!News \/ s = status[p])
  <2>1. \E s \in {"failed", "suspected", status[p]} : Detector!Becomes(p, s)
    BY <1>5 DEF Detector!Missed
  <2> QED
    BY <2>1 DEF DetectorOK
<1>6. CASE \/ Detector!SendHeartbeats
           \/ \E p \in Peers : Detector!TimePasses(p)
           \/ \E w \in Detector!Workers : Detector!Return(w)
  BY <1>1, <1>6 DEF Detector!SendHeartbeats, Detector!TimePasses, Detector!Return
<1> QED
  BY <1>2, <1>3, <1>4, <1>5, <1>6

LEMMA DetectStep ==
  ASSUME RecoveryInv, Detect
  PROVE  RecoveryInv'
<1>1. /\ UNCHANGED <<life, spawned, handoff>>
      /\ owed' = owed \cup {h \in Handoff!Pending : h[2] \in Recovered}
  BY DEF Detect
<1>2. /\ DetectorOK'
      /\ \A p \in Peers : pending'[p]["healthy"] >= pending[p]["healthy"]
      /\ \A p \in Recovered : pending'[p]["healthy"] > 0
  BY DetectorStep DEF Detect, RecoveryInv
<1>3. ListsOK' /\ DeliveriesOK' /\ ClientsOK' /\ Handoff!Pending' = Handoff!Pending
  BY <1>1 DEF RecoveryInv, ListsOK, DeliveriesOK, ClientsOK, NoHints, Handoff!Pending,
              handoff, life
<1>4. ASSUME NEW h \in owed' PROVE h \in Handoff!Pending /\ h[2] \in Peers /\ SeenTo(h)'
  <2>1. CASE h \in owed
    <3>1. h \in Handoff!Pending /\ h[2] \in Peers /\ SeenTo(h)
      BY <2>1 DEF RecoveryInv, OwedOK
    <3>2. /\ pending[h[2]]["healthy"] \in Nat /\ pending'[h[2]]["healthy"] \in Nat
          /\ pending'[h[2]]["healthy"] >= pending[h[2]]["healthy"]
      BY <1>2, <3>1 DEF RecoveryInv, DetectorOK, Detector!News
    <3> QED
      BY <1>1, <3>1, <3>2 DEF SeenTo, Carries, handoff
  <2>2. CASE h \in Handoff!Pending /\ h[2] \in Recovered
    BY <1>2, <2>2 DEF SeenTo, Recovered
  <2> QED
    BY <1>1, <2>1, <2>2
<1>5. OwedOK'
  BY <1>3, <1>4 DEF OwedOK
<1> QED
  BY <1>1, <1>2, <1>3, <1>5 DEF RecoveryInv

(* A callback about a recovery leaves a goroutine behind it.               *)
LEMMA CallbackStep ==
  ASSUME RecoveryInv, LifeInv, main # "exited", NEW p \in Peers, NEW s \in Detector!News,
         OnNodeStatusChange(p, s)
  PROVE  RecoveryInv'
<1> USE DEF Detector!News
<1>0. pending[p] \in [Detector!News -> Nat] /\ spawned[p] \in Nat
  BY DEF RecoveryInv, DetectorOK
<1>1. /\ UNCHANGED <<life, owed, handoff, status>>
      /\ pending[p][s] > 0
      /\ pending' = [pending EXCEPT ![p] = [pending[p] EXCEPT ![s] = pending[p][s] - 1]]
  BY DEF OnNodeStatusChange, Detector!RunCallback
<1>2. /\ spawned' \in [Peers -> Nat]
      /\ \A q \in Peers : spawned'[q] >= spawned[q]
      /\ s = "healthy" /\ p \in clients => spawned'[p] > 0
  BY <1>0 DEF OnNodeStatusChange, RecoveryInv
<1>3. DetectorOK'
  <2>1. pending'[p] \in [Detector!News -> Nat]
    BY <1>0, <1>1 DEF RecoveryInv, DetectorOK
  <2> QED
    BY <1>1, <2>1 DEF RecoveryInv, DetectorOK
<1>4. ListsOK' /\ DeliveriesOK' /\ ClientsOK' /\ Handoff!Pending' = Handoff!Pending
  BY <1>1 DEF RecoveryInv, ListsOK, DeliveriesOK, ClientsOK, NoHints, Handoff!Pending,
              handoff, life
<1>5. ASSUME NEW h \in owed
      PROVE  h \in Handoff!Pending /\ h[2] \in Peers /\ SeenTo(h)'
  <2>1. h \in Handoff!Pending /\ h[2] \in Peers /\ SeenTo(h)
    BY DEF RecoveryInv, OwedOK
  <2>2. main # "joining"
    <3>1. ~NoHints
      BY <2>1, PendingIs DEF NoHints
    <3> QED
      BY <3>1 DEF RecoveryInv, ClientsOK
  <2>3. p \in clients
    BY <2>2 DEF RecoveryInv, ClientsOK
  <2>4. CASE h[2] = p /\ s = "healthy"
    BY <1>2, <2>1, <2>3, <2>4 DEF SeenTo
  <2>5. CASE ~(h[2] = p /\ s = "healthy")
    <3>1. pending'[h[2]]["healthy"] = pending[h[2]]["healthy"]
      BY <1>0, <1>1, <2>1, <2>5 DEF RecoveryInv, DetectorOK
    <3>2. spawned[h[2]] \in Nat /\ spawned'[h[2]] \in Nat /\ spawned'[h[2]] >= spawned[h[2]]
      BY <1>2, <2>1 DEF RecoveryInv
    <3> QED
      BY <1>1, <2>1, <3>1, <3>2 DEF SeenTo, Carries, handoff
  <2> QED
    BY <2>4, <2>5
<1>6. OwedOK'
  BY <1>1, <1>4, <1>5 DEF OwedOK
<1> QED
  BY <1>2, <1>3, <1>4, <1>6 DEF RecoveryInv

(* The goroutine that was spawned copies the whole list of its peer.       *)
LEMMA SpawnedStep ==
  ASSUME RecoveryInv, NEW p \in Peers, DeliverHintsToNode(p)
  PROVE  RecoveryInv'
<1>1. /\ UNCHANGED <<life, owed, pending, status, hints>>
      /\ spawned' = [spawned EXCEPT ![p] = spawned[p] - 1] /\ spawned[p] > 0
  BY DEF DeliverHintsToNode, Spawned, Handoff!StartDelivery, detector, handoff
<1>2. spawned' \in [Peers -> Nat] /\ \A q \in Peers : q # p => spawned'[q] = spawned[q]
  BY <1>1 DEF RecoveryInv
<1>3. ListsOK' /\ DetectorOK' /\ ClientsOK' /\ Handoff!Pending' = Handoff!Pending
  BY <1>1 DEF RecoveryInv, ListsOK, DetectorOK, ClientsOK, NoHints, Handoff!Pending, life
<1>4. CASE hints[p] = <<>>
  <2>1. UNCHANGED <<at, target, copy, next>>
    BY <1>4 DEF DeliverHintsToNode, handoff
  <2>2. ASSUME NEW h \in owed PROVE SeenTo(h)'
    <3>1. h \in Handoff!Pending /\ h[2] \in Peers /\ SeenTo(h)
      BY DEF RecoveryInv, OwedOK
    <3>2. h[2] # p
      BY <1>4, <3>1, PendingIs DEF RecoveryInv, ListsOK
    <3> QED
      BY <1>1, <1>2, <2>1, <3>1, <3>2 DEF SeenTo, Carries
  <2> QED
    BY <1>1, <1>2, <1>3, <2>1, <2>2 DEF RecoveryInv, DeliveriesOK, OwedOK
<1>5. ASSUME hints[p] # <<>>, NEW k \in Deliverers, Handoff!StartDelivery(k, p)
      PROVE  RecoveryInv'
  <2>1. /\ at[k] = "idle"
        /\ at' = [at EXCEPT ![k] = "sending"]
        /\ target' = [target EXCEPT ![k] = p]
        /\ copy' = [copy EXCEPT ![k] = hints[p]]
        /\ next' = [next EXCEPT ![k] = 1]
    BY <1>5 DEF Handoff!StartDelivery
  <2>2. p \in Nodes /\ hints[p] \in Seq(Handoff!Hints)
    BY DEF Nodes, RecoveryInv, ListsOK
  <2>3. DeliveriesOK'
    BY <2>1, <2>2 DEF RecoveryInv, DeliveriesOK, Handoff!Steps, Handoff!Hints
  <2>4. ASSUME NEW h \in owed PROVE SeenTo(h)'
    <3>1. h \in Handoff!Pending /\ h[2] \in Peers /\ SeenTo(h)
      BY DEF RecoveryInv, OwedOK
    <3>2. CASE h[2] = p
      <4>1. PICK n \in Nodes : \E i \in DOMAIN hints[n] : hints[n][i] = h
        BY <3>1, PendingIs
      <4>2. n = p
        BY <3>2, <4>1 DEF RecoveryInv, ListsOK
      <4>3. PICK i \in DOMAIN hints[p] : hints[p][i] = h
        BY <4>1, <4>2
      <4>4. i >= 1
        BY <2>2, <4>3
      <4>5. /\ at'[k] = "sending" /\ target'[k] = p /\ copy'[k] = hints[p] /\ next'[k] = 1
        BY <2>1 DEF RecoveryInv, DeliveriesOK
      <4> QED
        BY <3>2, <4>3, <4>4, <4>5 DEF SeenTo, Carries
    <3>3. CASE h[2] # p
      <4>1. ASSUME NEW j \in Deliverers, Carries(j, h) PROVE Carries(j, h)'
        <5>1. j # k
          BY <2>1, <4>1 DEF Carries
        <5>2. at'[j] = at[j] /\ target'[j] = target[j] /\ copy'[j] = copy[j] /\ next'[j] = next[j]
          BY <2>1, <5>1 DEF RecoveryInv, DeliveriesOK
        <5> QED
          BY <4>1, <5>2 DEF Carries
      <4> QED
        BY <1>1, <1>2, <3>1, <3>3, <4>1 DEF SeenTo
    <3> QED
      BY <3>2, <3>3
  <2> QED
    BY <1>1, <1>2, <1>3, <2>3, <2>4 DEF RecoveryInv, OwedOK
<1> QED
  BY <1>4, <1>5 DEF DeliverHintsToNode

(* A delivery has sent a hint before it comes by it.                       *)
LEMMA DeliverStep ==
  ASSUME RecoveryInv, NEW k \in Deliverers, Deliver(k)
  PROVE  RecoveryInv'
<1>1. /\ UNCHANGED <<life, pending, status, spawned, target>>
      /\ owed' = IF at[k] = "sending" THEN owed \ {copy[k][next[k]]}
                 ELSE owed \cap Handoff!Pending'
      /\ Handoff!Accepted(k) \/ Handoff!Failed(k) \/ Handoff!CountRetry(k)
           \/ Handoff!RemoveDelivered(k)
  BY DEF Deliver, Handoff!Deliver, Handoff!Accepted, Handoff!Failed, Handoff!CountRetry,
         Handoff!RemoveDelivered, detector
<1>2. /\ at[k] \in Handoff!Steps /\ next[k] \in Nat /\ copy[k] \in Seq(Handoff!Hints)
      /\ at[k] = "removing" => next[k] > Len(copy[k])
  BY DEF RecoveryInv, DeliveriesOK
<1>3. ListsOK' /\ (NoHints => NoHints') /\ owed' \subseteq Handoff!Pending'
  <2>1. CASE UNCHANGED hints /\ at[k] = "sending"
    BY <1>1, <2>1 DEF RecoveryInv, ListsOK, NoHints, OwedOK, Handoff!Pending
  <2>2. CASE UNCHANGED hints /\ at[k] # "sending"
    BY <1>1, <2>2 DEF RecoveryInv, ListsOK, NoHints
  <2>3. CASE Handoff!RemoveDelivered(k)
    <3>1. at[k] = "removing"
      BY <2>3 DEF Handoff!RemoveDelivered
    <3> QED
      BY <1>1, <2>3, <3>1, RemovalShrinks DEF RecoveryInv
  <2> QED
    BY <1>1, <2>1, <2>2, <2>3 DEF Handoff!Accepted, Handoff!Failed, Handoff!CountRetry
<1>4. \A j \in Deliverers \ {k} :
        at'[j] = at[j] /\ copy'[j] = copy[j] /\ next'[j] = next[j]
  BY <1>1 DEF RecoveryInv, DeliveriesOK, Handoff!Accepted, Handoff!Failed,
              Handoff!CountRetry, Handoff!Advance, Handoff!RemoveDelivered
<1>5. ASSUME Handoff!Failed(k)
      PROVE  DeliveriesOK' /\ \A h \in owed' : Carries(k, h) => Carries(k, h)'
  <2>1. /\ at[k] = "sending" /\ at' = [at EXCEPT ![k] = "failing"]
        /\ UNCHANGED <<copy, next>>
    BY <1>5 DEF Handoff!Failed
  <2>2. DeliveriesOK' /\ at'[k] = "failing"
    BY <1>1, <2>1 DEF RecoveryInv, DeliveriesOK, Handoff!Steps, Handoff!Hints
  <2>3. ASSUME NEW h \in owed', Carries(k, h) PROVE Carries(k, h)'
    <3>1. PICK i \in DOMAIN copy[k] : copy[k][i] = h /\ i >= next[k]
      BY <2>1, <2>3 DEF Carries
    <3>2. i # next[k] /\ i \in Nat
      BY <1>1, <1>2, <2>1, <3>1
    <3>3. i > next[k]
      BY <1>2, <3>1, <3>2
    <3> QED
      BY <1>1, <2>1, <2>2, <2>3, <3>1, <3>3 DEF Carries
  <2> QED
    BY <2>2, <2>3
<1>6. ASSUME Handoff!Accepted(k) \/ Handoff!CountRetry(k)
      PROVE  DeliveriesOK' /\ \A h \in owed' : Carries(k, h) => Carries(k, h)'
  <2>1. /\ at[k] \in {"sending", "failing"}
        /\ next' = [next EXCEPT ![k] = next[k] + 1]
        /\ at' = [at EXCEPT ![k] = IF next[k] < Len(copy[k]) THEN "sending" ELSE "removing"]
        /\ UNCHANGED copy
    BY <1>6 DEF Handoff!Accepted, Handoff!CountRetry, Handoff!Advance
  <2>2. /\ at'[k] = IF next[k] < Len(copy[k]) THEN "sending" ELSE "removing"
        /\ next'[k] = next[k] + 1 /\ Len(copy[k]) \in Nat
    BY <1>2, <2>1 DEF RecoveryInv, DeliveriesOK
  <2>3. at'[k] = "removing" => next'[k] > Len(copy'[k])
    BY <1>2, <2>1, <2>2
  <2>4. DeliveriesOK'
    BY <1>1, <1>2, <1>4, <2>1, <2>3 DEF RecoveryInv, DeliveriesOK, Handoff!Steps, Handoff!Hints
  <2>5. ASSUME NEW h \in owed', Carries(k, h) PROVE Carries(k, h)'
    <3>1. PICK i \in DOMAIN copy[k] :
            copy[k][i] = h /\ IF at[k] = "sending" THEN i >= next[k] ELSE i > next[k]
      BY <2>5 DEF Carries
    <3>2. i \in Nat /\ i <= Len(copy[k])
      BY <1>2, <3>1
    <3>3. at[k] = "sending" => i # next[k]
      BY <1>1, <3>1
    <3>4. i >= next[k] + 1
      BY <1>2, <2>1, <3>1, <3>2, <3>3
    <3>5. at'[k] = "sending"
      BY <1>2, <2>2, <3>2, <3>4
    <3> QED
      BY <1>1, <2>1, <2>2, <2>5, <3>1, <3>4, <3>5 DEF Carries
  <2> QED
    BY <2>4, <2>5
<1>7. ASSUME Handoff!RemoveDelivered(k)
      PROVE  DeliveriesOK' /\ \A h \in owed' : Carries(k, h) => Carries(k, h)'
  <2>1. /\ at[k] = "removing"
        /\ at' = [at EXCEPT ![k] = "idle"]
        /\ copy' = [copy EXCEPT ![k] = <<>>]
        /\ next' = [next EXCEPT ![k] = 1]
    BY <1>7 DEF Handoff!RemoveDelivered
  <2>2. DeliveriesOK'
    BY <1>1, <2>1 DEF RecoveryInv, DeliveriesOK, Handoff!Steps, Handoff!Hints
  <2>3. ASSUME NEW h \in owed', Carries(k, h) PROVE FALSE
    BY <1>2, <2>1, <2>3 DEF Carries
  <2> QED
    BY <2>2, <2>3
<1>8. DeliveriesOK' /\ \A h \in owed' : Carries(k, h) => Carries(k, h)'
  BY <1>1, <1>5, <1>6, <1>7
<1>9. ASSUME NEW h \in owed' PROVE h[2] \in Peers /\ SeenTo(h)'
  <2>1. h[2] \in Peers /\ SeenTo(h)
    BY <1>1 DEF RecoveryInv, OwedOK
  <2>2. ASSUME NEW j \in Deliverers, Carries(j, h) PROVE Carries(j, h)'
    <3>1. CASE j = k
      BY <1>8, <2>2, <3>1
    <3>2. CASE j # k
      BY <1>1, <1>4, <2>2, <3>2 DEF Carries
    <3> QED
      BY <3>1, <3>2
  <2> QED
    BY <1>1, <2>1, <2>2 DEF SeenTo
<1>10. DetectorOK' /\ ClientsOK'
  BY <1>1, <1>3 DEF RecoveryInv, DetectorOK, ClientsOK, life
<1> QED
  BY <1>1, <1>3, <1>8, <1>9, <1>10 DEF RecoveryInv, OwedOK

LEMMA ExpireStep ==
  ASSUME RecoveryInv, Expire
  PROVE  RecoveryInv'
<1>1. /\ UNCHANGED <<life, pending, status, spawned, at, target, copy, next>>
      /\ owed' = owed \cap Handoff!Pending'
  BY DEF Expire, Handoff!GetOld, Handoff!ExpireHints, Handoff!delivery, detector
<1>2. ListsOK' /\ (NoHints => NoHints')
  <2>1. CASE UNCHANGED hints
    BY <2>1 DEF RecoveryInv, ListsOK, NoHints
  <2> QED
    BY <2>1, ExpiryShrinks DEF Expire, Handoff!GetOld, RecoveryInv
<1>3. DeliveriesOK' /\ DetectorOK' /\ ClientsOK' /\ OwedOK'
  BY <1>1, <1>2 DEF RecoveryInv, DeliveriesOK, DetectorOK, ClientsOK, OwedOK, SeenTo,
                    Carries, life
<1> QED
  BY <1>1, <1>2, <1>3 DEF RecoveryInv

LEMMA RecoveryStep ==
  ASSUME RecoveryInv, LifeInv, [Next]_vars
  PROVE  RecoveryInv'
<1>1. CASE UNCHANGED vars
  BY <1>1, ElsewhereStep
     DEF vars, RecoveryInv, DetectorOK, ClientsOK, NoHints, handoff, detector, life
<1>2. CASE Next
  BY <1>2, MainStep, HandlerStep, DetectStep, CallbackStep, SpawnedStep, DeliverStep,
     ExpireStep DEF Next, Running, Alive
<1> QED
  BY <1>1, <1>2

LEMMA RecoveryAtStart == Init => RecoveryInv
<1> SUFFICES ASSUME Init PROVE RecoveryInv
  OBVIOUS
<1> USE DEF Init, Handoff!Init, Detector!Init
<1>1. ListsOK /\ NoHints
  BY DEF ListsOK, NoHints
<1>2. DeliveriesOK
  <2>1. (CHOOSE n \in Nodes : TRUE) \in Nodes
    BY DEF Nodes
  <2> QED
    BY <2>1 DEF DeliveriesOK, Handoff!Steps
<1>3. DetectorOK
  BY DEF DetectorOK, Detector!Statuses, Detector!News
<1> QED
  BY <1>1, <1>2, <1>3 DEF RecoveryInv, ClientsOK, OwedOK

(* The inductive invariant behind it: hints of peers only, whole copies,   *)
(* and a client for every peer before there is a hint.                     *)
THEOREM RecoveryInvariant == Spec => [](RecoveryInv /\ LifeInv)
<1>1. Init => RecoveryInv /\ LifeInv
  BY RecoveryAtStart, LifeAtStart
<1>2. RecoveryInv /\ LifeInv /\ [Next]_vars => (RecoveryInv /\ LifeInv)'
  BY RecoveryStep, LifeStep
<1> QED
  BY <1>1, <1>2, PTL DEF Spec

(* A recovery is not missed: a callback, a goroutine or a delivery sees to *)
(* every hint that was listed when its peer was found healthy again.       *)
THEOREM RecoveriesAreSeenTo == Spec => []RecoveryIsSeenTo
<1>1. RecoveryInv => RecoveryIsSeenTo
  BY OwedIsSeenTo DEF RecoveryInv
<1> QED
  BY <1>1, RecoveryInvariant, PTL

----------------------------------------------------------------------------
(* The process uses its parts as their modules say.                        *)

LEMMA HandoffStarts == Handoff!Init => HP!Init
BY DEF Handoff!Init, HP!Init, Handoff!Hints, HP!Hints

LEMMA StoreNothing ==
  ASSUME HP!TypeOK, NEW w \in Puts, HP!StoreHint(w, <<>>)
  PROVE  UNCHANGED HP!vars
<1>1. HP!ToSet(<<>>) = {}
  BY DEF HP!ToSet
<1>2. hints' = [n \in Nodes |-> hints[n]] /\ stored' = stored /\ dropped' = dropped
  BY <1>1 DEF HP!StoreHint
<1>3. hints' = hints
  BY <1>2 DEF HP!TypeOK
<1> QED
  BY <1>2, <1>3 DEF HP!StoreHint, HP!vars, HP!delivery, HP!history

LEMMA HandoffStep ==
  ASSUME HP!TypeOK, [Next]_vars
  PROVE  [HP!Next]_(HP!vars)
<1> USE DEF HP!Next, HP!StoreOrDeliver
<1>1. CASE UNCHANGED handoff
  BY <1>1 DEF handoff, HP!vars, HP!delivery, HP!history
<1>2. ASSUME NEW w \in Puts, QuorumPut(w) PROVE [HP!Next]_(HP!vars)
  <2>1. PICK failed \in {<<>>} \cup Handoff!FailedLists : Handoff!StoreHint(w, failed)
    BY <1>2 DEF QuorumPut
  <2>2. CASE failed = <<>>
    BY <2>1, <2>2, StoreIsTheSame, StoreNothing
  <2>3. CASE failed \in HP!FailedLists
    BY <2>1, <2>3, StoreIsTheSame
  <2> QED
    BY <2>1, <2>2, <2>3, PermutationsAreTheSame
<1>3. ASSUME NEW p \in Peers, DeliverHintsToNode(p) PROVE [HP!Next]_(HP!vars)
  BY <1>1, <1>3, StartIsTheSame DEF DeliverHintsToNode, Nodes
<1>4. ASSUME NEW k \in Deliverers, Deliver(k) PROVE [HP!Next]_(HP!vars)
  <2>1. Handoff!Deliver(k)
    BY <1>4 DEF Deliver
  <2>2. HP!Deliver(k)
    BY <2>1, SendIsTheSame, RemoveIsTheSame DEF Handoff!Deliver, HP!Deliver
  <2> QED
    BY <2>2
<1>5. CASE Expire
  BY <1>5, OldIsTheSame, ExpireIsTheSame, NamesAreTheSame DEF Expire
<1>6. ASSUME NEW w \in Puts, Handler(w), ~QuorumPut(w) PROVE UNCHANGED handoff
  BY <1>6 DEF Handler, Receive, Accept, Refuse, StoreLocally, QuorumFails
<1>7. ASSUME \/ Main \/ Detect
             \/ \E p \in Nodes : WatchPeer(p) \/ RegisterClient(p)
             \/ \E p \in Peers, s \in Detector!News : OnNodeStatusChange(p, s)
             \/ \E p \in Peers : MapRace(p)
             \/ UNCHANGED vars
      PROVE  UNCHANGED handoff
  BY <1>7 DEF Main, Serve, Signal, Drained, GiveUp, StopDetector, CloseStorage, StopRunning,
     Exit, Detect, WatchPeer, RegisterClient, OnNodeStatusChange, MapRace, vars
<1> QED
  BY <1>1, <1>2, <1>3, <1>4, <1>5, <1>6, <1>7 DEF Next, Running, Alive

LEMMA DetectorSteps ==
  ASSUME [Next]_vars
  PROVE  [DP!Next]_(DP!vars)
<1>1. CASE UNCHANGED detector
  BY <1>1 DEF detector, DP!vars
<1>2. CASE Detect
  BY <1>2 DEF Detect, DP!Next,
     Detector!SendHeartbeats, DP!SendHeartbeats, Detector!CheckNodeHealth, DP!CheckNodeHealth,
     Detector!Silent, DP!Silent, Detector!Monitored, DP!Monitored,
     Detector!Answered, DP!Answered, Detector!Answers, DP!Answers, Detector!Heard, DP!Heard,
     Detector!Missed, DP!Missed, Detector!Becomes, DP!Becomes,
     Detector!TimePasses, DP!TimePasses, Detector!Return, DP!Return,
     Detector!Workers, DP!Workers, Detector!evidence, DP!evidence
<1>3. ASSUME NEW p \in Nodes, WatchPeer(p) PROVE [DP!Next]_(DP!vars)
  <2>1. p \in Peers /\ DP!AddNode(p)
    BY <1>3 DEF WatchPeer, Nodes, Detector!AddNode, DP!AddNode, Detector!Enter, DP!Enter
  <2> QED
    BY <2>1 DEF DP!Next
<1>4. ASSUME NEW p \in Peers, NEW s \in Detector!News, OnNodeStatusChange(p, s)
      PROVE  [DP!Next]_(DP!vars)
  <2>1. s \in DP!News /\ DP!RunCallback(p, s)
    BY <1>4 DEF OnNodeStatusChange, Detector!RunCallback, DP!RunCallback,
       Detector!News, DP!News, Detector!evidence, DP!evidence
  <2> QED
    BY <2>1 DEF DP!Next
<1>5. CASE StopDetector
  BY <1>5 DEF StopDetector, Detector!Stop, DP!Stop, Detector!evidence, DP!evidence, DP!Next
<1>6. ASSUME \/ Main /\ ~StopDetector
             \/ Expire
             \/ \E w \in Puts : Handler(w)
             \/ \E p \in Nodes : RegisterClient(p)
             \/ \E p \in Peers : MapRace(p) \/ DeliverHintsToNode(p)
             \/ \E k \in Deliverers : Deliver(k)
             \/ UNCHANGED vars
      PROVE  UNCHANGED detector
  BY <1>6 DEF Main, Serve, Signal, Drained, GiveUp, CloseStorage, StopRunning, Exit, Expire,
     Handler, Receive, Accept, Refuse, StoreLocally, QuorumPut, QuorumFails,
     RegisterClient, MapRace, DeliverHintsToNode, Spawned, Deliver, vars
<1> QED
  BY <1>1, <1>2, <1>3, <1>4, <1>5, <1>6 DEF Next, Running, Alive

LEMMA DetectorStarts == Detector!Init => DP!Init
BY DEF Detector!Init, DP!Init, Detector!Workers, DP!Workers, Detector!News, DP!News

LEMMA DetectorTypes == Detector!TypeOK <=> DP!TypeOK
BY DEF Detector!TypeOK, DP!TypeOK, Detector!Workers, DP!Workers, Detector!News, DP!News,
   Detector!Statuses, DP!Statuses

PartsInv == HP!HandoffInv /\ DP!DetectorInv

LEMMA PartsStep ==
  ASSUME PartsInv, [Next]_vars
  PROVE  PartsInv'
<1>1. [HP!Next]_(HP!vars)
  BY HandoffStep DEF PartsInv, HP!HandoffInv
<1>2. HP!HandoffInv'
  BY <1>1, HandoffAssumed, HP!InvariantStep DEF PartsInv
<1>3. DP!DetectorInv'
  BY DetectorSteps, DetectorAssumed, DP!DetectorStep DEF PartsInv
<1> QED
  BY <1>2, <1>3 DEF PartsInv

LEMMA PartsAtStart == Init => PartsInv
<1>1. HP!Init => HP!HandoffInv
  BY HandoffAssumed, HP!InvariantAtStart
<1>2. DP!Init => DP!DetectorInv
  BY DetectorAssumed DEF DP!Init, DP!DetectorInv, DP!TypeOK, DP!StatusMatchesEvidence,
     DP!Workers, DP!News, DP!Statuses
<1> QED
  BY <1>1, <1>2, HandoffStarts, DetectorStarts DEF Init, PartsInv

(* The process uses the handoff and the detector as their modules say, so  *)
(* what is proved of each of them holds inside of it.                      *)
THEOREM PartsAsSpecified == Spec => HP!Spec /\ DP!Spec
<1>1. Init => PartsInv /\ HP!Init /\ DP!Init
  BY PartsAtStart, HandoffStarts, DetectorStarts DEF Init
<1>2. PartsInv /\ [Next]_vars => PartsInv'
  BY PartsStep
<1>3. PartsInv /\ [Next]_vars => [HP!Next]_(HP!vars) /\ [DP!Next]_(DP!vars)
  BY HandoffStep, DetectorSteps DEF PartsInv, HP!HandoffInv
<1> QED
  BY <1>1, <1>2, <1>3, PTL DEF Spec, HP!Spec, DP!Spec

(* The hints of the process are a pool, whatever the detector starts and   *)
(* the requests store.  It is the pool QuorumManager takes its handoff     *)
(* steps from, with the same exception for unsafe hints.                   *)
THEOREM ProcessImplementsPool == Spec => HP!ImplementsPool
  BY PartsAsSpecified, HandoffAssumed, HP!HandoffImplementsPool, PTL

(* Hints leave the process when they are delivered or out of retries, and  *)
(* go missing only from a list that was shortened under a delivery to the  *)
(* same peer.                                                              *)
THEOREM ProcessHintFates ==
  Spec => [](HP!DeliveredHintsLeave /\ HP!ExhaustedHintsLeave /\ HP!LossIsKnown)
  BY PartsAsSpecified, HandoffAssumed, HP!DeliveredLeave, HP!ExhaustedLeave,
     HP!LossNeedsShortening, PTL

(* While the cluster is joined, requests run and callbacks start           *)
(* deliveries, the status of a peer says what was heard of it, and a       *)
(* failed peer stays failed until it is heard of.                          *)
THEOREM ProcessPeerStatus == Spec => []DP!StatusMatchesEvidence /\ DP!FailedUntilHeard
  BY PartsAsSpecified, DetectorAssumed, DP!StatusIsExplained, DP!NoRecoveryUnheard, PTL

(* The types of what is the process's own.                                 *)
OwnTypes ==
  /\ isRunning \in BOOLEAN /\ gaveUp \in BOOLEAN
  /\ clients \subseteq Peers
  /\ memory \subseteq Puts /\ saved \subseteq memory
  /\ spawned \in [Peers -> 0..MaxPending]

LEMMA OwnTypesStep ==
  ASSUME OwnTypes, [Next]_vars
  PROVE  OwnTypes'
<1>1. CASE UNCHANGED <<life, memory, saved, spawned>>
  BY <1>1 DEF OwnTypes, life
<1>2. CASE Main
  BY <1>2 DEF OwnTypes, Main, Serve, Signal, Drained, GiveUp, StopDetector, CloseStorage,
     StopRunning, Exit, life, requests
<1>3. ASSUME NEW w \in Puts, Handler(w) PROVE OwnTypes'
  BY <1>3 DEF OwnTypes, Handler, Receive, Accept, Refuse, StoreLocally, QuorumPut,
     QuorumFails, life
<1>4. ASSUME NEW p \in Nodes, RegisterClient(p) PROVE OwnTypes'
  BY <1>4 DEF OwnTypes, RegisterClient, Listed, requests
<1>5. ASSUME NEW p \in Peers, MapRace(p) PROVE OwnTypes'
  BY <1>5 DEF OwnTypes, MapRace, requests
<1>6. ASSUME NEW p \in Peers, NEW s \in Detector!News, OnNodeStatusChange(p, s) PROVE OwnTypes'
  <2>1. spawned' \in [Peers -> 0..MaxPending]
    BY <1>6, NodeAssumption DEF OwnTypes, OnNodeStatusChange
  <2> QED
    BY <1>6, <2>1 DEF OwnTypes, OnNodeStatusChange, life, requests
<1>7. ASSUME NEW p \in Peers, DeliverHintsToNode(p) PROVE OwnTypes'
  <2>1. spawned' \in [Peers -> 0..MaxPending]
    BY <1>7, NodeAssumption DEF OwnTypes, DeliverHintsToNode, Spawned
  <2> QED
    BY <1>7, <2>1 DEF OwnTypes, DeliverHintsToNode, Spawned, life, requests
<1>8. ASSUME \/ Detect \/ Expire
             \/ \E p \in Nodes : WatchPeer(p)
             \/ \E k \in Deliverers : Deliver(k)
             \/ UNCHANGED vars
      PROVE  UNCHANGED <<life, memory, saved, spawned>>
  BY <1>8 DEF Detect, Expire, WatchPeer, Deliver, vars, requests
<1> QED
  BY <1>1, <1>2, <1>3, <1>4, <1>5, <1>6, <1>7, <1>8 DEF Next, Running, Alive

(* Types, of the process and of its parts.                                 *)
THEOREM TypeCorrect == Spec => []TypeOK
<1>0. ASSUME Init PROVE OwnTypes
  <2>1. isRunning \in BOOLEAN /\ gaveUp \in BOOLEAN
    BY <1>0 DEF Init
  <2>2. spawned \in [Peers -> 0..MaxPending]
    <3>1. 0 \in 0..MaxPending
      BY NodeAssumption
    <3> QED
      BY <1>0, <3>1 DEF Init
  <2>3. clients \subseteq Peers /\ memory \subseteq Puts /\ saved \subseteq memory
    BY <1>0 DEF Init
  <2> QED
    BY <2>1, <2>2, <2>3 DEF OwnTypes
<1>1. Init => OwnTypes /\ PartsInv /\ RecoveryInv /\ LifeInv
  BY <1>0, PartsAtStart, RecoveryAtStart, LifeAtStart
<1>2. OwnTypes /\ PartsInv /\ RecoveryInv /\ LifeInv /\ [Next]_vars
        => (OwnTypes /\ PartsInv /\ RecoveryInv /\ LifeInv)'
  BY OwnTypesStep, PartsStep, RecoveryStep, LifeStep
<1>3. OwnTypes /\ PartsInv /\ RecoveryInv /\ LifeInv => TypeOK
  BY TypesAreTheSame, DetectorTypes
     DEF OwnTypes, PartsInv, HP!HandoffInv, DP!DetectorInv, RecoveryInv, OwedOK, LifeInv,
         Mains, Progress, TypeOK
<1> QED
  BY <1>1, <1>2, <1>3, PTL DEF Spec
=============================================================================

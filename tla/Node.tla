-------------------------------- MODULE Node --------------------------------
(***************************************************************************)
(* One distri-kv process from its start to its exit: main of               *)
(* cmd/distri-kv/main.go, Server.Start and Stop of internal/api/server.go, *)
(* Start, joinCluster, Stop, Put and onNodeStatusChange of                 *)
(* internal/node/node.go.  It composes the failure detector, whose         *)
(* callbacks start the deliveries, with the hinted handoff, whose lists    *)
(* the puts fill.                                                          *)
(*                                                                         *)
(* Abstractions.  Every put has a key of its own, so what the storage      *)
(* engine holds of it is whether it is in memory and whether it is on disk *)
(* (module StorageEngine has the files).  Every node is a replica of every *)
(* key, and what the replicas answered is one step (module QuorumManager   *)
(* has the goroutines).  Gets and deletes neither store hints nor save.    *)
(***************************************************************************)
EXTENDS Naturals, Sequences, SequencesExt

CONSTANTS
  Puts,        \* the PUT requests of the workload
  Peers,       \* Config.ClusterNodes without this node's address
  Self,        \* this node; its address may be among ClusterNodes
  W,           \* QuorumConfig.W
  MaxFails,    \* FailureDetector.maxConsecutiveFails
  MaxHints,    \* HintedHandoff.maxHints
  MaxRetries,  \* Hint.MaxRetries
  Deliverers,  \* bound: deliveries going on at the same time
  MaxPings,    \* bound: heartbeats to a peer that are not answered yet
  MaxPending   \* bound: callbacks, or deliveries to start, for a peer

Nodes == Peers \cup {Self}

ASSUME NodeAssumption ==
  /\ IsFiniteSet(Puts) /\ IsFiniteSet(Peers) /\ Self \notin Peers
  /\ W \in 1..Cardinality(Nodes)
  /\ MaxHints \in Nat /\ MaxRetries \in Nat \ {0}
  /\ MaxFails \in Nat \ {0} /\ MaxPings \in Nat \ {0} /\ MaxPending \in Nat \ {0}

VARIABLES
  main,       \* how far main is
  isRunning,  \* Node.isRunning
  clients,    \* Node.nodeClients: the peers that have one
  put,        \* put[w]: how far the handler of put w is
  memory,     \* the puts in the memory of the storage engine
  saved,      \* the puts on disk
  spawned,    \* spawned[p]: goroutines about to call DeliverHintsToNode
  gaveUp,     \* history: Shutdown did not wait for all requests
  owed        \* history: hints a recovered peer is owed, not tried yet

VARIABLES running, workers, status, fails, silent, pings, pending
Detector == INSTANCE FailureDetector
detector == <<running, workers, status, fails, silent, pings, pending>>

VARIABLES hints, retries, old, at, target, copy, next, succeeded, read,
          unsafe, stored, delivered, dropped
Handoff == INSTANCE HintedHandoff WITH Writes <- Puts
handoff == <<hints, retries, old, at, target, copy, next, succeeded, read,
             unsafe, stored, delivered, dropped>>

life == <<main, isRunning, clients, gaveUp>>
requests == <<put, memory>>
vars == <<life, requests, saved, spawned, owed, detector, handoff>>

TypeOK ==
  /\ main \in {"joining", "serving", "draining", "stopping", "closing",
               "closed", "exiting", "exited"}
  /\ isRunning \in BOOLEAN /\ gaveUp \in BOOLEAN
  /\ clients \subseteq Peers
  /\ put \in [Puts -> {"none", "received", "accepted", "stored", "acked", "failed"}]
  /\ memory \subseteq Puts /\ saved \subseteq memory
  /\ spawned \in [Peers -> 0..MaxPending]
  /\ owed \subseteq Handoff!Pending
  /\ Detector!TypeOK /\ Handoff!TypeOK

(* NewNode has returned and Start has started the failure detector.        *)
Init ==
  /\ main = "joining" /\ isRunning = FALSE /\ clients = {} /\ gaveUp = FALSE
  /\ put = [w \in Puts |-> "none"] /\ memory = {} /\ saved = {}
  /\ spawned = [p \in Peers |-> 0]
  /\ owed = {}
  /\ Detector!Init /\ Handoff!Init

----------------------------------------------------------------------------
(* Starting: joinCluster, then Node.Start and Server.Start return.         *)

Listed == {p \in Peers : status[p] # "none"}

WatchPeer(p) ==  \* the node's own address is left out
  /\ main = "joining" /\ p # Self
  /\ p \notin Listed /\ Listed = clients
  /\ Detector!AddNode(p)
  /\ UNCHANGED <<life, requests, saved, spawned, owed, handoff>>

RegisterSelf(p) ==  \* mutant: the node's own address is not left out
  /\ main = "joining"
  /\ p \in (Listed \cup {Self}) \ clients
  /\ clients' = clients \cup {p}
  /\ UNCHANGED <<main, isRunning, gaveUp, requests, saved, spawned, owed, detector, handoff>>

RegisterClient(p) ==
  /\ main = "joining"
  /\ p \in Listed \ clients
  /\ clients' = clients \cup {p}
  /\ UNCHANGED <<main, isRunning, gaveUp, requests, saved, spawned, owed, detector, handoff>>

Serve ==
  /\ main = "joining" /\ clients = Peers
  /\ main' = "serving" /\ isRunning' = TRUE
  /\ UNCHANGED <<clients, gaveUp, requests, saved, spawned, owed, detector, handoff>>

----------------------------------------------------------------------------
(* handlePut and Node.Put, one goroutine per request.                      *)

Moves(w, from, to) == put[w] = from /\ put' = [put EXCEPT ![w] = to]

Receive(w) ==
  /\ main = "serving"
  /\ Moves(w, "none", "received")
  /\ UNCHANGED <<life, memory, saved, spawned, owed, detector, handoff>>

Accept(w) ==
  /\ isRunning
  /\ Moves(w, "received", "accepted")
  /\ UNCHANGED <<life, memory, saved, spawned, owed, detector, handoff>>

Refuse(w) ==  \* "node is not running"
  /\ ~isRunning
  /\ Moves(w, "received", "failed")
  /\ UNCHANGED <<life, memory, saved, spawned, owed, detector, handoff>>

StoreLocally(w) ==
  /\ Moves(w, "accepted", "stored")
  /\ memory' = memory \cup {w}
  /\ UNCHANGED <<life, saved, spawned, owed, detector, handoff>>

(* QuorumManager.Put has its answers; the node itself refuses only when it *)
(* was stopped, and the failed ones get a hint in the order they answered. *)
QuorumPut(w) ==
  /\ Moves(w, "stored", "acked")
  /\ \E failed \in {<<>>} \cup Handoff!FailedLists :
       /\ Len(failed) + W <= Cardinality(Nodes)
       /\ Self \in ToSet(failed) => ~isRunning
       /\ Handoff!StoreHint(w, failed)
  /\ UNCHANGED <<life, memory, saved, spawned, owed, detector>>

QuorumFails(w) ==  \* too few answers, or the context ended
  /\ Moves(w, "stored", "failed")
  /\ UNCHANGED <<life, memory, saved, spawned, owed, detector, handoff>>

----------------------------------------------------------------------------
(* The failure detector at work, and the hints of the peers it found to    *)
(* have recovered.                                                         *)

Recovered == {p \in Peers : status[p] # "healthy" /\ status'[p] = "healthy"}

Detect ==
  /\ \/ Detector!SendHeartbeats
     \/ Detector!CheckNodeHealth
     \/ \E p \in Peers : Detector!Answered(p) \/ Detector!Missed(p) \/ Detector!TimePasses(p)
     \/ \E w \in Detector!Workers : Detector!Return(w)
  /\ owed' = owed \cup {h \in Handoff!Pending : h[2] \in Recovered}
  /\ UNCHANGED <<life, requests, saved, spawned, handoff>>

(* Mutant: the delivery starts for peers that failed.                      *)
OnFailedStatus(p, s) ==
  /\ IF s = "failed" /\ p \in clients
     THEN spawned[p] < MaxPending /\ spawned' = [spawned EXCEPT ![p] = @ + 1]
     ELSE UNCHANGED spawned
  /\ Detector!RunCallback(p, s)
  /\ UNCHANGED <<life, requests, saved, owed, handoff>>

OnNodeStatusChange(p, s) ==
  /\ IF s = "healthy" /\ p \in clients
     THEN spawned[p] < MaxPending /\ spawned' = [spawned EXCEPT ![p] = @ + 1]
     ELSE UNCHANGED spawned
  /\ Detector!RunCallback(p, s)
  /\ UNCHANGED <<life, requests, saved, owed, handoff>>

(* The callback reads nodeClients without the lock: if joinCluster writes  *)
(* it at that moment, the runtime may end the process.                     *)
MapRace(p) ==
  /\ main = "joining" /\ clients # Peers
  /\ pending[p]["healthy"] > 0
  /\ main' = "exited"
  /\ UNCHANGED <<isRunning, clients, gaveUp, requests, saved, spawned, owed, detector, handoff>>

----------------------------------------------------------------------------
(* The hinted handoff at work.                                             *)

Spawned(p) ==
  /\ spawned[p] > 0
  /\ spawned' = [spawned EXCEPT ![p] = @ - 1]
  /\ UNCHANGED <<life, requests, saved, owed, detector>>

(* Mutant: a delivery is left to the one that is under way to the peer.    *)
DeliverOnce(p) ==
  /\ Spawned(p)
  /\ IF hints[p] = <<>> \/ Handoff!BusyWith(p) # {}
     THEN UNCHANGED handoff
     ELSE \E k \in Deliverers : Handoff!StartDelivery(k, p)

DeliverHintsToNode(p) ==
  /\ Spawned(p)
  /\ IF hints[p] = <<>> THEN UNCHANGED handoff
     ELSE \E k \in Deliverers : Handoff!StartDelivery(k, p)

(* A step of delivery k.  A hint has been tried when its answer is there.  *)
Deliver(k) ==
  /\ Handoff!Deliver(k)
  /\ owed' = IF at[k] = "sending" THEN owed \ {copy[k][next[k]]}
             ELSE owed \cap Handoff!Pending'
  /\ UNCHANGED <<life, requests, saved, spawned, detector>>

Expire ==
  /\ \/ \E h \in Handoff!Hints : Handoff!GetOld(h)
     \/ Handoff!ExpireHints
  /\ owed' = owed \cap Handoff!Pending'
  /\ UNCHANGED <<life, requests, saved, spawned, detector>>

----------------------------------------------------------------------------
(* Shutting down: main has caught a signal, Server.Stop, Node.Stop.        *)

Active == {w \in Puts : put[w] \in {"received", "accepted", "stored"}}

MainGoes(from, to) == main = from /\ main' = to

Signal ==  \* Shutdown closes the listeners and waits for the handlers
  /\ MainGoes("serving", "draining")
  /\ UNCHANGED <<isRunning, clients, gaveUp, requests, saved, spawned, owed, detector, handoff>>

DrainedAtOnce ==  \* mutant: Server.Stop calls Close instead of Shutdown
  /\ MainGoes("draining", "stopping")
  /\ UNCHANGED <<isRunning, clients, gaveUp, requests, saved, spawned, owed, detector, handoff>>

Drained ==
  /\ MainGoes("draining", "stopping")
  /\ Active = {}
  /\ UNCHANGED <<isRunning, clients, gaveUp, requests, saved, spawned, owed, detector, handoff>>

GiveUp ==  \* 30 seconds are over; main logs the error and goes on
  /\ MainGoes("draining", "stopping")
  /\ Active # {}
  /\ gaveUp' = TRUE
  /\ UNCHANGED <<isRunning, clients, requests, saved, spawned, owed, detector, handoff>>

StopDetector ==
  /\ MainGoes("stopping", "closing")
  /\ Detector!Stop
  /\ UNCHANGED <<isRunning, clients, gaveUp, requests, saved, spawned, owed, handoff>>

CloseStorage ==  \* saves the entries in memory (the disk works)
  /\ MainGoes("closing", "closed")
  /\ saved' = saved \cup memory
  /\ UNCHANGED <<isRunning, clients, gaveUp, requests, spawned, owed, detector, handoff>>

StopRunning ==
  /\ MainGoes("closed", "exiting")
  /\ isRunning' = FALSE
  /\ UNCHANGED <<clients, gaveUp, requests, saved, spawned, owed, detector, handoff>>

Exit ==  \* main returns, and every goroutine is gone
  /\ MainGoes("exiting", "exited")
  /\ UNCHANGED <<isRunning, clients, gaveUp, requests, saved, spawned, owed, detector, handoff>>

----------------------------------------------------------------------------
Main == Serve \/ Signal \/ Drained \/ GiveUp \/ StopDetector \/ CloseStorage
          \/ StopRunning \/ Exit

Handler(w) ==
  \/ Receive(w) \/ Accept(w) \/ Refuse(w)
  \/ StoreLocally(w) \/ QuorumPut(w) \/ QuorumFails(w)

Alive ==
  \/ Main
  \/ \E p \in Nodes : WatchPeer(p) \/ RegisterClient(p)
  \/ \E w \in Puts : Handler(w)
  \/ Detect
  \/ \E p \in Peers, s \in Detector!News : OnNodeStatusChange(p, s)
  \/ \E p \in Peers : MapRace(p) \/ DeliverHintsToNode(p)
  \/ \E k \in Deliverers : Deliver(k)
  \/ Expire

Running(A) == main # "exited" /\ A
Next == Running(Alive)

Spec == Init /\ [][Next]_vars

(* The goroutines that callbacks and deliveries run in get their turn, and *)
(* a hint that is sent is answered within five seconds.  Nothing is        *)
(* assumed of the requests, the heartbeats and their answers, or of main.  *)
FairSpec ==
  /\ Spec
  /\ \A p \in Peers :
       /\ WF_vars(Running(OnNodeStatusChange(p, "healthy")))
       /\ WF_vars(Running(DeliverHintsToNode(p)))
  /\ \A k \in Deliverers : WF_vars(Running(Deliver(k)))

----------------------------------------------------------------------------
(* Properties.                                                             *)

(* A recovery is not missed between the detector, the callback, the        *)
(* goroutine it spawns and the copy that one takes: as long as a hint that *)
(* was stored when its peer was found healthy again has not been tried nor *)
(* taken off the list, one of them is still going to see to it.            *)
RecoveryIsSeenTo ==
  \A h \in owed :
    LET p == h[2] IN
    \/ pending[p]["healthy"] > 0
    \/ spawned[p] > 0
    \/ \E k \in Handoff!BusyWith(p) : \E i \in DOMAIN copy[k] :
         /\ copy[k][i] = h
         /\ IF at[k] = "sending" THEN i >= next[k] ELSE i > next[k]

(* So every such hint is tried, unless its list loses it or main returns.  *)
RecoveredPeersGetHints ==
  \A h \in Handoff!Hints : h \in owed ~> h \notin owed \/ main = "exited"

(* If Shutdown could wait for the handlers, none of them finds the node    *)
(* stopped, and what a client was told is stored is on disk when the       *)
(* process ends: the API is stopped before the storage is closed, and the  *)
(* node says it is running until then.                                     *)
DrainedShutdownKeepsPuts ==
  ~gaveUp =>
    /\ Active # {} => isRunning
    /\ main = "exited" => \A w \in Puts : put[w] = "acked" => w \in saved
=============================================================================

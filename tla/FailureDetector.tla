-------------------------- MODULE FailureDetector --------------------------
(***************************************************************************)
(* internal/failure/detector.go: the table of peers, the worker that sends *)
(* heartbeats, the goroutines that wait for their answers, the worker that *)
(* looks for silent peers, and the callbacks that tell the node of changes.*)
(*                                                                         *)
(* Every access to the table holds the lock, so each handler is one step;  *)
(* what interleaves are the answers, the two workers and the callbacks,    *)
(* which run in goroutines of their own and in no particular order.        *)
(* The time of the last heartbeat is abstracted to whether it is longer    *)
(* ago than timeoutThreshold.  One callback is registered, as NewNode does.*)
(***************************************************************************)
EXTENDS Naturals

CONSTANTS
  Peers,
  MaxFails,   \* maxConsecutiveFails
  MaxPings,   \* bound: heartbeats to a peer that are not answered yet
  MaxPending  \* bound: callbacks about a peer's new status still to run

ASSUME DetectorAssumption ==
  /\ MaxFails \in Nat \ {0}
  /\ MaxPings \in Nat \ {0} /\ MaxPending \in Nat \ {0}

VARIABLES
  running,  \* isRunning; after Stop stopChan is closed
  workers,  \* the workers that have not returned
  status,   \* status[p]: Status, or "none" when p is not in the table
  fails,    \* fails[p]: ConsecutiveFails, counted up to MaxFails
  silent,   \* silent[p]: no heartbeat for longer than timeoutThreshold
  pings,    \* pings[p]: how many sendHeartbeatToNode goroutines wait for p
  pending   \* pending[p][s]: callbacks to run that tell p's new status s

vars == <<running, workers, status, fails, silent, pings, pending>>
evidence == <<fails, silent>>

News == {"healthy", "suspected", "failed"}
Statuses == News \cup {"unknown", "none"}
Workers == {"heartbeat", "monitor"}
Monitored == {p \in Peers : status[p] # "none"}

TypeOK ==
  /\ running \in BOOLEAN /\ workers \in SUBSET Workers
  /\ status \in [Peers -> Statuses]
  /\ fails \in [Peers -> 0..MaxFails]
  /\ silent \in [Peers -> BOOLEAN]
  /\ pings \in [Peers -> 0..MaxPings]
  /\ pending \in [Peers -> [News -> 0..MaxPending]]

(* Node.Start has started the detector and joins the cluster next.         *)
Init ==
  /\ running = TRUE /\ workers = Workers
  /\ status = [p \in Peers |-> "none"]
  /\ fails = [p \in Peers |-> 0]
  /\ silent = [p \in Peers |-> FALSE]
  /\ pings = [p \in Peers |-> 0]
  /\ pending = [p \in Peers |-> [s \in News |-> 0]]

----------------------------------------------------------------------------
(* The table.                                                              *)

Enter(p, s) ==
  /\ status' = [status EXCEPT ![p] = s]
  /\ fails' = [fails EXCEPT ![p] = 0]
  /\ silent' = [silent EXCEPT ![p] = FALSE]
  /\ UNCHANGED <<running, workers, pings, pending>>

AddNode(p) == Enter(p, "unknown")  \* replaces an entry that is there
RemoveNode(p) == Enter(p, "none")

(* The status becomes s, and if it was another one a callback is spawned.  *)
Becomes(p, s) ==
  /\ status' = [status EXCEPT ![p] = s]
  /\ IF status[p] = s
     THEN UNCHANGED pending
     ELSE /\ pending[p][s] < MaxPending
          /\ pending' = [pending EXCEPT ![p][s] = @ + 1]

HeardAsRecovered(p) ==  \* mutant: failed peers become StatusRecovered
  /\ IF status[p] = "failed"
     THEN status' = [status EXCEPT ![p] = "recovered"] /\ UNCHANGED pending
     ELSE Becomes(p, "healthy")
  /\ fails' = [fails EXCEPT ![p] = 0]
  /\ silent' = [silent EXCEPT ![p] = FALSE]

HeardKeepingFails(p) ==  \* mutant: ConsecutiveFails is not reset
  /\ Becomes(p, "healthy")
  /\ silent' = [silent EXCEPT ![p] = FALSE]
  /\ UNCHANGED fails

HeardUnlessFailed(p) ==  \* mutant: the switch forgets StatusFailed
  /\ Becomes(p, IF status[p] = "failed" THEN "failed" ELSE "healthy")
  /\ fails' = [fails EXCEPT ![p] = 0]
  /\ silent' = [silent EXCEPT ![p] = FALSE]

Heard(p) ==
  /\ Becomes(p, "healthy")
  /\ fails' = [fails EXCEPT ![p] = 0]
  /\ silent' = [silent EXCEPT ![p] = FALSE]

UpdateHeartbeat(p) ==  \* an unknown sender is added, without a callback
  \/ p \in Monitored /\ Heard(p) /\ UNCHANGED <<running, workers, pings>>
  \/ p \notin Monitored /\ Enter(p, "healthy")

----------------------------------------------------------------------------
(* heartbeatWorker, sendHeartbeats, sendHeartbeatToNode                    *)

SendHeartbeats ==
  /\ "heartbeat" \in workers
  /\ \A p \in Monitored : pings[p] < MaxPings
  /\ pings' = [p \in Peers |-> IF p \in Monitored THEN pings[p] + 1 ELSE pings[p]]
  /\ UNCHANGED <<running, workers, status, evidence, pending>>

(* A goroutine whose heartbeat was answered or given up processes that.    *)
Answers(p) ==
  /\ pings[p] > 0
  /\ pings' = [pings EXCEPT ![p] = @ - 1]
  /\ UNCHANGED <<running, workers>>

Ignored(p) ==  \* the peer was removed meanwhile
  /\ p \notin Monitored
  /\ Answers(p)
  /\ UNCHANGED <<status, evidence, pending>>

Answered(p) ==
  /\ p \in Monitored
  /\ Answers(p)
  /\ Heard(p)

MissedSuspects(p) ==  \* mutant: a late failure makes a failed peer suspected
  /\ p \in Monitored
  /\ Answers(p)
  /\ LET n == IF fails[p] < MaxFails THEN fails[p] + 1 ELSE MaxFails IN
       /\ fails' = [fails EXCEPT ![p] = n]
       /\ Becomes(p, IF n = MaxFails THEN "failed" ELSE "suspected")
  /\ UNCHANGED silent

MissedOnce(p) ==  \* mutant: only the first failure of a healthy peer counts
  /\ p \in Monitored
  /\ Answers(p)
  /\ IF status[p] = "healthy"
     THEN fails' = [fails EXCEPT ![p] = 1] /\ Becomes(p, "suspected")
     ELSE UNCHANGED <<fails, status, pending>>
  /\ UNCHANGED silent

Missed(p) ==
  /\ p \in Monitored
  /\ Answers(p)
  /\ LET n == IF fails[p] < MaxFails THEN fails[p] + 1 ELSE MaxFails IN
       /\ fails' = [fails EXCEPT ![p] = n]
       /\ Becomes(p, IF n = MaxFails THEN "failed"
                     ELSE IF status[p] = "healthy" THEN "suspected" ELSE status[p])
  /\ UNCHANGED silent

----------------------------------------------------------------------------
(* monitoringWorker, checkNodeHealth                                       *)

TimePasses(p) ==  \* the last heartbeat is now too long ago
  /\ p \in Monitored /\ ~silent[p]
  /\ silent' = [silent EXCEPT ![p] = TRUE]
  /\ UNCHANGED <<running, workers, status, fails, pings, pending>>

Silent == {p \in Monitored : silent[p] /\ status[p] # "failed"}

CheckNodeHealth ==
  /\ "monitor" \in workers
  /\ Silent # {}
  /\ \A p \in Silent : pending[p]["failed"] < MaxPending
  /\ status' = [p \in Peers |-> IF p \in Silent THEN "failed" ELSE status[p]]
  /\ pending' = [p \in Peers |->
       IF p \in Silent THEN [pending[p] EXCEPT !["failed"] = @ + 1] ELSE pending[p]]
  /\ UNCHANGED <<running, workers, evidence, pings>>

----------------------------------------------------------------------------
(* Node.onNodeStatusChange runs; for a healthy peer it starts a delivery   *)
(* of its hints (module HintedHandoff), for others it writes to the log.   *)
RunCallback(p, s) ==
  /\ pending[p][s] > 0
  /\ pending' = [pending EXCEPT ![p][s] = @ - 1]
  /\ UNCHANGED <<running, workers, status, evidence, pings>>

Stop ==
  /\ running
  /\ running' = FALSE
  /\ UNCHANGED <<workers, status, evidence, pings, pending>>

ReturnMonitor(w) ==  \* mutant: heartbeatWorker does not look at stopChan
  /\ ~running
  /\ w = "monitor"
  /\ w \in workers
  /\ workers' = workers \ {w}
  /\ UNCHANGED <<running, status, evidence, pings, pending>>

Return(w) ==  \* a worker finds stopChan closed, maybe after one more tick
  /\ ~running
  /\ w \in workers
  /\ workers' = workers \ {w}
  /\ UNCHANGED <<running, status, evidence, pings, pending>>

----------------------------------------------------------------------------
Next ==
  \/ SendHeartbeats \/ CheckNodeHealth \/ Stop
  \/ \E p \in Peers :
       \/ AddNode(p) \/ RemoveNode(p) \/ UpdateHeartbeat(p)
       \/ Answered(p) \/ Missed(p) \/ Ignored(p) \/ TimePasses(p)
  \/ \E p \in Peers, s \in News : RunCallback(p, s)
  \/ \E w \in Workers : Return(w)

Spec == Init /\ [][Next]_vars

(* The tickers tick, heartbeats end after two seconds at the latest, the   *)
(* callbacks run, and a closed channel is noticed.  Whether a heartbeat is *)
(* answered is up to the peer.  Where MaxPings and MaxPending, bounds that *)
(* the code does not have, may stop a goroutine now and then, the fairness *)
(* is strong.                                                              *)
FairSpec ==
  /\ Spec
  /\ SF_vars(SendHeartbeats) /\ SF_vars(CheckNodeHealth)
  /\ \A p \in Peers : SF_vars(Answered(p) \/ Missed(p) \/ Ignored(p))
  /\ \A p \in Peers, s \in News : WF_vars(RunCallback(p, s))
  /\ \A w \in Workers : WF_vars(Return(w))

----------------------------------------------------------------------------
(* Properties.                                                             *)

(* The status of a peer says what the detector knows of it, whichever of   *)
(* the handlers it was set by: failed only after MaxFails heartbeats in a  *)
(* row failed or none came for too long, and otherwise not yet so many.    *)
StatusMatchesEvidence ==
  \A p \in Peers :
    /\ status[p] = "healthy" => fails[p] = 0
    /\ status[p] = "suspected" => fails[p] \in 1..MaxFails - 1
    /\ status[p] = "unknown" => fails[p] < MaxFails
    /\ status[p] = "failed" => fails[p] = MaxFails \/ silent[p]

(* A failed peer that is still in the table stays failed until a heartbeat *)
(* of it is heard: a late failure does not make it merely suspected.       *)
FailedUntilHeard ==
  [][\A p \in Peers : status[p] = "failed" /\ status'[p] # "failed" =>
       fails'[p] = 0 /\ ~silent'[p] /\ status'[p] # "suspected"]_vars

(* A peer that is not heard of any more is failed in the end, though late  *)
(* answers, the monitor and the callbacks are still under way then, unless *)
(* it is taken off the table or added anew.                                *)
DeadPeersFail ==
  \A p \in Peers :
    <>[][~Answered(p) /\ ~UpdateHeartbeat(p) /\ ~AddNode(p)]_vars =>
      <>[](~running \/ status[p] \in {"failed", "none"})

(* A peer that answers every heartbeat in time is healthy in the end, and  *)
(* is not taken down again by failures of before.                          *)
AnsweringPeersAreHealthy ==
  \A p \in Peers :
    <>[][~Missed(p) /\ ~TimePasses(p) /\ ~AddNode(p)]_vars =>
      <>[](~running \/ status[p] \in {"healthy", "none"})

(* After Stop the detector comes to rest: both workers return, and the     *)
(* heartbeats that were under way end without new ones being sent.         *)
StopEnds ==
  ~running ~> workers = {} /\ \A p \in Peers : pings[p] = 0
=============================================================================

----------------------- MODULE FailureDetectorProofs -----------------------
(* The status of a peer matches what is known of it, for any peers and any *)
(* number of failures that is tolerated.                                   *)
EXTENDS FailureDetector, TLAPS

DetectorInv == TypeOK /\ StatusMatchesEvidence

LEMMA BecomesType ==
  ASSUME TypeOK, NEW p \in Peers, NEW s \in Statuses \ {"none"}, Becomes(p, s),
         s \in News \/ s = status[p]
  PROVE  /\ status' = [status EXCEPT ![p] = s] /\ status' \in [Peers -> Statuses]
         /\ pending' \in [Peers -> [News -> 0..MaxPending]]
<1>1. status' = [status EXCEPT ![p] = s] /\ status' \in [Peers -> Statuses]
  BY DEF Becomes, TypeOK
<1>2. CASE status[p] = s
  BY <1>1, <1>2 DEF Becomes, TypeOK
<1>3. CASE status[p] # s
  <2>1. s \in News /\ pending[p][s] < MaxPending /\ pending[p] \in [News -> 0..MaxPending]
    BY <1>3 DEF Becomes, TypeOK
  <2>2. pending[p][s] + 1 \in 0..MaxPending
    BY <2>1, DetectorAssumption
  <2>3. pending' = [pending EXCEPT ![p] = [pending[p] EXCEPT ![s] = pending[p][s] + 1]]
    BY <1>3 DEF Becomes
  <2> QED
    BY <1>1, <2>1, <2>2, <2>3 DEF TypeOK
<1> QED
  BY <1>2, <1>3

LEMMA HeardStep ==
  ASSUME DetectorInv, NEW p \in Peers, Heard(p), UNCHANGED <<running, workers>>,
         pings' \in [Peers -> 0..MaxPings]
  PROVE  DetectorInv'
<1>1. /\ status' = [status EXCEPT ![p] = "healthy"] /\ status' \in [Peers -> Statuses]
      /\ pending' \in [Peers -> [News -> 0..MaxPending]]
  BY BecomesType DEF Heard, DetectorInv, News, Statuses
<1>2. TypeOK'
  BY <1>1, DetectorAssumption DEF Heard, DetectorInv, TypeOK
<1>3. StatusMatchesEvidence'
  BY <1>1 DEF Heard, DetectorInv, TypeOK, StatusMatchesEvidence
<1> QED
  BY <1>2, <1>3 DEF DetectorInv

LEMMA EnterStep ==
  ASSUME DetectorInv, NEW p \in Peers, NEW s \in {"none", "unknown", "healthy"}, Enter(p, s)
  PROVE  DetectorInv'
<1>1. TypeOK'
  BY DetectorAssumption DEF DetectorInv, TypeOK, Enter, Statuses, News
<1>2. StatusMatchesEvidence'
  BY DetectorAssumption DEF DetectorInv, TypeOK, Enter, StatusMatchesEvidence
<1> QED
  BY <1>1, <1>2 DEF DetectorInv

(* A heartbeat goroutine ends.                                             *)
LEMMA AnswersType ==
  ASSUME TypeOK, NEW p \in Peers, Answers(p)
  PROVE  pings' \in [Peers -> 0..MaxPings] /\ UNCHANGED <<running, workers>>
  BY DetectorAssumption DEF TypeOK, Answers

LEMMA MissedStep ==
  ASSUME DetectorInv, NEW p \in Peers, Missed(p)
  PROVE  DetectorInv'
<1> DEFINE n == IF fails[p] < MaxFails THEN fails[p] + 1 ELSE MaxFails
           s == IF n = MaxFails THEN "failed"
                ELSE IF status[p] = "healthy" THEN "suspected" ELSE status[p]
<1>1. TypeOK /\ fails[p] \in 0..MaxFails /\ n \in 1..MaxFails /\ status[p] \in Statuses \ {"none"}
  BY DetectorAssumption DEF DetectorInv, TypeOK, Missed, Monitored
<1>2. s \in Statuses \ {"none"} /\ (s \in News \/ s = status[p])
  BY <1>1 DEF Statuses, News
<1>3. /\ fails' = [fails EXCEPT ![p] = n] /\ Becomes(p, s) /\ silent' = silent
      /\ Answers(p)
  BY DEF Missed
<1>4. pings' \in [Peers -> 0..MaxPings] /\ UNCHANGED <<running, workers>>
  BY <1>1, <1>3, AnswersType
<1>5. /\ status' = [status EXCEPT ![p] = s] /\ status' \in [Peers -> Statuses]
      /\ pending' \in [Peers -> [News -> 0..MaxPending]]
  <2> HIDE DEF s
  <2> QED
    BY <1>1, <1>2, <1>3, BecomesType
<1>6. TypeOK'
  <2> HIDE DEF n, s
  <2> QED
    BY <1>1, <1>3, <1>4, <1>5, DetectorAssumption DEF TypeOK
<1>7. StatusMatchesEvidence'
  <2>1. ASSUME NEW q \in Peers, q # p
        PROVE  status'[q] = status[q] /\ fails'[q] = fails[q] /\ silent'[q] = silent[q]
    BY <1>1, <1>3, <1>5, <2>1 DEF TypeOK
  <2>2. status'[p] = s /\ fails'[p] = n /\ silent'[p] = silent[p]
    BY <1>1, <1>3, <1>5 DEF TypeOK
  <2>3. /\ s # "healthy"
        /\ s = "suspected" => n \in 1..MaxFails - 1
        /\ s = "unknown" => n < MaxFails
        /\ s = "failed" => n = MaxFails \/ silent[p]
    BY <1>1, DetectorAssumption DEF DetectorInv, StatusMatchesEvidence
  <2> HIDE DEF n, s
  <2> QED
    BY <2>1, <2>2, <2>3 DEF DetectorInv, StatusMatchesEvidence
<1> QED
  BY <1>6, <1>7 DEF DetectorInv

LEMMA CheckStep ==
  ASSUME DetectorInv, CheckNodeHealth
  PROVE  DetectorInv'
<1>1. \A p \in Peers : pending'[p] \in [News -> 0..MaxPending]
  <2> SUFFICES ASSUME NEW p \in Peers PROVE pending'[p] \in [News -> 0..MaxPending]
    OBVIOUS
  <2>1. pending[p] \in [News -> 0..MaxPending] /\ "failed" \in News
    BY DEF DetectorInv, TypeOK, News
  <2>2. CASE p \in Silent
    <3>1. pending'[p] = [pending[p] EXCEPT !["failed"] = pending[p]["failed"] + 1]
          /\ pending[p]["failed"] < MaxPending
      BY <2>2 DEF CheckNodeHealth
    <3> QED
      BY <2>1, <3>1, DetectorAssumption
  <2>3. CASE p \notin Silent
    BY <2>1, <2>3 DEF CheckNodeHealth
  <2> QED
    BY <2>2, <2>3
<1>2. status' \in [Peers -> Statuses]
  BY DEF CheckNodeHealth, DetectorInv, TypeOK, Statuses, News
<1>3. TypeOK'
  BY <1>1, <1>2 DEF CheckNodeHealth, DetectorInv, TypeOK, evidence
<1>4. StatusMatchesEvidence'
  BY DEF CheckNodeHealth, DetectorInv, TypeOK, StatusMatchesEvidence, Silent, evidence
<1> QED
  BY <1>3, <1>4 DEF DetectorInv

LEMMA RestStep ==
  ASSUME DetectorInv,
         \/ SendHeartbeats \/ Stop \/ UNCHANGED vars
         \/ \E p \in Peers : TimePasses(p) \/ Ignored(p)
         \/ \E p \in Peers, s \in News : RunCallback(p, s)
         \/ \E w \in Workers : Return(w)
  PROVE  DetectorInv'
<1>1. CASE SendHeartbeats
  BY <1>1, DetectorAssumption
     DEF SendHeartbeats, DetectorInv, TypeOK, StatusMatchesEvidence, Monitored, evidence
<1>2. CASE Stop \/ UNCHANGED vars
  BY <1>2 DEF Stop, vars, DetectorInv, TypeOK, StatusMatchesEvidence, evidence
<1>3. ASSUME NEW p \in Peers, TimePasses(p) PROVE DetectorInv'
  BY <1>3 DEF TimePasses, DetectorInv, TypeOK, StatusMatchesEvidence
<1>4. ASSUME NEW p \in Peers, Ignored(p) PROVE DetectorInv'
  BY <1>4, AnswersType DEF Ignored, DetectorInv, TypeOK, StatusMatchesEvidence, evidence
<1>5. ASSUME NEW p \in Peers, NEW s \in News, RunCallback(p, s) PROVE DetectorInv'
  <2>1. pending[p] \in [News -> 0..MaxPending] /\ pending[p][s] > 0
    BY <1>5 DEF DetectorInv, TypeOK, RunCallback
  <2>2. [pending[p] EXCEPT ![s] = pending[p][s] - 1] \in [News -> 0..MaxPending]
    BY <2>1, DetectorAssumption
  <2>3. pending' \in [Peers -> [News -> 0..MaxPending]]
    BY <1>5, <2>2 DEF DetectorInv, TypeOK, RunCallback
  <2> QED
    BY <1>5, <2>3 DEF RunCallback, DetectorInv, TypeOK, StatusMatchesEvidence, evidence
<1>6. ASSUME NEW w \in Workers, Return(w) PROVE DetectorInv'
  BY <1>6 DEF Return, DetectorInv, TypeOK, StatusMatchesEvidence, evidence
<1> QED
  BY <1>1, <1>2, <1>3, <1>4, <1>5, <1>6

LEMMA DetectorStep == DetectorInv /\ [Next]_vars => DetectorInv'
<1> SUFFICES ASSUME DetectorInv, [Next]_vars PROVE DetectorInv'
  OBVIOUS
<1>1. ASSUME NEW p \in Peers, Answered(p) PROVE DetectorInv'
  BY <1>1, AnswersType, HeardStep DEF Answered, DetectorInv
<1>2. ASSUME NEW p \in Peers, AddNode(p) \/ RemoveNode(p) PROVE DetectorInv'
  BY <1>2, EnterStep DEF AddNode, RemoveNode
<1>3. ASSUME NEW p \in Peers, UpdateHeartbeat(p) PROVE DetectorInv'
  <2>1. CASE Heard(p) /\ UNCHANGED <<running, workers, pings>>
    BY <2>1, HeardStep DEF DetectorInv, TypeOK
  <2>2. CASE Enter(p, "healthy")
    BY <2>2, EnterStep
  <2> QED
    BY <1>3, <2>1, <2>2 DEF UpdateHeartbeat
<1> QED
  BY <1>1, <1>2, <1>3, MissedStep, CheckStep, RestStep DEF Next

(* The table has its types and matches the evidence in every state.        *)
THEOREM DetectorInvariant == Spec => []DetectorInv
<1>1. Init => DetectorInv
  BY DetectorAssumption DEF Init, DetectorInv, TypeOK, StatusMatchesEvidence, Statuses, News
<1> QED
  BY <1>1, DetectorStep, PTL DEF Spec

(* The table, the goroutines and the pending callbacks keep their types.   *)
THEOREM TypeCorrect == Spec => []TypeOK
<1>1. DetectorInv => TypeOK
  BY DEF DetectorInv
<1> QED
  BY <1>1, DetectorInvariant, PTL

(* No interleaving of answers, silence, additions and removals leaves a    *)
(* peer with a status that its evidence does not support.                  *)
THEOREM StatusIsExplained == Spec => []StatusMatchesEvidence
<1>1. DetectorInv => StatusMatchesEvidence
  BY DEF DetectorInv
<1> QED
  BY <1>1, DetectorInvariant, PTL

(* A failed peer comes back only by a heartbeat or by being added anew     *)
(* (processHeartbeatResponse, detector.go:209).                            *)
THEOREM NoRecoveryUnheard == Spec => FailedUntilHeard
<1> DEFINE Comeback(p) == status[p] = "failed" /\ status'[p] # "failed"
           Fresh(p) == fails'[p] = 0 /\ ~silent'[p] /\ status'[p] # "suspected"
<1>1. ASSUME DetectorInv, [Next]_vars, NEW p \in Peers, Comeback(p) PROVE Fresh(p)
  <2> USE <1>1 DEF DetectorInv, TypeOK, evidence
  <2>1. ASSUME NEW q \in Peers, NEW s \in {"none", "unknown", "healthy"}, Enter(q, s)
        PROVE  Fresh(p)
    BY <2>1 DEF Enter
  <2>2. ASSUME NEW q \in Peers, Heard(q) PROVE Fresh(p)
    BY <2>2 DEF Heard, Becomes
  <2>3. ASSUME NEW q \in Peers, Missed(q) PROVE Fresh(p)
    BY <2>3 DEF Missed, Becomes
  <2>4. CASE CheckNodeHealth
    BY <2>4 DEF CheckNodeHealth
  <2>5. CASE SendHeartbeats \/ Stop \/ UNCHANGED vars
    BY <2>5 DEF SendHeartbeats, Stop, vars
  <2>6. ASSUME NEW q \in Peers, TimePasses(q) \/ Ignored(q) PROVE Fresh(p)
    BY <2>6 DEF TimePasses, Ignored
  <2>7. ASSUME NEW q \in Peers, NEW s \in News, RunCallback(q, s) PROVE Fresh(p)
    BY <2>7 DEF RunCallback
  <2>8. ASSUME NEW w \in Workers, Return(w) PROVE Fresh(p)
    BY <2>8 DEF Return
  <2> HIDE DEF Fresh, DetectorInv, TypeOK, evidence
  <2> QED
    BY <2>1, <2>2, <2>3, <2>4, <2>5, <2>6, <2>7, <2>8
       DEF Next, Answered, UpdateHeartbeat, AddNode, RemoveNode
<1>2. DetectorInv /\ [Next]_vars => [\A p \in Peers : Comeback(p) => Fresh(p)]_vars
  BY <1>1
<1> QED
  BY <1>2, DetectorInvariant, PTL DEF Spec, FailedUntilHeard
=============================================================================

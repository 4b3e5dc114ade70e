------------------------ MODULE QuorumManagerProofs ------------------------
(* What QuorumManager guarantees for any number of requests and replicas.  *)
EXTENDS QuorumManager, FiniteSetTheorems, TLAPS

----------------------------------------------------------------------------
(* Type correctness, with the cap on stored hints.                         *)

(* Every set of hints and every set of replicas is finite.                 *)
LEMMA FiniteReplicas ==
  /\ IsFiniteSet(Replicas)
  /\ \A S \in SUBSET Replicas : IsFiniteSet(S) /\ Cardinality(S) \in Nat
  /\ \A S \in SUBSET (Puts \X Replicas) : IsFiniteSet(S) /\ Cardinality(S) \in Nat
<1>1. IsFiniteSet(Replicas)
  BY ReplicasAssumption
<1>2. IsFiniteSet(Puts)
  <2>1. IsFiniteSet(Ops) /\ Puts \in SUBSET Ops
    BY WorkloadAssumption DEF Ops
  <2> QED
    BY <2>1, FS_Subset
<1>3. IsFiniteSet(Puts \X Replicas)
  BY <1>1, <1>2, FS_Product
<1> QED
  BY <1>1, <1>3, FS_Subset, FS_CardinalityType

(* StoreHint keeps the hints well formed and within their cap.             *)
LEMMA StoreHintsType ==
  ASSUME TypeOK, NEW p \in Puts, NEW failed \in SUBSET Replicas,
         StoreHints(p, failed)
  PROVE  /\ hints' \in SUBSET (Puts \X Replicas) /\ Cardinality(hints') <= MaxHints
         /\ stored' \in SUBSET (Puts \X Replicas)
         /\ dropped' \in SUBSET (Puts \X Replicas)
<1> DEFINE room == MaxHints - Cardinality(hints)
<1>1. /\ hints \in SUBSET (Puts \X Replicas) /\ dropped \in SUBSET (Puts \X Replicas)
      /\ stored \in SUBSET (Puts \X Replicas)
      /\ Cardinality(hints) \in Nat /\ MaxHints \in Nat /\ Cardinality(hints) <= MaxHints
  BY FiniteReplicas, BoundsAssumption DEF TypeOK
<1>2. room \in Nat
  BY <1>1
<1>3. PICK kept \in SUBSET failed :
        /\ IF Cardinality(failed) <= room THEN kept = failed
                                          ELSE Cardinality(kept) = room
        /\ hints' = hints \cup ({p} \X kept)
        /\ stored' = stored \cup ({p} \X kept)
        /\ dropped' = dropped \cup ({p} \X (failed \ kept))
  BY DEF StoreHints
<1>4. IsFiniteSet(kept) /\ Cardinality(kept) \in Nat /\ Cardinality(failed) \in Nat
  BY FiniteReplicas
<1>5. Cardinality(kept) <= room
  BY <1>2, <1>3, <1>4
<1>6. IsFiniteSet({p} \X kept) /\ Cardinality({p} \X kept) = Cardinality(kept)
  <2>1. IsFiniteSet({p}) /\ Cardinality({p}) = 1
    BY FS_Singleton
  <2>2. IsFiniteSet({p} \X kept) /\ Cardinality({p} \X kept) = 1 * Cardinality(kept)
    BY <1>4, <2>1, FS_Product
  <2> QED
    BY <1>4, <2>2
<1>7. Cardinality(hints') <= Cardinality(hints) + Cardinality(kept)
  <2> DEFINE new == {p} \X kept
  <2>1. IsFiniteSet(hints) /\ IsFiniteSet(new)
    BY <1>1, <1>6, FiniteReplicas
  <2>2. Cardinality(hints \cup new) =
          Cardinality(hints) + Cardinality(new) - Cardinality(hints \cap new)
    BY <2>1, FS_Union
  <2>3. Cardinality(hints \cap new) \in Nat
    BY <2>1, FS_Intersection, FS_CardinalityType
  <2> QED
    BY <1>1, <1>3, <1>4, <1>6, <2>2, <2>3
<1>8. Cardinality(hints') <= MaxHints
  <2>1. Cardinality(hints') \in Nat
    <3>1. hints' \in SUBSET (Puts \X Replicas)
      BY <1>1, <1>3
    <3> QED
      BY <3>1, FiniteReplicas
  <2> QED
    BY <1>1, <1>4, <1>5, <1>7, <2>1
<1> QED
  BY <1>1, <1>3, <1>8

(* Hints that leave the store do not make it larger.                       *)
LEMMA FewerHints ==
  ASSUME TypeOK, NEW h
  PROVE  /\ hints \ {h} \in SUBSET (Puts \X Replicas)
         /\ Cardinality(hints \ {h}) <= MaxHints
<1>1. hints \in SUBSET (Puts \X Replicas) /\ Cardinality(hints) <= MaxHints
  BY DEF TypeOK
<1>2. IsFiniteSet(hints) /\ Cardinality(hints) \in Nat
  BY <1>1, FiniteReplicas
<1>3. Cardinality(hints \ {h}) \in Nat /\ Cardinality(hints \ {h}) <= Cardinality(hints)
  BY <1>2, FS_Subset, FS_CardinalityType, hints \ {h} \in SUBSET hints
<1> QED
  BY <1>1, <1>2, <1>3, BoundsAssumption

(* What the handoff does to the hints, with the pool's definitions         *)
(* expanded.                                                               *)
LEMMA HandoffSteps ==
  ASSUME NEW p \in Puts, NEW r \in Replicas
  PROVE  /\ DeliverHint(p, r) =>
              /\ <<p, r>> \in hints \cup stored /\ delivered' = delivered \cup {<<p, r>>}
              /\ UNCHANGED <<hints, stored, dropped>>
         /\ ForgetHint(p, r) =>
              /\ <<p, r>> \in hints /\ (<<p, r>> \in delivered \/ r \in unsafe)
              /\ hints' = hints \ {<<p, r>>}
              /\ UNCHANGED <<stored, delivered, dropped>>
         /\ DropHint(p, r) =>
              /\ <<p, r>> \in hints
              /\ hints' = hints \ {<<p, r>>} /\ dropped' = dropped \cup {<<p, r>>}
              /\ UNCHANGED <<stored, delivered>>
BY DEF DeliverHint, ForgetHint, DropHint, Pool!Deliver, Pool!Release

LEMMA TypeStep == TypeOK /\ [Next]_vars => TypeOK'
<1> SUFFICES ASSUME TypeOK, [Next]_vars PROVE TypeOK'
  OBVIOUS
<1>r. Replicas \subseteq Nodes /\ Local \in Nodes
  BY DEF Nodes
<1>1. ASSUME NEW o \in Ops, Accept(o) PROVE TypeOK'
  BY <1>1 DEF TypeOK, handoff, Accept, Begin, Phases
<1>2. ASSUME NEW o \in Ops, Refuse(o) PROVE TypeOK'
  BY <1>2 DEF TypeOK, handoff, Refuse, Begin, Return, Phases
<1>3. ASSUME NEW p \in Puts, PutLocally(p) PROVE TypeOK'
  BY <1>3, <1>r DEF TypeOK, handoff, PutLocally, SendToReplicas, Phases, Holds
<1>4. ASSUME NEW p \in Puts, PutAchieved(p) PROVE TypeOK'
  <2>1. /\ hints' \in SUBSET (Puts \X Replicas) /\ Cardinality(hints') <= MaxHints
        /\ stored' \in SUBSET (Puts \X Replicas)
        /\ dropped' \in SUBSET (Puts \X Replicas)
    <3>1. Answered(p, "fail") \in SUBSET Replicas
      BY DEF Answered
    <3> QED
      BY <1>4, <3>1, StoreHintsType DEF PutAchieved
  <2> QED
    BY <1>4, <2>1 DEF TypeOK, handoff, PutAchieved, Return, Phases
<1>5. ASSUME NEW d \in Deletes, DeleteLocally(d) PROVE TypeOK'
  BY <1>5, <1>r DEF TypeOK, handoff, DeleteLocally, SendToReplicas, Phases, Holds
<1>6. ASSUME NEW d \in Deletes, DeleteAchieved(d) PROVE TypeOK'
  BY <1>6 DEF TypeOK, handoff, DeleteAchieved, Return, Phases
<1>7. ASSUME NEW g \in Gets, GetLocally(g) PROVE TypeOK'
  BY <1>7, <1>r DEF TypeOK, handoff, GetLocally, Return, Phases
<1>8. ASSUME NEW g \in Gets, MissLocally(g) PROVE TypeOK'
  BY <1>8 DEF TypeOK, handoff, MissLocally, SendToReplicas, Phases
<1>9. ASSUME NEW g \in Gets, GetAbsent(g) PROVE TypeOK'
  BY <1>9 DEF TypeOK, handoff, GetAbsent, Return, Phases
<1>10. ASSUME NEW g \in Gets, GetResolved(g) PROVE TypeOK'
  <2>1. PICK r \in Found(g) : value' = [value EXCEPT ![g] = seen[g][r]]
    BY <1>10 DEF GetResolved
  <2>2. seen[g][r] \in Holds
    BY DEF TypeOK, Found, Answered
  <2>3. value' \in [Gets -> Holds]
    BY <2>1, <2>2 DEF TypeOK
  <2> QED
    BY <1>10, <2>3 DEF TypeOK, handoff, GetResolved, Phases
<1>11. ASSUME NEW g \in Gets, CacheLocally(g) PROVE TypeOK'
  BY <1>11, <1>r DEF TypeOK, handoff, CacheLocally, Return, Phases
<1>12. ASSUME NEW o \in Ops, QuorumMissed(o) PROVE TypeOK'
  BY <1>12 DEF TypeOK, handoff, QuorumMissed, Return, Phases
<1>13. ASSUME NEW o \in Ops, Timeout(o) PROVE TypeOK'
  BY <1>13 DEF TypeOK, handoff, Timeout, Return, Phases
<1>14. ASSUME NEW p \in Puts, NEW r \in Replicas, ReplicaPut(p, r) PROVE TypeOK'
  BY <1>14, <1>r DEF TypeOK, handoff, ReplicaPut, Reply, Ops, Holds
<1>15. ASSUME NEW d \in Deletes, NEW r \in Replicas, ReplicaDelete(d, r) PROVE TypeOK'
  BY <1>15, <1>r DEF TypeOK, handoff, ReplicaDelete, Reply, Ops, Holds
<1>16. ASSUME NEW g \in Gets, NEW r \in Replicas, ReplicaGet(g, r) PROVE TypeOK'
  BY <1>16, <1>r DEF TypeOK, handoff, ReplicaGet, Reply, Ops, Holds
<1>17. ASSUME NEW o \in Ops, NEW r \in Replicas, ReplicaFail(o, r) PROVE TypeOK'
  BY <1>17 DEF TypeOK, handoff, ReplicaFail, Reply
<1>18. ASSUME NEW p \in Puts, NEW r \in Replicas, DeliverHint(p, r) PROVE TypeOK'
  <2>1. delivered' = delivered \cup {<<p, r>>} /\ UNCHANGED <<hints, stored, dropped>>
    BY <1>18, HandoffSteps
  <2>2. delivered' \in SUBSET (Puts \X Replicas)
    BY <2>1 DEF TypeOK
  <2>3. store' \in [Nodes -> Holds]
    BY <1>18, <1>r DEF TypeOK, DeliverHint, Holds
  <2> QED
    BY <1>18, <2>1, <2>2, <2>3 DEF TypeOK, DeliverHint
<1>19. ASSUME NEW p \in Puts, NEW r \in Replicas, ForgetHint(p, r) PROVE TypeOK'
  BY <1>19, FewerHints, HandoffSteps DEF TypeOK, ForgetHint
<1>20. ASSUME NEW p \in Puts, NEW r \in Replicas, DropHint(p, r) PROVE TypeOK'
  BY <1>20, FewerHints, HandoffSteps DEF TypeOK, DropHint
<1>s. ASSUME NEW r \in Replicas, ShortenList(r) PROVE TypeOK'
  BY <1>s DEF TypeOK, ShortenList
<1>21. CASE Stop
  BY <1>21 DEF TypeOK, handoff, Stop
<1>22. CASE UNCHANGED vars
  BY <1>22 DEF TypeOK, handoff, vars
<1> QED
  BY <1>1, <1>2, <1>3, <1>4, <1>5, <1>6, <1>7, <1>8, <1>9, <1>10, <1>11, <1>12,
     <1>13, <1>14, <1>15, <1>16, <1>17, <1>18, <1>19, <1>20, <1>s, <1>21, <1>22
     DEF Next, Handler, Replica, Handoff

(* Every reachable state is well typed, and no more hints are stored than  *)
(* HintedHandoff.maxHints allows.                                          *)
THEOREM TypeCorrect == Spec => []TypeOK
<1>1. Init => TypeOK
  BY FS_EmptySet, BoundsAssumption DEF Init, TypeOK, Phases, Holds
<1> QED
  BY <1>1, TypeStep, PTL DEF Spec

----------------------------------------------------------------------------
(* The life of a request, as far as its answers are concerned.             *)

Idle(o) == Answered(o, "idle") = Replicas
Settled(o) == Answered(o, "idle") = {} /\ AllAnswered(o)

(* Until it asks the replicas a request has no answers; once it has counted *)
(* them they are complete, and they no longer change.                      *)
RequestOK(o) ==
  /\ phase[o] \in {"new", "local"} => Idle(o)
  /\ phase[o] \in {"quorum", "cache"} => Answered(o, "idle") = {}
  /\ (result[o] = "none") <=> (phase[o] # "done")
  /\ phase[o] = "cache" => Settled(o) /\ Acks(o) >= R
  /\ o \in Writes /\ result[o] = "ok" => Settled(o) /\ Acks(o) >= W
  /\ o \in Gets /\ result[o] = "ok" => Idle(o) \/ (Settled(o) /\ Acks(o) >= R)

RequestInv == \A o \in Ops : RequestOK(o)

(* A request that a step leaves alone stays as it was.                     *)
LEMMA RequestFrame ==
  ASSUME NEW o \in Ops, RequestOK(o),
         phase'[o] = phase[o], result'[o] = result[o], call'[o] = call[o]
  PROVE  RequestOK(o)'
  BY DEF RequestOK, Idle, Settled, AllAnswered, Acks, Answered

(* Only a replica that was asked answers, and only when the request has    *)
(* not counted its answers yet.                                            *)
LEMMA ReplyKeepsRequests ==
  ASSUME TypeOK, RequestInv, NEW o \in Ops, NEW r \in Replicas,
         NEW x \in {"ok", "fail"}, Reply(o, r, x), UNCHANGED <<phase, result>>
  PROVE  RequestInv'
<1>1. \A q \in Ops \ {o} : call'[q] = call[q]
  BY DEF Reply, TypeOK
<1>2. \A q \in Ops \ {o} : RequestOK(q)'
  BY <1>1, RequestFrame DEF RequestInv
<1>3. call[o][r] = "sent" /\ call'[o] = [call[o] EXCEPT ![r] = x]
  BY DEF Reply, TypeOK
<1>4. ~Idle(o) /\ ~Settled(o)
  BY <1>3 DEF Idle, Settled, AllAnswered, Answered
<1>5. phase[o] \notin {"new", "local", "cache"} /\ result[o] # "ok"
  <2>1. o \in Writes \/ o \in Gets
    BY DEF Ops, Writes
  <2> QED
    BY <1>4, <2>1 DEF RequestInv, RequestOK
<1>6. Answered(o, "idle") = {} => Answered(o, "idle")' = {}
  BY <1>3 DEF Answered, TypeOK
<1>7. RequestOK(o)'
  BY <1>5, <1>6 DEF RequestInv, RequestOK
<1> QED
  BY <1>2, <1>7 DEF RequestInv

(* A handler's step touches its own request only.                          *)
LEMMA HandlerKeepsOthers ==
  ASSUME TypeOK, RequestInv, NEW o \in Ops, RequestOK(o)',
         \A q \in Ops \ {o} :
           phase'[q] = phase[q] /\ result'[q] = result[q] /\ call'[q] = call[q]
  PROVE  RequestInv'
  BY RequestFrame DEF RequestInv

LEMMA RequestStep == TypeOK /\ RequestInv /\ [Next]_vars => RequestInv'
<1> SUFFICES ASSUME TypeOK, RequestInv, [Next]_vars PROVE RequestInv'
  OBVIOUS
<1>k. Puts \subseteq Ops /\ Gets \subseteq Ops /\ Deletes \subseteq Ops
      /\ Puts \cap Gets = {} /\ Deletes \cap Gets = {}
  BY WorkloadAssumption DEF Ops
<1>s. ASSUME NEW o \in Ops, phase[o] = "local", SendToReplicas(o), UNCHANGED result
      PROVE  RequestInv'
  <2>1. call'[o] = [r \in Replicas |-> "sent"] /\ phase'[o] = "quorum"
        /\ result'[o] = "none"
    BY <1>s DEF SendToReplicas, TypeOK, RequestInv, RequestOK
  <2>2. Answered(o, "idle")' = {}
    BY <2>1 DEF Answered
  <2>3. RequestOK(o)'
    BY <2>1, <2>2 DEF RequestOK
  <2> QED
    BY <1>s, <2>3, HandlerKeepsOthers DEF SendToReplicas, TypeOK
<1>e. ASSUME NEW o \in Ops, Return(o, "error"), UNCHANGED call
      PROVE  RequestInv'
  <2>1. phase'[o] = "done" /\ result'[o] = "error"
    BY <1>e DEF Return, TypeOK
  <2>2. RequestOK(o)'
    BY <2>1 DEF RequestOK
  <2> QED
    BY <1>e, <2>2, HandlerKeepsOthers DEF Return, TypeOK
<1>w. ASSUME NEW o \in Writes, Collected(o), Acks(o) >= W, Return(o, "ok"),
             UNCHANGED call
      PROVE  RequestInv'
  <2>0. o \in Ops /\ o \notin Gets
    BY <1>k DEF Writes
  <2>1. phase'[o] = "done" /\ result'[o] = "ok"
    BY <1>w, <2>0 DEF Return, TypeOK
  <2>2. Settled(o) /\ Acks(o) >= W
    BY <1>w, <2>0 DEF Collected, Settled, RequestInv, RequestOK
  <2>3. (Settled(o) /\ Acks(o) >= W)'
    BY <1>w, <2>2 DEF Settled, AllAnswered, Acks, Answered
  <2>4. RequestOK(o)'
    BY <2>0, <2>1, <2>3 DEF RequestOK
  <2> QED
    BY <1>w, <2>0, <2>4, HandlerKeepsOthers DEF Return, TypeOK
<1>g. ASSUME NEW g \in Gets, phase[g] \in {"quorum", "cache"}, AllAnswered(g),
             Acks(g) >= R, UNCHANGED call,
             \/ Return(g, "ok")
             \/ phase' = [phase EXCEPT ![g] = "cache"] /\ UNCHANGED result
      PROVE  RequestInv'
  <2>0. g \in Ops /\ g \notin Writes
    BY <1>k DEF Writes
  <2>1. Settled(g) /\ Acks(g) >= R
    BY <1>g, <2>0 DEF Settled, RequestInv, RequestOK
  <2>2. (Settled(g) /\ Acks(g) >= R)'
    BY <1>g, <2>1 DEF Settled, AllAnswered, Acks, Answered
  <2>3. result[g] = "none"
    BY <1>g, <2>0 DEF RequestInv, RequestOK
  <2>4. RequestOK(g)'
    <3>1. CASE Return(g, "ok")
      <4>1. phase'[g] = "done" /\ result'[g] = "ok"
        BY <3>1, <2>0 DEF Return, TypeOK
      <4> QED
        BY <4>1, <2>0, <2>2 DEF RequestOK
    <3>2. CASE phase' = [phase EXCEPT ![g] = "cache"] /\ UNCHANGED result
      <4>1. phase'[g] = "cache" /\ result'[g] = "none"
        BY <3>2, <2>0, <2>3 DEF TypeOK
      <4> QED
        BY <4>1, <2>0, <2>2 DEF RequestOK, Settled
    <3> QED
      BY <1>g, <3>1, <3>2
  <2>5. \A q \in Ops \ {g} :
          phase'[q] = phase[q] /\ result'[q] = result[q] /\ call'[q] = call[q]
    BY <1>g, <2>0 DEF Return, TypeOK
  <2> QED
    BY <2>0, <2>4, <2>5, HandlerKeepsOthers
<1>f. ASSUME UNCHANGED <<phase, result, call>> PROVE RequestInv'
  BY <1>f, RequestFrame DEF RequestInv
<1>1. ASSUME NEW o \in Ops, Accept(o) PROVE RequestInv'
  <2>1. phase[o] = "new" /\ phase'[o] = "local" /\ call' = call /\ result' = result
    BY <1>1 DEF Accept, Begin, TypeOK
  <2>2. RequestOK(o)'
    BY <2>1 DEF RequestInv, RequestOK, Idle, Answered
  <2> QED
    BY <1>1, <2>1, <2>2, HandlerKeepsOthers DEF Accept, TypeOK
<1>2. ASSUME NEW o \in Ops, Refuse(o) PROVE RequestInv'
  BY <1>2, <1>e DEF Refuse, Begin
<1>3. ASSUME NEW p \in Puts, PutLocally(p) PROVE RequestInv'
  BY <1>3, <1>s, <1>k DEF PutLocally
<1>4. ASSUME NEW p \in Puts, PutAchieved(p) PROVE RequestInv'
  BY <1>4, <1>w DEF PutAchieved, Writes
<1>5. ASSUME NEW d \in Deletes, DeleteLocally(d) PROVE RequestInv'
  BY <1>5, <1>s, <1>k DEF DeleteLocally
<1>6. ASSUME NEW d \in Deletes, DeleteAchieved(d) PROVE RequestInv'
  BY <1>6, <1>w DEF DeleteAchieved, Writes
<1>7. ASSUME NEW g \in Gets, GetLocally(g) PROVE RequestInv'
  <2>0. g \in Ops /\ g \notin Writes
    BY <1>k DEF Writes
  <2>1. phase'[g] = "done" /\ result'[g] = "ok" /\ call' = call /\ Idle(g)
    BY <1>7, <2>0 DEF GetLocally, Return, TypeOK, RequestInv, RequestOK
  <2>2. RequestOK(g)'
    BY <2>0, <2>1 DEF RequestOK, Idle, Answered
  <2> QED
    BY <1>7, <2>0, <2>2, HandlerKeepsOthers DEF GetLocally, Return, TypeOK
<1>8. ASSUME NEW g \in Gets, MissLocally(g) PROVE RequestInv'
  BY <1>8, <1>s, <1>k DEF MissLocally
<1>9. ASSUME NEW g \in Gets, GetAbsent(g) PROVE RequestInv'
  BY <1>9, <1>g DEF GetAbsent, Collected
<1>10. ASSUME NEW g \in Gets, GetResolved(g) PROVE RequestInv'
  BY <1>10, <1>g DEF GetResolved, Collected
<1>11. ASSUME NEW g \in Gets, CacheLocally(g) PROVE RequestInv'
  <2>1. AllAnswered(g) /\ Acks(g) >= R
    BY <1>11, <1>k DEF CacheLocally, RequestInv, RequestOK, Settled
  <2> QED
    BY <1>11, <2>1, <1>g DEF CacheLocally
<1>12. ASSUME NEW o \in Ops, QuorumMissed(o) PROVE RequestInv'
  BY <1>12, <1>e DEF QuorumMissed
<1>13. ASSUME NEW o \in Ops, Timeout(o) PROVE RequestInv'
  BY <1>13, <1>e DEF Timeout
<1>14. ASSUME NEW o \in Ops, NEW r \in Replicas, Replica(o, r) PROVE RequestInv'
  BY <1>14, ReplyKeepsRequests
     DEF Replica, ReplicaPut, ReplicaDelete, ReplicaGet, ReplicaFail
<1>15. ASSUME NEW p \in Puts, NEW r \in Replicas, Handoff(p, r) PROVE RequestInv'
  BY <1>15, <1>f DEF Handoff, DeliverHint, ForgetHint, DropHint
<1>h. ASSUME NEW r \in Replicas, ShortenList(r) PROVE RequestInv'
  BY <1>h, <1>f DEF ShortenList
<1>16. CASE Stop
  BY <1>16, <1>f DEF Stop
<1>17. CASE UNCHANGED vars
  BY <1>17, <1>f DEF vars
<1> QED
  BY <1>1, <1>2, <1>3, <1>4, <1>5, <1>6, <1>7, <1>8, <1>9, <1>10, <1>11, <1>12,
     <1>13, <1>14, <1>15, <1>h, <1>16, <1>17 DEF Next, Handler

(* The invariant the safety theorems are drawn from.                       *)
LEMMA RequestsOrderly == Spec => [](TypeOK /\ RequestInv)
<1>1. Init => RequestInv
  BY DEF Init, RequestInv, RequestOK, Idle, Answered
<1>2. Init => TypeOK
  BY FS_EmptySet, BoundsAssumption DEF Init, TypeOK, Phases, Holds
<1> QED
  BY <1>1, <1>2, TypeStep, RequestStep, PTL DEF Spec

(* R + W > N: a successful write and a successful quorum read have a       *)
(* replica in common, for any replica set and any interleaving of the      *)
(* requests, timeouts and failures.                                        *)
THEOREM QuorumOverlap == Spec => []QuorumsIntersect
<1>1. TypeOK /\ RequestInv => QuorumsIntersect
  <2> SUFFICES ASSUME TypeOK, RequestInv, R + W > N,
                      NEW w \in Writes, NEW g \in Gets,
                      result[w] = "ok", QuorumRead(g)
               PROVE  Answered(w, "ok") \cap Answered(g, "ok") # {}
    BY DEF QuorumsIntersect
  <2>1. Acks(w) >= W
    BY DEF RequestInv, RequestOK, Writes, Ops
  <2>2. ~Idle(g)
    BY ReplicasAssumption DEF Idle, QuorumRead
  <2>3. Acks(g) >= R
    BY <2>2 DEF RequestInv, RequestOK, Ops, QuorumRead
  <2>4. Answered(w, "ok") \in SUBSET Replicas /\ Answered(g, "ok") \in SUBSET Replicas
    BY DEF Answered
  <2>5. /\ Cardinality(Replicas) \in Nat
        /\ Cardinality(Answered(w, "ok")) \in Nat
        /\ Cardinality(Answered(g, "ok")) \in Nat
    BY <2>4, FiniteReplicas
  <2>6. Cardinality(Answered(w, "ok")) + Cardinality(Answered(g, "ok"))
          > Cardinality(Replicas)
    BY <2>1, <2>3, <2>5, ReplicasAssumption, QuorumAssumption DEF Acks
  <2> QED
    BY <2>4, <2>6, ReplicasAssumption, FS_MajoritiesIntersect
<1> QED
  BY <1>1, RequestsOrderly, PTL

----------------------------------------------------------------------------
(* Hints.                                                                  *)

(* What becomes of the hint of p for r; the body of AckedPutIsOwed, and    *)
(* that a hint the store has or had is one the put left.                   *)
Known(p, r) == <<p, r>> \in hints \cup delivered \cup dropped
Missed(p, r) == result[p] = "ok" /\ call[p][r] # "ok"
OwedOK(p, r) ==
  /\ Known(p, r) \/ <<p, r>> \in stored => Missed(p, r)
  /\ Missed(p, r) => Known(p, r) \/ r \in unsafe
HintsInv == hints \subseteq stored /\ \A p \in Puts, r \in Replicas : OwedOK(p, r)

(* What a replica missed of a successful put it goes on to have missed,    *)
(* and no step but the return of a put adds to it.                         *)
LEMMA MissedStays ==
  ASSUME TypeOK, RequestInv, [Next]_vars,
         NEW p \in Puts, NEW r \in Replicas, ~PutAchieved(p)
  PROVE  Missed(p, r)' <=> Missed(p, r)
<1>k. p \in Ops /\ p \in Writes /\ p \notin Gets /\ p \notin Deletes
  BY WorkloadAssumption DEF Ops, Writes
<1>1. CASE result[p] = "ok"
  <2>1. phase[p] = "done" /\ \A q \in Replicas : call[p][q] \notin {"idle", "sent"}
    BY <1>1, <1>k DEF RequestInv, RequestOK, Settled, AllAnswered, Answered, TypeOK
  <2>2. result'[p] = result[p] /\ call'[p] = call[p]
    <3>1. ASSUME NEW o \in Ops, Accept(o) \/ Refuse(o) PROVE result'[p] = result[p] /\ call'[p] = call[p]
      BY <2>1, <3>1, <1>k DEF Accept, Refuse, Begin, Return, TypeOK
    <3>2. ASSUME NEW o \in Ops, Handler(o) PROVE result'[p] = result[p] /\ call'[p] = call[p]
      BY <2>1, <3>2, <1>k
         DEF Handler, PutLocally, PutAchieved, DeleteLocally, DeleteAchieved, GetLocally,
             MissLocally, GetAbsent, GetResolved, CacheLocally, QuorumMissed, Timeout,
             Collected, SendToReplicas, Return, TypeOK
    <3>3. ASSUME NEW o \in Ops, NEW q \in Replicas, Replica(o, q)
          PROVE  result'[p] = result[p] /\ call'[p] = call[p]
      BY <2>1, <3>3, <1>k
         DEF Replica, ReplicaPut, ReplicaDelete, ReplicaGet, ReplicaFail, Reply, TypeOK
    <3>4. ASSUME \/ \E w \in Puts, q \in Replicas : Handoff(w, q)
                 \/ \E q \in Replicas : ShortenList(q)
                 \/ Stop \/ UNCHANGED vars
          PROVE  result'[p] = result[p] /\ call'[p] = call[p]
      BY <3>4 DEF Handoff, DeliverHint, ForgetHint, DropHint, ShortenList, Stop, vars
    <3> QED
      BY <3>1, <3>2, <3>3, <3>4 DEF Next
  <2> QED
    BY <2>2 DEF Missed
<1>2. CASE result[p] # "ok"
  <2>1. result'[p] # "ok"
    <3>1. ASSUME NEW o \in Ops, Accept(o) \/ Refuse(o) PROVE result'[p] # "ok"
      BY <1>2, <3>1, <1>k DEF Accept, Refuse, Begin, Return, TypeOK
    <3>2. ASSUME NEW o \in Ops, Handler(o) PROVE result'[p] # "ok"
      BY <1>2, <3>2, <1>k
         DEF Handler, PutLocally, PutAchieved, DeleteLocally, DeleteAchieved, GetLocally,
             MissLocally, GetAbsent, GetResolved, CacheLocally, QuorumMissed, Timeout,
             Return, TypeOK
    <3>3. ASSUME NEW o \in Ops, NEW q \in Replicas, Replica(o, q) PROVE result' = result
      BY <3>3 DEF Replica, ReplicaPut, ReplicaDelete, ReplicaGet, ReplicaFail
    <3>4. ASSUME \/ \E w \in Puts, q \in Replicas : Handoff(w, q)
                 \/ \E q \in Replicas : ShortenList(q)
                 \/ Stop \/ UNCHANGED vars
          PROVE  result' = result
      BY <3>4 DEF Handoff, DeliverHint, ForgetHint, DropHint, ShortenList, Stop, vars
    <3> QED
      BY <1>2, <3>1, <3>2, <3>3, <3>4 DEF Next
  <2> QED
    BY <1>2, <2>1 DEF Missed
<1> QED
  BY <1>1, <1>2

(* A put that returns has left no hint before, and what its replicas       *)
(* missed are its failures.                                                *)
LEMMA PutAchievedMissed ==
  ASSUME TypeOK, RequestInv, HintsInv, NEW p \in Puts, PutAchieved(p), NEW r \in Replicas
  PROVE  /\ ~Known(p, r) /\ <<p, r>> \notin stored
         /\ Missed(p, r)' <=> r \in Answered(p, "fail")
<1>1. call' = call /\ result'[p] = "ok" /\ result[p] # "ok"
  BY DEF PutAchieved, Return, Collected, RequestInv, RequestOK, TypeOK, Ops
<1>2. ~Known(p, r) /\ <<p, r>> \notin stored
  BY <1>1 DEF HintsInv, OwedOK, Missed
<1>3. call[p][r] \in {"ok", "fail"}
  <2>1. AllAnswered(p) /\ Answered(p, "idle") = {}
    BY DEF PutAchieved, Collected, RequestInv, RequestOK, Ops
  <2>2. call[p][r] \in {"idle", "sent", "ok", "fail"}
    BY DEF TypeOK, Ops
  <2> QED
    BY <2>1, <2>2 DEF AllAnswered, Answered
<1> QED
  BY <1>1, <1>2, <1>3 DEF Missed, Answered

LEMMA PutAchievedOwed ==
  ASSUME TypeOK, RequestInv, HintsInv, [Next]_vars, NEW p \in Puts, PutAchieved(p)
  PROVE  HintsInv'
<1>1. PICK kept \in SUBSET Answered(p, "fail") :
        /\ hints' = hints \cup ({p} \X kept)
        /\ stored' = stored \cup ({p} \X kept)
        /\ dropped' = dropped \cup ({p} \X (Answered(p, "fail") \ kept))
  BY DEF PutAchieved, StoreHints
<1>2. delivered' = delivered /\ unsafe' = unsafe
  BY DEF PutAchieved
<1>3. ASSUME NEW q \in Puts, NEW r \in Replicas PROVE OwedOK(q, r)'
  <2>1. /\ Known(q, r)' <=> Known(q, r) \/ (q = p /\ r \in Answered(p, "fail"))
        /\ <<q, r>> \in stored' => <<q, r>> \in stored \/ (q = p /\ r \in Answered(p, "fail"))
    BY <1>1, <1>2 DEF Known
  <2>2. OwedOK(q, r)
    BY DEF HintsInv
  <2>3. CASE q = p
    <3>1. /\ ~Known(p, r) /\ <<p, r>> \notin stored
          /\ Missed(p, r)' <=> r \in Answered(p, "fail")
      BY PutAchievedMissed
    <3> QED
      BY <2>1, <2>3, <3>1 DEF OwedOK
  <2>4. CASE q # p
    <3>1. Missed(q, r)' <=> Missed(q, r)
      BY <2>4 DEF PutAchieved, Return, Missed, TypeOK, Ops
    <3> QED
      BY <1>2, <2>1, <2>2, <2>4, <3>1 DEF OwedOK
  <2> QED
    BY <2>3, <2>4
<1>4. hints' \subseteq stored'
  BY <1>1 DEF HintsInv
<1> QED
  BY <1>3, <1>4 DEF HintsInv

(* The steps of the others: hints leave only when delivered, given up or   *)
(* unsafe.                                                                 *)
LEMMA HintsMove ==
  ASSUME [Next]_vars, ~\E p \in Puts : PutAchieved(p)
  PROVE  /\ stored' = stored /\ hints' \subseteq hints /\ unsafe \subseteq unsafe'
         /\ delivered \subseteq delivered' /\ dropped \subseteq dropped'
         /\ delivered' \subseteq delivered \cup hints \cup stored
         /\ dropped' \subseteq dropped \cup hints
         /\ \A p \in Puts, r \in Replicas :
              <<p, r>> \in hints => Known(p, r)' \/ r \in unsafe
<1>1. ASSUME UNCHANGED handoff
      PROVE  /\ UNCHANGED <<hints, stored, delivered, dropped, unsafe>>
  BY <1>1 DEF handoff
<1>2. ASSUME NEW o \in Ops, Accept(o) \/ Refuse(o) \/ Handler(o) PROVE UNCHANGED handoff
  BY <1>2 DEF Accept, Refuse, Begin, Handler, PutLocally, DeleteLocally, DeleteAchieved,
     GetLocally, MissLocally, GetAbsent, GetResolved, CacheLocally, QuorumMissed, Timeout
<1>3. ASSUME NEW o \in Ops, NEW r \in Replicas, Replica(o, r) PROVE UNCHANGED handoff
  BY <1>3 DEF Replica, ReplicaPut, ReplicaDelete, ReplicaGet, ReplicaFail
<1>4. ASSUME Stop \/ UNCHANGED vars PROVE UNCHANGED handoff
  BY <1>4 DEF Stop, vars
<1>5. CASE UNCHANGED handoff
  BY <1>1, <1>5 DEF Known
<1>6. ASSUME NEW p \in Puts, NEW r \in Replicas, DeliverHint(p, r)
      PROVE  /\ UNCHANGED <<hints, stored, dropped, unsafe>>
             /\ delivered \subseteq delivered'
             /\ delivered' \subseteq delivered \cup hints \cup stored
  <2>1. <<p, r>> \in hints \cup stored /\ delivered' = delivered \cup {<<p, r>>}
        /\ UNCHANGED <<hints, stored, dropped>>
    BY <1>6, HandoffSteps
  <2>2. UNCHANGED unsafe
    BY <1>6 DEF DeliverHint
  <2> QED
    BY <2>1, <2>2
<1>7. ASSUME NEW p \in Puts, NEW r \in Replicas, ForgetHint(p, r) \/ DropHint(p, r)
      PROVE  /\ UNCHANGED <<stored, delivered, unsafe>> /\ hints' = hints \ {<<p, r>>}
             /\ dropped \subseteq dropped' /\ dropped' \subseteq dropped \cup hints
             /\ <<p, r>> \in delivered' \cup dropped' \/ r \in unsafe
  BY <1>7, HandoffSteps DEF ForgetHint, DropHint
<1>8. ASSUME NEW r \in Replicas, ShortenList(r)
      PROVE  UNCHANGED <<hints, stored, delivered, dropped>> /\ unsafe \subseteq unsafe'
  BY <1>8 DEF ShortenList
<1>9. CASE \E p \in Puts, r \in Replicas : DeliverHint(p, r)
  BY <1>6, <1>9 DEF Known
<1>10. CASE \E p \in Puts, r \in Replicas : ForgetHint(p, r) \/ DropHint(p, r)
  BY <1>7, <1>10 DEF Known
<1>11. CASE \E r \in Replicas : ShortenList(r)
  BY <1>8, <1>11 DEF Known
<1> QED
  BY <1>2, <1>3, <1>4, <1>5, <1>9, <1>10, <1>11 DEF Next, Handoff

LEMMA HintsStep == TypeOK /\ RequestInv /\ HintsInv /\ [Next]_vars => HintsInv'
<1> SUFFICES ASSUME TypeOK, RequestInv, HintsInv, [Next]_vars PROVE HintsInv'
  OBVIOUS
<1>1. CASE \E p \in Puts : PutAchieved(p)
  BY <1>1, PutAchievedOwed
<1>2. CASE ~\E p \in Puts : PutAchieved(p)
  <2>1. /\ stored' = stored /\ hints' \subseteq hints /\ unsafe \subseteq unsafe'
        /\ delivered \subseteq delivered' /\ dropped \subseteq dropped'
        /\ delivered' \subseteq delivered \cup hints \cup stored
        /\ dropped' \subseteq dropped \cup hints
        /\ \A p \in Puts, r \in Replicas :
             <<p, r>> \in hints => Known(p, r)' \/ r \in unsafe
    BY <1>2, HintsMove
  <2>2. ASSUME NEW p \in Puts, NEW r \in Replicas PROVE OwedOK(p, r)'
    <3>1. OwedOK(p, r) /\ (Missed(p, r)' <=> Missed(p, r))
      BY <1>2, MissedStays DEF HintsInv
    <3>2. Known(p, r)' \/ <<p, r>> \in stored' => Known(p, r) \/ <<p, r>> \in stored
      BY <2>1 DEF Known
    <3>3. Known(p, r) => Known(p, r)' \/ r \in unsafe'
      BY <2>1 DEF Known
    <3> QED
      BY <2>1, <3>1, <3>2, <3>3 DEF OwedOK
  <2> QED
    BY <2>1, <2>2 DEF HintsInv
<1> QED
  BY <1>1, <1>2

LEMMA HintsInvariant == Spec => []HintsInv
<1>1. Init => HintsInv
  BY DEF Init, HintsInv, OwedOK, Known, Missed, Ops
<1> QED
  BY <1>1, HintsStep, RequestsOrderly, PTL DEF Spec

(* After a successful put every replica acknowledged the value, or is owed *)
(* it, was sent it, or had its hint given up, but where a list was         *)
(* shortened under a delivery; and nobody is owed anything else.           *)
THEOREM NoReplicaForgotten == Spec => []AckedPutIsOwed
<1>1. HintsInv => AckedPutIsOwed
  BY DEF HintsInv, AckedPutIsOwed, OwedOK, Known, Missed
<1> QED
  BY <1>1, HintsInvariant, PTL

----------------------------------------------------------------------------
(* What the pool asks of those who store hints.                            *)

(* The instance has a name of its own for the same operator.               *)
LEMMA PoolCardinality == \A S : Pool!Cardinality(S) = Cardinality(S)
  BY DEF Cardinality, Pool!Cardinality

LEMMA StoresAsAsked ==
  ASSUME TypeOK, TypeOK', RequestInv, HintsInv, NEW p \in Puts, PutAchieved(p)
  PROVE  Pool!Store({p} \X Answered(p, "fail"))
<1> DEFINE failed == Answered(p, "fail")
           new == {p} \X failed
<1>1. new \cap (hints \cup stored \cup dropped) = {}
  BY PutAchievedMissed DEF Answered, Known
<1>2. PICK kept \in SUBSET failed :
        /\ IF Cardinality(failed) <= MaxHints - Cardinality(hints)
           THEN kept = failed
           ELSE Cardinality(kept) = MaxHints - Cardinality(hints)
        /\ hints' = hints \cup ({p} \X kept)
        /\ stored' = stored \cup ({p} \X kept)
        /\ dropped' = dropped \cup ({p} \X (failed \ kept))
  BY DEF PutAchieved, StoreHints
<1> DEFINE stay == {p} \X kept
<1>3. /\ stay \in SUBSET new /\ hints' = hints \cup stay /\ stored' = stored \cup stay
      /\ dropped' = dropped \cup (new \ stay)
  BY <1>2
<1>4. stay = new \/ Cardinality(hints') = MaxHints
  <2>1. CASE kept = failed
    BY <2>1
  <2>2. CASE Cardinality(kept) = MaxHints - Cardinality(hints)
    <3>1. IsFiniteSet(kept) /\ IsFiniteSet(hints) /\ Cardinality(hints) \in Nat
      <4>1. kept \in SUBSET Replicas /\ hints \in SUBSET (Puts \X Replicas)
        BY DEF Answered, TypeOK
      <4> QED
        BY <4>1, FiniteReplicas
    <3>2. IsFiniteSet({p}) /\ Cardinality({p}) = 1
      BY FS_Singleton
    <3>3. IsFiniteSet(stay) /\ Cardinality(stay) = 1 * Cardinality(kept)
      BY <3>1, <3>2, FS_Product
    <3>4. hints \cap stay = {}
      BY <1>1, <1>3
    <3>5. Cardinality(hints \cup stay) =
            Cardinality(hints) + Cardinality(stay) - Cardinality(hints \cap stay)
      BY <3>1, <3>3, FS_Union
    <3>6. Cardinality(hints \cap stay) = 0
      BY <3>4, FS_EmptySet
    <3> QED
      BY <1>3, <2>2, <3>1, <3>3, <3>5, <3>6, BoundsAssumption
  <2> QED
    BY <1>2, <2>1, <2>2
<1>5. Cardinality(hints') <= MaxHints /\ delivered' = delivered
  <2>1. delivered' = delivered
    BY DEF PutAchieved
  <2> QED
    BY <2>1 DEF TypeOK
<1> QED
  BY <1>1, <1>3, <1>4, <1>5, PoolCardinality DEF Pool!Store

(* A successful put hands over its hints as the handoff takes for granted: *)
(* once, so that none is in a list twice, all of them or as many as there  *)
(* is room for.  The guard of HintedHandoff's StoreHint is this fact.      *)
StoresOnce == [][\A p \in Puts : PutAchieved(p) => Pool!Store({p} \X Answered(p, "fail"))]_vars

THEOREM HintsAreStoredOnce == Spec => StoresOnce
<1>1. TypeOK /\ TypeOK' /\ RequestInv /\ HintsInv
        => \A p \in Puts : PutAchieved(p) => Pool!Store({p} \X Answered(p, "fail"))
  BY StoresAsAsked
<1>2. TypeOK /\ [Next]_vars => TypeOK'
  BY TypeStep
<1> QED
  BY <1>1, <1>2, RequestsOrderly, HintsInvariant, PTL DEF Spec, StoresOnce
=============================================================================

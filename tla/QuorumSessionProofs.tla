------------------------ MODULE QuorumSessionProofs ------------------------
(* What clients see, for any number of requests and replicas: that a put   *)
(* is read by all that come after it, what a delete leaves behind, and     *)
(* what the replicas keep.                                                 *)
EXTENDS QuorumManagerProofs

----------------------------------------------------------------------------
(* What a step does.                                                       *)

(* Request o has asked the replicas, so it is through with its local part. *)
Past(o) == Answered(o, "idle") = {}

Still(o) == phase'[o] = phase[o] /\ result'[o] = result[o] /\ call'[o] = call[o]

Begins(o) ==
  /\ phase[o] = "new" /\ call'[o] = call[o]
  /\ preceding'[o] = {q \in Ops : Finished(q)}
  /\ \/ running /\ phase'[o] = "local" /\ result'[o] = result[o]
     \/ ~running /\ phase'[o] = "done" /\ result'[o] = "error"

Asks(o) ==
  /\ phase[o] = "local" /\ phase'[o] = "quorum" /\ result'[o] = result[o]
  /\ call'[o] = [r \in Replicas |-> "sent"]
  /\ o \in Writes => store'[Local] = Written(o)
  /\ o \in Gets => store[Local] = NoVal

Hits(o) ==
  /\ o \in Gets /\ phase[o] = "local" /\ phase'[o] = "done" /\ call'[o] = call[o]
  /\ value'[o] = store[Local] /\ store[Local] # NoVal

HearsFrom(o, r) ==
  /\ call[o][r] = "sent" /\ phase'[o] = phase[o] /\ result'[o] = result[o]
  /\ \/ call'[o] = [call[o] EXCEPT ![r] = "fail"]
     \/ /\ call'[o] = [call[o] EXCEPT ![r] = "ok"]
        /\ o \in Writes => store'[r] = Written(o)
        /\ o \in Gets => seen'[o][r] = store[r]

Decides(o) ==
  /\ phase[o] \in {"quorum", "cache"} /\ phase'[o] \in {"cache", "done"}
  /\ call'[o] = call[o]
  /\ phase[o] = "quorum" /\ phase'[o] = "cache" => value'[o] # NoVal

(* The part of request o in a step, whoever takes it.                      *)
Moves(o) ==
  \/ Begins(o)
  \/ /\ preceding'[o] = preceding[o]
     /\ \/ Still(o) \/ Asks(o) \/ Hits(o) \/ Decides(o)
        \/ \E r \in Replicas : HearsFrom(o, r)

(* A store changes only through a write that is not over, through the      *)
(* result of a get that is put into the local one, or through a hint.      *)
Stores(n) ==
  \/ store'[n] = store[n]
  \/ n = Local /\ \E w \in Writes : phase[w] = "local" /\ Asks(w)
  \/ n \in Replicas /\ \E w \in Writes : HearsFrom(w, n) /\ n \in Answered(w, "ok")'
  \/ /\ n = Local
     /\ \E g \in Gets :
          phase[g] = "cache" /\ phase'[g] = "done" /\ store'[n] = value[g]
  \/ n # Local /\ <<store'[n], n>> \in delivered'

(* What has been answered and decided stays.                               *)
Remembers ==
  /\ \A g \in Gets : phase[g] \in {"cache", "done"} => value'[g] = value[g]
  /\ \A g \in Gets, r \in Replicas : call[g][r] # "sent" => seen'[g][r] = seen[g][r]
  /\ delivered \subseteq delivered'
  /\ ~running => ~running'

(* Writes and gets are different requests, and a write has something to    *)
(* leave.                                                                  *)
LEMMA Kinds ==
  /\ Puts \subseteq Writes /\ Deletes \subseteq Writes
  /\ Writes \subseteq Ops /\ Gets \subseteq Ops /\ Ops = Writes \cup Gets
  /\ Writes \cap Gets = {} /\ NoVal \notin Puts
  /\ \A p \in Puts : Written(p) = p
  /\ \A d \in Deletes : Written(d) = NoVal
  /\ Replicas \subseteq Nodes /\ Local \in Nodes
BY WorkloadAssumption DEF Writes, Ops, Written, Nodes

LEMMA RequestMoves == TypeOK /\ [Next]_vars => \A o \in Ops : Moves(o)
<1> SUFFICES ASSUME TypeOK, [Next]_vars, NEW q \in Ops PROVE Moves(q)
  OBVIOUS
<1> USE Kinds DEF TypeOK, Moves, Still, Begins, Asks, Hits, HearsFrom, Decides
<1>1. ASSUME NEW o \in Ops, Accept(o) PROVE Moves(q)
  BY <1>1 DEF Accept, Begin
<1>2. ASSUME NEW o \in Ops, Refuse(o) PROVE Moves(q)
  BY <1>2 DEF Refuse, Begin, Return
<1>3. ASSUME NEW p \in Puts, PutLocally(p) PROVE Moves(q)
  BY <1>3 DEF PutLocally, SendToReplicas
<1>4. ASSUME NEW p \in Puts, PutAchieved(p) PROVE Moves(q)
  BY <1>4 DEF PutAchieved, Return, Collected
<1>5. ASSUME NEW d \in Deletes, DeleteLocally(d) PROVE Moves(q)
  BY <1>5 DEF DeleteLocally, SendToReplicas
<1>6. ASSUME NEW d \in Deletes, DeleteAchieved(d) PROVE Moves(q)
  BY <1>6 DEF DeleteAchieved, Return, Collected
<1>7. ASSUME NEW g \in Gets, GetLocally(g) PROVE Moves(q)
  BY <1>7 DEF GetLocally, Return
<1>8. ASSUME NEW g \in Gets, MissLocally(g) PROVE Moves(q)
  BY <1>8 DEF MissLocally, SendToReplicas
<1>9. ASSUME NEW g \in Gets, GetAbsent(g) PROVE Moves(q)
  BY <1>9 DEF GetAbsent, Return, Collected
<1>10. ASSUME NEW g \in Gets, GetResolved(g) PROVE Moves(q)
  BY <1>10 DEF GetResolved, Collected, Found
<1>11. ASSUME NEW g \in Gets, CacheLocally(g) PROVE Moves(q)
  BY <1>11 DEF CacheLocally, Return
<1>12. ASSUME NEW o \in Ops, QuorumMissed(o) PROVE Moves(q)
  BY <1>12 DEF QuorumMissed, Return, Collected
<1>13. ASSUME NEW o \in Ops, Timeout(o) PROVE Moves(q)
  BY <1>13 DEF Timeout, Return
<1>14. ASSUME NEW p \in Puts, NEW r \in Replicas, ReplicaPut(p, r) PROVE Moves(q)
  BY <1>14 DEF ReplicaPut, Reply
<1>15. ASSUME NEW d \in Deletes, NEW r \in Replicas, ReplicaDelete(d, r) PROVE Moves(q)
  BY <1>15 DEF ReplicaDelete, Reply
<1>16. ASSUME NEW g \in Gets, NEW r \in Replicas, ReplicaGet(g, r) PROVE Moves(q)
  BY <1>16 DEF ReplicaGet, Reply
<1>17. ASSUME NEW o \in Ops, NEW r \in Replicas, ReplicaFail(o, r) PROVE Moves(q)
  BY <1>17 DEF ReplicaFail, Reply
<1>18. ASSUME NEW p \in Puts, NEW r \in Replicas, DeliverHint(p, r) PROVE Moves(q)
  BY <1>18 DEF DeliverHint
<1>19. ASSUME NEW p \in Puts, NEW r \in Replicas, ForgetHint(p, r) PROVE Moves(q)
  BY <1>19 DEF ForgetHint
<1>20. ASSUME NEW p \in Puts, NEW r \in Replicas, DropHint(p, r) PROVE Moves(q)
  BY <1>20 DEF DropHint
<1>s. ASSUME NEW r \in Replicas, ShortenList(r) PROVE Moves(q)
  BY <1>s DEF ShortenList
<1>21. CASE Stop
  BY <1>21 DEF Stop
<1>22. CASE UNCHANGED vars
  BY <1>22 DEF vars
<1> QED
  BY <1>1, <1>2, <1>3, <1>4, <1>5, <1>6, <1>7, <1>8, <1>9, <1>10, <1>11, <1>12,
     <1>13, <1>14, <1>15, <1>16, <1>17, <1>18, <1>19, <1>20, <1>s, <1>21, <1>22
     DEF Next, Handler, Replica, Handoff

LEMMA StoresMove == TypeOK /\ [Next]_vars => \A n \in Nodes : Stores(n)
<1> SUFFICES ASSUME TypeOK, [Next]_vars, NEW n \in Nodes PROVE Stores(n)
  OBVIOUS
<1> USE Kinds DEF TypeOK, Stores, Asks, HearsFrom, Answered
<1>1. ASSUME NEW o \in Ops, Accept(o) PROVE Stores(n)
  BY <1>1 DEF Accept, Begin
<1>2. ASSUME NEW o \in Ops, Refuse(o) PROVE Stores(n)
  BY <1>2 DEF Refuse, Begin, Return
<1>3. ASSUME NEW p \in Puts, PutLocally(p) PROVE Stores(n)
  BY <1>3 DEF PutLocally, SendToReplicas
<1>4. ASSUME NEW p \in Puts, PutAchieved(p) PROVE Stores(n)
  BY <1>4 DEF PutAchieved, Return, Collected
<1>5. ASSUME NEW d \in Deletes, DeleteLocally(d) PROVE Stores(n)
  BY <1>5 DEF DeleteLocally, SendToReplicas
<1>6. ASSUME NEW d \in Deletes, DeleteAchieved(d) PROVE Stores(n)
  BY <1>6 DEF DeleteAchieved, Return, Collected
<1>7. ASSUME NEW g \in Gets, GetLocally(g) PROVE Stores(n)
  BY <1>7 DEF GetLocally, Return
<1>8. ASSUME NEW g \in Gets, MissLocally(g) PROVE Stores(n)
  BY <1>8 DEF MissLocally, SendToReplicas
<1>9. ASSUME NEW g \in Gets, GetAbsent(g) PROVE Stores(n)
  BY <1>9 DEF GetAbsent, Return, Collected
<1>10. ASSUME NEW g \in Gets, GetResolved(g) PROVE Stores(n)
  BY <1>10 DEF GetResolved, Collected
<1>11. ASSUME NEW g \in Gets, CacheLocally(g) PROVE Stores(n)
  BY <1>11 DEF CacheLocally, Return
<1>12. ASSUME NEW o \in Ops, QuorumMissed(o) PROVE Stores(n)
  BY <1>12 DEF QuorumMissed, Return, Collected
<1>13. ASSUME NEW o \in Ops, Timeout(o) PROVE Stores(n)
  BY <1>13 DEF Timeout, Return
<1>14. ASSUME NEW p \in Puts, NEW r \in Replicas, ReplicaPut(p, r) PROVE Stores(n)
  <2>1. HearsFrom(p, r) /\ call'[p][r] = "ok"
    BY <1>14 DEF ReplicaPut, Reply
  <2>2. n # r => store'[n] = store[n]
    BY <1>14 DEF ReplicaPut
  <2> QED
    BY <2>1, <2>2
<1>15. ASSUME NEW d \in Deletes, NEW r \in Replicas, ReplicaDelete(d, r) PROVE Stores(n)
  <2>1. HearsFrom(d, r) /\ call'[d][r] = "ok"
    BY <1>15 DEF ReplicaDelete, Reply
  <2>2. n # r => store'[n] = store[n]
    BY <1>15 DEF ReplicaDelete
  <2> QED
    BY <2>1, <2>2
<1>16. ASSUME NEW g \in Gets, NEW r \in Replicas, ReplicaGet(g, r) PROVE Stores(n)
  BY <1>16 DEF ReplicaGet, Reply
<1>17. ASSUME NEW o \in Ops, NEW r \in Replicas, ReplicaFail(o, r) PROVE Stores(n)
  BY <1>17 DEF ReplicaFail, Reply
<1>18. ASSUME NEW p \in Puts, NEW r \in Replicas, DeliverHint(p, r) PROVE Stores(n)
  <2>1. <<p, r>> \in delivered' /\ r # Local
    <3>1. <<p, r>> \in delivered'
      BY <1>18, HandoffSteps
    <3> QED
      BY <1>18, <3>1 DEF DeliverHint
  <2>2. store' = [store EXCEPT ![r] = p]
    BY <1>18 DEF DeliverHint
  <2> QED
    BY <2>1, <2>2
<1>19. ASSUME NEW p \in Puts, NEW r \in Replicas, ForgetHint(p, r) PROVE Stores(n)
  BY <1>19 DEF ForgetHint
<1>20. ASSUME NEW p \in Puts, NEW r \in Replicas, DropHint(p, r) PROVE Stores(n)
  BY <1>20 DEF DropHint
<1>s. ASSUME NEW r \in Replicas, ShortenList(r) PROVE Stores(n)
  BY <1>s DEF ShortenList
<1>21. CASE Stop
  BY <1>21 DEF Stop
<1>22. CASE UNCHANGED vars
  BY <1>22 DEF vars
<1> QED
  BY <1>1, <1>2, <1>3, <1>4, <1>5, <1>6, <1>7, <1>8, <1>9, <1>10, <1>11, <1>12,
     <1>13, <1>14, <1>15, <1>16, <1>17, <1>18, <1>19, <1>20, <1>s, <1>21, <1>22
     DEF Next, Handler, Replica, Handoff

LEMMA Memory == TypeOK /\ RequestInv /\ [Next]_vars => Remembers
<1> SUFFICES ASSUME TypeOK, RequestInv, [Next]_vars PROVE Remembers
  OBVIOUS
<1> USE Kinds DEF TypeOK, Remembers, handoff
<1>1. ASSUME NEW o \in Ops, Accept(o) PROVE Remembers
  BY <1>1 DEF Accept, Begin
<1>2. ASSUME NEW o \in Ops, Refuse(o) PROVE Remembers
  BY <1>2 DEF Refuse, Begin, Return
<1>3. ASSUME NEW p \in Puts, PutLocally(p) PROVE Remembers
  BY <1>3 DEF PutLocally, SendToReplicas
<1>4. ASSUME NEW p \in Puts, PutAchieved(p) PROVE Remembers
  BY <1>4 DEF PutAchieved, Return, Collected
<1>5. ASSUME NEW d \in Deletes, DeleteLocally(d) PROVE Remembers
  BY <1>5 DEF DeleteLocally, SendToReplicas
<1>6. ASSUME NEW d \in Deletes, DeleteAchieved(d) PROVE Remembers
  BY <1>6 DEF DeleteAchieved, Return, Collected
<1>7. ASSUME NEW g \in Gets, GetLocally(g) PROVE Remembers
  BY <1>7 DEF GetLocally, Return
<1>8. ASSUME NEW g \in Gets, MissLocally(g) PROVE Remembers
  BY <1>8 DEF MissLocally, SendToReplicas
<1>9. ASSUME NEW g \in Gets, GetAbsent(g) PROVE Remembers
  BY <1>9 DEF GetAbsent, Return, Collected
<1>10. ASSUME NEW g \in Gets, GetResolved(g) PROVE Remembers
  BY <1>10 DEF GetResolved, Collected
<1>11. ASSUME NEW g \in Gets, CacheLocally(g) PROVE Remembers
  BY <1>11 DEF CacheLocally, Return
<1>12. ASSUME NEW o \in Ops, QuorumMissed(o) PROVE Remembers
  BY <1>12 DEF QuorumMissed, Return, Collected
<1>13. ASSUME NEW o \in Ops, Timeout(o) PROVE Remembers
  BY <1>13 DEF Timeout, Return
<1>14. ASSUME NEW p \in Puts, NEW r \in Replicas, ReplicaPut(p, r) PROVE Remembers
  BY <1>14 DEF ReplicaPut, Reply
<1>15. ASSUME NEW d \in Deletes, NEW r \in Replicas, ReplicaDelete(d, r) PROVE Remembers
  BY <1>15 DEF ReplicaDelete, Reply
<1>16. ASSUME NEW g \in Gets, NEW r \in Replicas, ReplicaGet(g, r) PROVE Remembers
  BY <1>16 DEF ReplicaGet, Reply
<1>17. ASSUME NEW o \in Ops, NEW r \in Replicas, ReplicaFail(o, r) PROVE Remembers
  BY <1>17 DEF ReplicaFail, Reply
<1>18. ASSUME NEW p \in Puts, NEW r \in Replicas, DeliverHint(p, r) PROVE Remembers
  BY <1>18, HandoffSteps DEF DeliverHint
<1>19. ASSUME NEW p \in Puts, NEW r \in Replicas, ForgetHint(p, r) PROVE Remembers
  BY <1>19, HandoffSteps DEF ForgetHint
<1>20. ASSUME NEW p \in Puts, NEW r \in Replicas, DropHint(p, r) PROVE Remembers
  BY <1>20, HandoffSteps DEF DropHint
<1>s. ASSUME NEW r \in Replicas, ShortenList(r) PROVE Remembers
  BY <1>s DEF ShortenList
<1>21. CASE Stop
  BY <1>21 DEF Stop
<1>22. CASE UNCHANGED vars
  BY <1>22 DEF vars
<1> QED
  BY <1>1, <1>2, <1>3, <1>4, <1>5, <1>6, <1>7, <1>8, <1>9, <1>10, <1>11, <1>12,
     <1>13, <1>14, <1>15, <1>16, <1>17, <1>18, <1>19, <1>20, <1>s, <1>21, <1>22
     DEF Next, Handler, Replica, Handoff

----------------------------------------------------------------------------
(* The order of the requests.                                              *)

(* A request that others came after is over and done with; it has asked    *)
(* all the replicas or none of them; a write that asked none was refused,  *)
(* and so is everything that comes after it.                               *)
OrderOK(o) ==
  /\ Idle(o) \/ Past(o)
  /\ phase[o] = "new" => preceding[o] = {}
  /\ \A q \in preceding[o] : Finished(q)
  /\ \A q \in preceding[o] \cap Writes : Past(q) \/ result[o] = "error"
  /\ o \in Writes /\ phase[o] = "done" => Past(o) \/ ~running

OrderInv == \A o \in Ops : OrderOK(o)

(* Nothing happens any more to a request that is over.                     *)
LEMMA FinishedStays ==
  ASSUME NEW o \in Ops, Moves(o), Finished(o)
  PROVE  Still(o) /\ preceding'[o] = preceding[o] /\ Finished(o)'
<1>1. phase[o] = "done" /\ \A r \in Replicas : call[o][r] # "sent"
  BY DEF Finished, AllAnswered, Answered
<1>2. Still(o) /\ preceding'[o] = preceding[o]
  BY <1>1 DEF Moves, Begins, Asks, Hits, HearsFrom, Decides
<1> QED
  BY <1>1, <1>2 DEF Still, Finished, AllAnswered, Answered

(* Who has asked the replicas is past the start, and stays past it.        *)
LEMMA PastStays ==
  ASSUME TypeOK, RequestInv, NEW o \in Ops, Moves(o), Past(o)
  PROVE  Past(o)' /\ phase[o] \notin {"new", "local"}
<1>1. ~Idle(o)
  BY ReplicasAssumption DEF Past, Idle
<1>2. phase[o] \notin {"new", "local"}
  BY <1>1 DEF RequestInv, RequestOK
<1>3. \A r \in Replicas : call'[o][r] # "idle"
  <2>1. \A r \in Replicas : call[o][r] # "idle" /\ call[o] \in [Replicas -> {"idle", "sent", "ok", "fail"}]
    BY DEF Past, Answered, TypeOK
  <2> QED
    BY <1>2, <2>1 DEF Moves, Still, Begins, Asks, Hits, HearsFrom, Decides
<1> QED
  BY <1>2, <1>3 DEF Past, Answered

LEMMA OrderStep == TypeOK /\ RequestInv /\ OrderInv /\ [Next]_vars => OrderInv'
<1> SUFFICES ASSUME TypeOK, RequestInv, OrderInv, [Next]_vars, NEW o \in Ops
             PROVE  OrderOK(o)'
  BY DEF OrderInv
<1>m. \A q \in Ops : Moves(q)
  BY RequestMoves
<1>r. Remembers
  BY Memory
<1>o. OrderOK(o) /\ RequestOK(o) /\ preceding[o] \subseteq Ops
  BY DEF OrderInv, RequestInv, TypeOK
<1>f. \A q \in Ops : Finished(q) => Finished(q)'
  BY <1>m, FinishedStays
<1>p. \A q \in Ops : Past(q) => Past(q)'
  BY <1>m, PastStays
<1>1. CASE Begins(o)
  <2>1. Idle(o)'
    BY <1>1, <1>o DEF Begins, RequestOK, Idle, Answered
  <2>2. \A q \in preceding'[o] : Finished(q)'
    BY <1>1, <1>f DEF Begins
  <2>3. \A q \in preceding'[o] \cap Writes : Past(q)' \/ result'[o] = "error"
    <3> SUFFICES ASSUME NEW q \in preceding'[o] \cap Writes PROVE Past(q)' \/ result'[o] = "error"
      OBVIOUS
    <3>1. q \in Ops /\ phase[q] = "done"
      BY <1>1 DEF Begins, Finished
    <3>2. Past(q) \/ ~running
      BY <3>1 DEF OrderInv, OrderOK
    <3> QED
      BY <1>1, <1>p, <3>1, <3>2 DEF Begins
  <2>4. phase'[o] # "new" /\ (phase'[o] = "done" => ~running')
    BY <1>1, <1>r DEF Begins, Remembers
  <2> QED
    BY <2>1, <2>2, <2>3, <2>4 DEF OrderOK
<1>2. CASE preceding'[o] = preceding[o]
  <2>1. Idle(o)' \/ Past(o)'
    <3>1. CASE Past(o)
      BY <3>1, <1>p
    <3>2. CASE ~Past(o)
      <4>1. \A r \in Replicas : call[o][r] = "idle"
        BY <1>o, <3>2 DEF OrderOK, Idle, Answered
      <4>2. call'[o] = call[o] \/ call'[o] = [r \in Replicas |-> "sent"]
        BY <1>m, <4>1 DEF Moves, Still, Begins, Asks, Hits, HearsFrom, Decides
      <4> QED
        BY <4>1, <4>2 DEF Idle, Past, Answered
    <3> QED
      BY <3>1, <3>2
  <2>2. phase'[o] = "new" => phase[o] = "new"
    BY <1>m DEF Moves, Still, Begins, Asks, Hits, HearsFrom, Decides
  <2>3. \A q \in preceding'[o] : Finished(q)'
    BY <1>2, <1>f, <1>o DEF OrderOK
  <2>4. result[o] = "error" => result'[o] = "error"
    <3>1. result[o] = "error" => phase[o] = "done"
      BY <1>o DEF RequestOK
    <3> QED
      BY <1>m, <3>1 DEF Moves, Still, Begins, Asks, Hits, HearsFrom, Decides
  <2>5. \A q \in preceding'[o] \cap Writes : Past(q)' \/ result'[o] = "error"
    BY <1>2, <1>p, <1>o, <2>4 DEF OrderOK
  <2>6. ASSUME o \in Writes, phase'[o] = "done" PROVE Past(o)' \/ ~running'
    <3>1. phase[o] = "done" \/ Past(o) \/ ~running'
      <4>1. o \notin Gets
        BY <2>6, Kinds
      <4> QED
        BY <1>m, <1>o, <1>r, <2>6, <4>1
           DEF Moves, Still, Begins, Asks, Hits, HearsFrom, Decides, Past, RequestOK, Remembers
    <3> QED
      BY <3>1, <1>p, <1>o, <1>r, <2>6 DEF OrderOK, Remembers
  <2> QED
    BY <2>1, <2>2, <2>3, <2>5, <2>6, <1>2, <1>o DEF OrderOK
<1> QED
  BY <1>m, <1>1, <1>2 DEF Moves

----------------------------------------------------------------------------
(* When nobody else writes.                                                *)

Over(m, w) == phase[m] = "new" \/ m \in preceding[w]
Follows(m, w) == m \in Gets /\ w \in preceding[m]

(* Every other request was over before w began, has not begun, or is a get *)
(* that came after w; Calm: and no such get is about to write.             *)
Quiet(w) == \A m \in Ops \ {w} : Over(m, w) \/ Follows(m, w)
Calm(w) ==
  \A m \in Ops \ {w} : Over(m, w) \/ (Follows(m, w) /\ phase[m] \in {"local", "quorum"})

(* Once w has begun, these only cease to hold.                             *)
LEMMA QuietBefore ==
  ASSUME TypeOK, NEW w \in Ops, \A o \in Ops : Moves(o), phase[w] # "new"
  PROVE  (Quiet(w)' => Quiet(w)) /\ (Calm(w)' => Calm(w))
<1>1. preceding'[w] = preceding[w]
  BY DEF Moves, Begins
<1>2. ASSUME NEW m \in Ops, Over(m, w)' PROVE Over(m, w)
  <2>1. phase'[m] = "new" => phase[m] = "new"
    BY DEF Moves, Still, Begins, Asks, Hits, HearsFrom, Decides
  <2> QED
    BY <1>1, <1>2, <2>1 DEF Over
<1>3. ASSUME NEW m \in Ops, Follows(m, w)'
      PROVE  /\ Over(m, w) \/ Follows(m, w)
             /\ phase'[m] \in {"local", "quorum"} =>
                  Over(m, w) \/ (Follows(m, w) /\ phase[m] \in {"local", "quorum"})
  <2>1. CASE Begins(m)
    BY <2>1 DEF Begins, Over
  <2>2. CASE ~Begins(m)
    <3>1. preceding'[m] = preceding[m]
          /\ (phase'[m] \in {"local", "quorum"} => phase[m] \in {"local", "quorum"})
      BY <2>2 DEF Moves, Still, Asks, Hits, HearsFrom, Decides
    <3> QED
      BY <1>3, <3>1 DEF Follows
  <2> QED
    BY <2>1, <2>2
<1> QED
  BY <1>2, <1>3 DEF Quiet, Calm

(* Another write has not begun or is over.                                 *)
LEMMA NoOtherWrite ==
  ASSUME OrderInv, NEW w \in Ops, Quiet(w), NEW q \in Writes \ {w}
  PROVE  phase[q] = "new" \/ Finished(q)
BY Kinds DEF OrderInv, OrderOK, Quiet, Over, Follows

LEMMA CalmIsQuiet == ASSUME NEW w, Calm(w) PROVE Quiet(w)
BY DEF Calm, Quiet

(* So the steps of other writes change no store.                           *)
LEMMA OnlyOne ==
  ASSUME TypeOK, RequestInv, OrderInv, NEW w \in Ops, Quiet(w), NEW q \in Writes
  PROVE  /\ phase[q] = "local" /\ Asks(q) => q = w
         /\ \A r \in Replicas : HearsFrom(q, r) => q = w
<1> SUFFICES ASSUME q # w
             PROVE  ~Asks(q) /\ \A r \in Replicas : ~HearsFrom(q, r)
  OBVIOUS
<1>1. phase[q] = "new" \/ Finished(q)
  BY NoOtherWrite
<1>2. phase[q] = "new" => Idle(q)
  BY Kinds DEF RequestInv, RequestOK
<1> QED
  BY <1>1, <1>2 DEF Asks, HearsFrom, Idle, Finished, AllAnswered, Answered

----------------------------------------------------------------------------
(* What the local store holds.                                             *)

(* The local store has the last write from its first step on, until a get  *)
(* that came after it puts there what it read from the replicas.           *)
LocalOK(w) == Past(w) /\ Calm(w) => store[Local] = Written(w)

LEMMA LocalStep ==
  ASSUME TypeOK, RequestInv, OrderInv, [Next]_vars, NEW w \in Writes, LocalOK(w)
  PROVE  LocalOK(w)'
<1> SUFFICES ASSUME Past(w)', Calm(w)' PROVE store'[Local] = Written(w)
  BY DEF LocalOK
<1>m. (\A o \in Ops : Moves(o)) /\ Stores(Local) /\ w \in Ops /\ Local \in Nodes
  BY RequestMoves, StoresMove, Kinds
<1>1. CASE ~Past(w)
  <2>1. Asks(w)
    <3>1. \A r \in Replicas : call[w][r] = "idle"
      BY <1>1, <1>m DEF OrderInv, OrderOK, Idle, Answered
    <3>2. call'[w] # call[w]
      BY <1>1 DEF Past, Answered
    <3> QED
      BY <1>m, <3>1, <3>2 DEF Moves, Still, Begins, Hits, HearsFrom, Decides
  <2> QED
    BY <2>1 DEF Asks
<1>2. CASE Past(w)
  <2>1. phase[w] \notin {"new", "local"}
    BY <1>2, <1>m, PastStays
  <2>2. Calm(w) /\ Quiet(w) /\ store[Local] = Written(w)
    BY <1>2, <1>m, <2>1, QuietBefore, CalmIsQuiet DEF LocalOK
  <2>3. ASSUME NEW q \in Writes, phase[q] = "local", Asks(q) PROVE FALSE
    BY <2>1, <2>2, <2>3, <1>m, OnlyOne
  <2>4. ASSUME Local \in Replicas, NEW q \in Writes, HearsFrom(q, Local), Local \in Answered(q, "ok")'
        PROVE  store'[Local] = Written(w)
    <3>1. q = w
      BY <2>2, <2>4, <1>m, OnlyOne
    <3>2. call[w] \in [Replicas -> {"idle", "sent", "ok", "fail"}] /\ call'[w][Local] = "ok"
      BY <2>4, <3>1, <1>m DEF TypeOK, Answered
    <3> QED
      BY <2>4, <3>1, <3>2 DEF HearsFrom
  <2>5. ASSUME NEW g \in Gets, phase[g] = "cache" PROVE FALSE
    <3>1. g \in Ops \ {w}
      BY Kinds
    <3>2. g \in preceding[w]
      BY <2>2, <2>5, <3>1 DEF Calm, Over
    <3> QED
      BY <2>5, <3>2, <1>m DEF OrderInv, OrderOK, Finished
  <2> QED
    BY <1>m, <2>2, <2>3, <2>4, <2>5 DEF Stores
<1> QED
  BY <1>1, <1>2

(* A put stays in the local store as long as nothing but gets come after   *)
(* it, and every such get returns it without asking the replicas.          *)
ReadsPut(g, p) ==
  phase[g] \in {"local", "done"} /\ (result[g] = "ok" => value[g] = p)

PutOK(p) ==
  Past(p) /\ Quiet(p) =>
    store[Local] = p /\ \A g \in Gets : p \in preceding[g] => ReadsPut(g, p)

LEMMA PutStep ==
  ASSUME TypeOK, RequestInv, OrderInv, [Next]_vars, NEW p \in Puts, PutOK(p)
  PROVE  PutOK(p)'
<1> SUFFICES ASSUME Past(p)', Quiet(p)'
             PROVE  /\ store'[Local] = p
                    /\ \A g \in Gets : p \in preceding'[g] => ReadsPut(g, p)'
  BY DEF PutOK
<1>m. /\ (\A o \in Ops : Moves(o)) /\ Stores(Local) /\ Remembers
      /\ p \in Ops /\ p \in Writes /\ Written(p) = p /\ p # NoVal /\ Gets \subseteq Ops
      /\ Local \in Nodes
  BY RequestMoves, StoresMove, Memory, Kinds
<1>o. OrderInv'
  BY OrderStep
<1>1. CASE ~Past(p)
  <2>1. Asks(p)
    <3>1. \A r \in Replicas : call[p][r] = "idle"
      BY <1>1, <1>m DEF OrderInv, OrderOK, Idle, Answered
    <3>2. call'[p] # call[p]
      BY <1>1 DEF Past, Answered
    <3> QED
      BY <1>m, <3>1, <3>2, Kinds DEF Moves, Still, Begins, Hits, HearsFrom, Decides
  <2>2. store'[Local] = p /\ ~Finished(p)'
    BY <2>1, <1>m DEF Asks, Finished
  <2>3. \A g \in Gets : p \notin preceding'[g]
    BY <2>2, <1>o, <1>m DEF OrderInv, OrderOK
  <2> QED
    BY <2>2, <2>3
<1>2. CASE Past(p)
  <2>1. phase[p] \notin {"new", "local"}
    BY <1>2, <1>m, PastStays
  <2>2. /\ Quiet(p) /\ store[Local] = p
        /\ \A g \in Gets : p \in preceding[g] => ReadsPut(g, p)
    BY <1>2, <1>m, <2>1, QuietBefore DEF PutOK
  <2>3. ASSUME NEW q \in Writes, phase[q] = "local", Asks(q) PROVE FALSE
    BY <2>1, <2>2, <2>3, <1>m, OnlyOne
  <2>4. ASSUME Local \in Replicas, NEW q \in Writes, HearsFrom(q, Local), Local \in Answered(q, "ok")'
        PROVE  store'[Local] = p
    <3>1. q = p
      BY <2>2, <2>4, <1>m, OnlyOne
    <3>2. call[p] \in [Replicas -> {"idle", "sent", "ok", "fail"}] /\ call'[p][Local] = "ok"
      BY <2>4, <3>1, <1>m DEF TypeOK, Answered
    <3> QED
      BY <2>4, <3>1, <3>2, <1>m DEF HearsFrom
  <2>5. ASSUME NEW g \in Gets, phase[g] = "cache" PROVE FALSE
    <3>1. g \in Ops \ {p}
      BY Kinds
    <3>2. g \in preceding[p]
      BY <2>2, <2>5, <3>1 DEF Quiet, Over, Follows, ReadsPut
    <3> QED
      BY <2>5, <3>2, <1>m DEF OrderInv, OrderOK, Finished
  <2>6. store'[Local] = p
    BY <1>m, <2>2, <2>3, <2>4, <2>5 DEF Stores
  <2>7. ASSUME NEW g \in Gets, p \in preceding'[g] PROVE ReadsPut(g, p)'
    <3>1. CASE Begins(g)
      <4>1. result[g] = "none"
        BY <3>1, <1>m DEF Begins, RequestInv, RequestOK
      <4> QED
        BY <3>1, <4>1 DEF Begins, ReadsPut
    <3>2. CASE ~Begins(g)
      <4>1. ReadsPut(g, p)
        BY <2>2, <2>7, <3>2, <1>m DEF Moves
      <4>2. phase[g] = "local" => result[g] = "none"
        BY <1>m DEF RequestInv, RequestOK
      <4>3. phase[g] = "done" => value'[g] = value[g]
        BY <1>m DEF Remembers
      <4> QED
        BY <3>2, <4>1, <4>2, <4>3, <2>2, <1>m
           DEF Moves, Still, Asks, Hits, HearsFrom, Decides, ReadsPut
    <3> QED
      BY <3>1, <3>2
  <2> QED
    BY <2>6, <2>7
<1> QED
  BY <1>1, <1>2

----------------------------------------------------------------------------
(* What the other replicas hold.                                           *)

(* How a replica comes to have answered.                                   *)
LEMMA NewAnswer ==
  ASSUME TypeOK, RequestInv, NEW o \in Ops, Moves(o), NEW r \in Answered(o, "ok")',
         r \notin Answered(o, "ok")
  PROVE  /\ HearsFrom(o, r)
         /\ o \in Writes => store'[r] = Written(o)
         /\ o \in Gets => seen'[o][r] = store[r]
<1>1. /\ r \in Replicas /\ call'[o][r] = "ok" /\ call[o][r] # "ok"
      /\ call[o] \in [Replicas -> {"idle", "sent", "ok", "fail"}]
  BY DEF Answered, TypeOK
<1>2. PICK s \in Replicas : HearsFrom(o, s)
  BY <1>1 DEF Moves, Still, Begins, Asks, Hits, Decides
<1>3. s = r
  BY <1>1, <1>2 DEF HearsFrom
<1> QED
  BY <1>1, <1>2, <1>3 DEF HearsFrom

PeerOK(w) ==
  Quiet(w) => \A r \in Answered(w, "ok") :
    r # Local => store[r] = Written(w) \/ <<store[r], r>> \in delivered

LEMMA PeerStep ==
  ASSUME TypeOK, RequestInv, OrderInv, [Next]_vars, NEW w \in Writes, PeerOK(w)
  PROVE  PeerOK(w)'
<1> SUFFICES ASSUME Quiet(w)', NEW r \in Answered(w, "ok")', r # Local
             PROVE  store'[r] = Written(w) \/ <<store'[r], r>> \in delivered'
  BY DEF PeerOK
<1>m. (\A o \in Ops : Moves(o)) /\ Remembers /\ w \in Ops /\ r \in Replicas /\ Stores(r)
  BY RequestMoves, StoresMove, Memory, Kinds DEF Answered
<1>1. CASE r \notin Answered(w, "ok")
  BY <1>1, <1>m, NewAnswer
<1>2. CASE r \in Answered(w, "ok")
  <2>1. phase[w] # "new" /\ call[w][r] # "sent"
    BY <1>2, <1>m DEF RequestInv, RequestOK, Idle, Answered
  <2>2. Quiet(w)
    BY <1>m, <2>1, QuietBefore
  <2>3. store[r] = Written(w) \/ <<store[r], r>> \in delivered
    BY <1>2, <2>2 DEF PeerOK
  <2>4. ~\E q \in Writes : HearsFrom(q, r)
    BY <2>1, <2>2, <1>m, OnlyOne DEF HearsFrom
  <2> QED
    BY <2>3, <2>4, <1>m DEF Stores, Remembers
<1> QED
  BY <1>1, <1>2

----------------------------------------------------------------------------
(* What a get that came after a write sees.                                *)

(* Until get g is over no other request can have come after it, and what   *)
(* came after it has begun only since.                                     *)
LEMMA UndisturbedBefore ==
  ASSUME OrderInv, NEW w \in Ops, NEW g \in Ops, \A o \in Ops : Moves(o),
         w \in preceding[g], Undisturbed(w, g)'
  PROVE  Undisturbed(w, g) /\ (~Finished(g) => Quiet(w) \/ g \notin Gets)
<1>1. Finished(w) /\ preceding'[w] = preceding[w]
  BY FinishedStays DEF OrderInv, OrderOK
<1>2. ASSUME NEW m \in Ops \ {w, g}
      PROVE  \/ phase[m] = "new" \/ m \in preceding[w]
             \/ g \in preceding[m] /\ Finished(g)
  <2>1. phase'[m] = "new" \/ m \in preceding'[w] \/ g \in preceding'[m]
    BY DEF Undisturbed, AloneAmong
  <2>2. phase'[m] = "new" => phase[m] = "new"
    BY DEF Moves, Still, Begins, Asks, Hits, HearsFrom, Decides
  <2>3. phase[m] = "new" \/ preceding'[m] = preceding[m]
    BY DEF Moves, Begins
  <2> QED
    BY <1>1, <2>1, <2>2, <2>3 DEF OrderInv, OrderOK
<1> QED
  BY <1>2 DEF Undisturbed, AloneAmong, Quiet, Over, Follows

SeenOK(w, g) ==
  Undisturbed(w, g) /\ result[g] # "error" =>
    \A r \in Answered(w, "ok") \cap Answered(g, "ok") :
      seen[g][r] = Written(w) \/ <<seen[g][r], r>> \in delivered

LEMMA SeenStep ==
  ASSUME TypeOK, RequestInv, OrderInv, [Next]_vars, NEW w \in Writes, NEW g \in Gets,
         LocalOK(w), PeerOK(w), SeenOK(w, g)
  PROVE  SeenOK(w, g)'
<1> SUFFICES ASSUME Undisturbed(w, g)', result'[g] # "error",
                    NEW r \in Answered(w, "ok")' \cap Answered(g, "ok")'
             PROVE  seen'[g][r] = Written(w) \/ <<seen'[g][r], r>> \in delivered'
  BY DEF SeenOK
<1>m. (\A o \in Ops : Moves(o)) /\ Remembers /\ w \in Ops /\ g \in Ops /\ r \in Replicas
  BY RequestMoves, Memory, Kinds DEF Answered
<1>1. ~Begins(g)
  <2>1. ASSUME Begins(g) PROVE FALSE
    <3>1. Idle(g) /\ call'[g] = call[g]
      BY <2>1, <1>m DEF Begins, RequestInv, RequestOK
    <3> QED
      BY <3>1 DEF Idle, Answered
  <2> QED
    BY <2>1
<1>2. w \in preceding[g] /\ Finished(w)
  <2>1. preceding'[g] = preceding[g]
    BY <1>1, <1>m DEF Moves
  <2> QED
    BY <2>1, <1>m DEF Undisturbed, AloneAmong, OrderInv, OrderOK
<1>3. r \in Answered(w, "ok") /\ Past(w)
  <2>1. r \in Answered(w, "ok")
    BY <1>2, <1>m, FinishedStays DEF Still, Answered
  <2> QED
    BY <2>1, <1>m DEF OrderInv, OrderOK, Idle, Answered
<1>4. Undisturbed(w, g) /\ (~Finished(g) => Quiet(w))
  BY <1>2, <1>m, UndisturbedBefore
<1>5. result[g] # "error"
  <2>1. result[g] = "error" => phase[g] = "done"
    BY <1>m DEF RequestInv, RequestOK
  <2> QED
    BY <2>1, <1>1, <1>m DEF Moves, Still, Asks, Hits, HearsFrom, Decides
<1>6. CASE r \in Answered(g, "ok")
  <2>1. seen'[g][r] = seen[g][r]
    BY <1>6, <1>m DEF Remembers, Answered
  <2>2. seen[g][r] = Written(w) \/ <<seen[g][r], r>> \in delivered
    BY <1>3, <1>4, <1>5, <1>6 DEF SeenOK
  <2> QED
    BY <2>1, <2>2, <1>m DEF Remembers
<1>7. CASE r \notin Answered(g, "ok")
  <2>1. seen'[g][r] = store[r] /\ call[g][r] = "sent"
    BY <1>7, <1>m, NewAnswer DEF HearsFrom
  <2>2. ~Idle(g) /\ ~Settled(g) /\ ~Finished(g)
    BY <2>1, <1>m DEF Idle, Settled, Finished, AllAnswered, Answered
  <2>3. phase[g] = "quorum"
    <3>1. phase[g] \in Phases /\ result[g] \in {"none", "ok", "error"} /\ RequestOK(g)
      BY <1>m DEF TypeOK, RequestInv
    <3> QED
      BY <2>2, <3>1, <1>5, <1>m DEF RequestOK, Phases
  <2>4. Quiet(w) /\ Calm(w)
    <3>1. \A m \in Ops \ {w, g} : Over(m, w)
      BY <2>2, <1>4, <1>m DEF Undisturbed, AloneAmong, Over, OrderInv, OrderOK
    <3>2. Follows(g, w)
      BY <1>2 DEF Follows
    <3> QED
      BY <3>1, <3>2, <2>3 DEF Quiet, Calm
  <2>5. store[r] = Written(w) \/ <<store[r], r>> \in delivered
    BY <1>3, <2>4 DEF LocalOK, PeerOK
  <2> QED
    BY <2>1, <2>5, <1>m DEF Remembers
<1> QED
  BY <1>6, <1>7

(* Get g came after put p, and whatever came after p before g was over     *)
(* were gets.                                                              *)
OnlyReadsSince(p, g) ==
  /\ p \in preceding[g]
  /\ \A m \in Ops \ {p, g} : Over(m, p) \/ Follows(m, p) \/ g \in preceding[m]

LEMMA ReadsSinceBefore ==
  ASSUME OrderInv, NEW p \in Ops, NEW g \in Ops, \A o \in Ops : Moves(o),
         p \in preceding[g], OnlyReadsSince(p, g)'
  PROVE  OnlyReadsSince(p, g) /\ (~Finished(g) /\ g \in Gets => Quiet(p))
<1>1. Finished(p) /\ preceding'[p] = preceding[p]
  BY FinishedStays DEF OrderInv, OrderOK
<1>2. ASSUME NEW m \in Ops \ {p, g}
      PROVE  Over(m, p) \/ Follows(m, p) \/ (g \in preceding[m] /\ Finished(g))
  <2>1. Over(m, p)' \/ Follows(m, p)' \/ g \in preceding'[m]
    BY DEF OnlyReadsSince
  <2>2. phase'[m] = "new" => phase[m] = "new"
    BY DEF Moves, Still, Begins, Asks, Hits, HearsFrom, Decides
  <2>3. phase[m] = "new" \/ preceding'[m] = preceding[m]
    BY DEF Moves, Begins
  <2> QED
    BY <1>1, <2>1, <2>2, <2>3 DEF OrderInv, OrderOK, Over, Follows
<1> QED
  BY <1>2 DEF OnlyReadsSince, Quiet, Over, Follows

ReadOK(p, g) == OnlyReadsSince(p, g) /\ Past(p) /\ result[g] = "ok" => value[g] = p

LEMMA ReadStep ==
  ASSUME TypeOK, RequestInv, OrderInv, [Next]_vars, NEW p \in Puts, NEW g \in Gets,
         PutOK(p), ReadOK(p, g)
  PROVE  ReadOK(p, g)'
<1> SUFFICES ASSUME OnlyReadsSince(p, g)', Past(p)', result'[g] = "ok"
             PROVE  value'[g] = p
  BY DEF ReadOK
<1>m. (\A o \in Ops : Moves(o)) /\ Remembers /\ p \in Ops /\ g \in Ops
  BY RequestMoves, Memory, Kinds
<1>1. ~Begins(g)
  BY <1>m DEF Begins, RequestInv, RequestOK
<1>2. preceding'[g] = preceding[g] /\ p \in preceding[g] /\ Finished(p)
  <2>1. preceding'[g] = preceding[g]
    BY <1>1, <1>m DEF Moves
  <2> QED
    BY <2>1, <1>m DEF OnlyReadsSince, OrderInv, OrderOK
<1>3. CASE result[g] = "ok"
  <2>1. phase[g] = "done"
    BY <1>3, <1>m DEF RequestInv, RequestOK
  <2>2. Past(p)
    BY <1>2, <1>m, FinishedStays DEF Still, Past, Answered
  <2>3. OnlyReadsSince(p, g)
    BY <1>2, <1>m, ReadsSinceBefore
  <2> QED
    BY <1>3, <2>1, <2>2, <2>3, <1>m DEF ReadOK, Remembers
<1>4. CASE result[g] # "ok"
  <2>1. ~Finished(g)
    BY <1>4, <1>m, FinishedStays DEF Still
  <2>2. Quiet(p)'
    <3>1. ASSUME NEW m \in Ops \ {p, g} PROVE Over(m, p)' \/ Follows(m, p)'
      <4>1. g \notin preceding'[m]
        BY <2>1, <1>m DEF Moves, Begins, OrderInv, OrderOK
      <4> QED
        BY <4>1 DEF OnlyReadsSince
    <3>2. Follows(g, p)'
      BY <1>2 DEF Follows
    <3> QED
      BY <3>1, <3>2 DEF Quiet
  <2>3. PutOK(p)'
    BY PutStep
  <2> QED
    BY <2>2, <2>3, <1>2 DEF PutOK, ReadsPut
<1> QED
  BY <1>3, <1>4

----------------------------------------------------------------------------
(* Where a value comes from that a get returns after a delete.             *)

(* A get decides on what it found in the local store, or on what a replica *)
(* told it.                                                                *)
LEMMA ValueMoves ==
  ASSUME TypeOK, [Next]_vars, NEW g \in Gets
  PROVE  \/ value'[g] = value[g]
         \/ Hits(g)
         \/ Collected(g) /\ call'[g] = call[g] /\ \E r \in Found(g) : value'[g] = seen[g][r]
<1>1. ASSUME NEW h \in Gets, GetLocally(h) PROVE value'[g] = value[g] \/ Hits(g)
  BY <1>1, Kinds DEF GetLocally, Hits, Return, TypeOK
<1>2. ASSUME NEW h \in Gets, GetResolved(h)
      PROVE  \/ value'[g] = value[g]
             \/ Collected(g) /\ call'[g] = call[g] /\ \E r \in Found(g) : value'[g] = seen[g][r]
  BY <1>2 DEF GetResolved, TypeOK
<1>3. CASE /\ ~\E h \in Gets : GetLocally(h) \/ GetResolved(h)
           /\ Next \/ UNCHANGED vars
  <2>1. ASSUME NEW o \in Ops, Accept(o) \/ Refuse(o) \/ Handler(o) PROVE value' = value
    BY <1>3, <2>1, Kinds
       DEF Accept, Refuse, Begin, Handler, PutLocally, PutAchieved, DeleteLocally,
           DeleteAchieved, MissLocally, GetAbsent, CacheLocally, QuorumMissed, Timeout
  <2>2. ASSUME NEW o \in Ops, NEW r \in Replicas, Replica(o, r) PROVE value' = value
    BY <2>2 DEF Replica, ReplicaPut, ReplicaDelete, ReplicaGet, ReplicaFail
  <2>3. ASSUME NEW p \in Puts, NEW r \in Replicas, Handoff(p, r) PROVE value' = value
    BY <2>3 DEF Handoff, DeliverHint, ForgetHint, DropHint
  <2>4. ASSUME (\E r \in Replicas : ShortenList(r)) \/ Stop \/ UNCHANGED vars
        PROVE  value' = value
    BY <2>4 DEF ShortenList, Stop, vars
  <2> QED
    BY <1>3, <2>1, <2>2, <2>3, <2>4 DEF Next
<1> QED
  BY <1>1, <1>2, <1>3

(* A value that get g returns was told by a replica that answered it.      *)
Told(g) == \E r \in Answered(g, "ok") : seen[g][r] = value[g]

ToldOK(d, g) ==
  /\ phase[g] = "new" => value[g] = NoVal
  /\ Undisturbed(d, g) /\ result[g] # "error" => value[g] = NoVal \/ Told(g)

LEMMA ToldStep ==
  ASSUME TypeOK, RequestInv, OrderInv, [Next]_vars, NEW d \in Deletes, NEW g \in Gets,
         LocalOK(d), ToldOK(d, g)
  PROVE  ToldOK(d, g)'
<1>m. /\ (\A o \in Ops : Moves(o)) /\ Remembers
      /\ d \in Ops /\ g \in Ops /\ d \in Writes /\ Written(d) = NoVal
  BY RequestMoves, Memory, Kinds
<1>0. phase'[g] = "new" => value'[g] = NoVal
  <2>1. phase'[g] = "new" => phase[g] = "new"
    BY <1>m DEF Moves, Still, Begins, Asks, Hits, HearsFrom, Decides
  <2> QED
    BY <2>1, ValueMoves DEF ToldOK, Hits, Collected
<1> SUFFICES ASSUME Undisturbed(d, g)', result'[g] # "error"
             PROVE  value'[g] = NoVal \/ Told(g)'
  BY <1>0 DEF ToldOK
<1>1. CASE Begins(g)
  <2>1. value[g] = NoVal
    BY <1>1 DEF Begins, ToldOK
  <2>2. value'[g] = value[g]
    BY <1>1, ValueMoves DEF Begins, Hits, Collected
  <2> QED
    BY <2>1, <2>2
<1>2. CASE ~Begins(g)
  <2>1. d \in preceding[g] /\ Finished(d)
    <3>1. preceding'[g] = preceding[g]
      BY <1>2, <1>m DEF Moves
    <3> QED
      BY <3>1, <1>m DEF Undisturbed, AloneAmong, OrderInv, OrderOK
  <2>2. Undisturbed(d, g) /\ (~Finished(g) => Quiet(d))
    BY <2>1, <1>m, UndisturbedBefore
  <2>3. result[g] # "error"
    <3>1. result[g] = "error" => phase[g] = "done"
      BY <1>m DEF RequestInv, RequestOK
    <3> QED
      BY <3>1, <1>2, <1>m DEF Moves, Still, Asks, Hits, HearsFrom, Decides
  <2>4. value[g] = NoVal \/ Told(g)
    BY <2>2, <2>3 DEF ToldOK
  <2>5. ASSUME NEW r \in Answered(g, "ok")
        PROVE  r \in Answered(g, "ok")' /\ seen'[g][r] = seen[g][r]
    <3>1. r \in Replicas /\ call[g][r] = "ok" /\ call[g] \in [Replicas -> {"idle", "sent", "ok", "fail"}]
      BY <1>m DEF Answered, TypeOK
    <3>2. phase[g] # "local"
      BY <3>1, <1>m DEF RequestInv, RequestOK, Idle, Answered
    <3>3. call'[g][r] = "ok"
      BY <3>1, <3>2, <1>m DEF Moves, Still, Begins, Asks, Hits, HearsFrom, Decides
    <3> QED
      BY <3>1, <3>3, <1>m DEF Answered, Remembers
  <2>6. CASE value'[g] = value[g]
    BY <2>4, <2>5, <2>6 DEF Told
  <2>7. CASE Hits(g)
    <3>1. ~Finished(g) /\ phase[g] = "local" /\ result[g] # "error"
      BY <2>3, <2>7 DEF Hits, Finished
    <3>2. Past(d)
      <4>1. \A q \in preceding[g] \cap Writes : Past(q) \/ result[g] = "error"
        BY <1>m DEF OrderInv, OrderOK
      <4> QED
        BY <2>1, <2>3, <4>1, <1>m
    <3>3. Calm(d)
      <4>1. \A m \in Ops \ {d, g} : Over(m, d)
        BY <2>2, <3>1, <1>m DEF Undisturbed, AloneAmong, Over, OrderInv, OrderOK
      <4>2. Follows(g, d)
        BY <2>1 DEF Follows
      <4> QED
        BY <3>1, <4>1, <4>2 DEF Calm
    <3> QED
      BY <2>7, <3>2, <3>3, <1>m DEF LocalOK, Hits
  <2>8. CASE \E r \in Found(g) : value'[g] = seen[g][r]
    BY <2>5, <2>8 DEF Found, Told
  <2> QED
    BY <2>6, <2>7, <2>8, ValueMoves
<1> QED
  BY <1>1, <1>2

----------------------------------------------------------------------------
(* What a replica holds after it has acknowledged a write.                 *)

(* A get that is about to put a value into the local store has one.        *)
CacheOK(g) == phase[g] = "cache" => value[g] # NoVal

LEMMA CacheStep ==
  ASSUME TypeOK, RequestInv, [Next]_vars, NEW g \in Gets, CacheOK(g)
  PROVE  CacheOK(g)'
<1>1. Moves(g) /\ Remembers
  BY RequestMoves, Memory, Kinds
<1> QED
  BY <1>1 DEF CacheOK, Moves, Still, Begins, Asks, Hits, HearsFrom, Decides, Remembers

(* What a request left in a store it has left there as long as the store   *)
(* does not change.                                                        *)
LEMMA LeftStays ==
  ASSUME TypeOK, RequestInv, NEW o \in Ops, Moves(o), Remembers,
         NEW n, store'[n] = store[n], Left(o, n)
  PROVE  Left(o, n)'
<1>1. Past(o)' /\ phase[o] \notin {"new", "local"}
  BY PastStays DEF Left, Past
<1>2. n \in Answered(o, "ok") => n \in Answered(o, "ok")'
  <2>1. call[o] \in [Replicas -> {"idle", "sent", "ok", "fail"}]
    BY DEF TypeOK
  <2> QED
    BY <1>1, <2>1 DEF Moves, Still, Begins, Asks, Hits, HearsFrom, Decides, Answered
<1>3. phase[o] = "done" => phase'[o] = "done"
  BY DEF Moves, Still, Begins, Asks, Hits, HearsFrom, Decides
<1>4. CASE o \in Writes /\ store[n] = Written(o) /\ (n = Local \/ n \in Answered(o, "ok"))
  BY <1>1, <1>2, <1>4 DEF Left, Past, Written
<1>5. CASE /\ o \in Gets /\ phase[o] = "done" /\ n = Local
           /\ store[n] = value[o] /\ value[o] # NoVal
  BY <1>1, <1>3, <1>5 DEF Left, Past, Remembers
<1> QED
  BY <1>4, <1>5 DEF Left

(* Whatever a step puts into a store was left there by a request that was  *)
(* not over, or by a hint.                                                 *)
LEMMA StoredBy ==
  ASSUME TypeOK, RequestInv, OrderInv, \A g \in Gets : CacheOK(g), [Next]_vars,
         NEW n \in Nodes
  PROVE  \/ store'[n] = store[n]
         \/ <<store'[n], n>> \in delivered'
         \/ \E o \in Ops : ~Finished(o) /\ Left(o, n)'
<1>m. (\A o \in Ops : Moves(o)) /\ Remembers /\ Stores(n)
  BY RequestMoves, Memory, StoresMove
<1>1. ASSUME n = Local, NEW w \in Writes, phase[w] = "local", Asks(w)
      PROVE  ~Finished(w) /\ Left(w, n)'
  <2>1. Answered(w, "idle")' = {}
    BY <1>1 DEF Asks, Answered
  <2>2. store'[n] = Written(w)' /\ ~Finished(w)
    BY <1>1 DEF Asks, Written, Finished
  <2> QED
    BY <1>1, <2>1, <2>2 DEF Left
<1>2. ASSUME n \in Replicas, NEW w \in Writes, HearsFrom(w, n), n \in Answered(w, "ok")'
      PROVE  ~Finished(w) /\ Left(w, n)'
  <2>0. w \in Ops /\ call[w] \in [Replicas -> {"idle", "sent", "ok", "fail"}]
    BY Kinds DEF TypeOK
  <2>1. ~Idle(w) /\ ~Finished(w)
    BY <1>2 DEF HearsFrom, Idle, Finished, AllAnswered, Answered
  <2>2. Past(w)'
    BY <1>m, <2>0, <2>1, PastStays DEF OrderInv, OrderOK
  <2>3. store'[n] = Written(w)'
    <3>1. n \notin Answered(w, "ok")
      BY <1>2 DEF HearsFrom, Answered
    <3> QED
      BY <1>2, <1>m, <2>0, <3>1, NewAnswer DEF Written
  <2> QED
    BY <1>2, <2>1, <2>2, <2>3 DEF Left, Past
<1>3. ASSUME n = Local, NEW g \in Gets, phase[g] = "cache", phase'[g] = "done",
             store'[n] = value[g]
      PROVE  ~Finished(g) /\ Left(g, n)'
  <2>1. Past(g)
    BY <1>3, Kinds DEF RequestInv, RequestOK, Past
  <2>2. Past(g)' /\ value'[g] = value[g] /\ value[g] # NoVal
    BY <1>3, <1>m, <2>1, Kinds, PastStays DEF Remembers, CacheOK
  <2> QED
    BY <1>3, <2>2 DEF Left, Past, Finished
<1> QED
  BY <1>m, <1>1, <1>2, <1>3, Kinds DEF Stores

LEMMA AckedStep ==
  ASSUME TypeOK, RequestInv, OrderInv, \A g \in Gets : CacheOK(g), AckedWriteStays,
         [Next]_vars
  PROVE  AckedWriteStays'
<1> SUFFICES ASSUME NEW w \in Writes, NEW r \in Answered(w, "ok")'
             PROVE  \/ <<store'[r], r>> \in delivered'
                    \/ \E o \in Ops : o \notin preceding'[w] /\ Left(o, r)'
  BY DEF AckedWriteStays
<1>m. /\ (\A o \in Ops : Moves(o)) /\ Remembers
      /\ w \in Ops /\ r \in Replicas /\ r \in Nodes
  BY RequestMoves, Memory, Kinds DEF Answered
<1>1. preceding'[w] = preceding[w]
  <2>1. call'[w][r] = "ok"
    BY DEF Answered
  <2>2. ASSUME Begins(w) PROVE FALSE
    BY <2>1, <2>2, <1>m DEF Begins, RequestInv, RequestOK, Idle, Answered
  <2> QED
    BY <2>2, <1>m DEF Moves
<1>2. \A o \in preceding[w] : Finished(o)
  BY <1>m DEF OrderInv, OrderOK
<1>3. CASE r \notin Answered(w, "ok")
  <2>1. HearsFrom(w, r) /\ store'[r] = Written(w)
    BY <1>3, <1>m, NewAnswer
  <2>2. ~Finished(w) /\ ~Idle(w)
    BY <2>1, <1>m DEF HearsFrom, Finished, AllAnswered, Idle, Answered
  <2>3. Past(w)'
    BY <1>m, <2>2, PastStays DEF OrderInv, OrderOK
  <2>4. Left(w, r)'
    BY <2>1, <2>3 DEF Left, Past, Written
  <2> QED
    BY <1>1, <1>2, <1>m, <2>2, <2>4
<1>4. CASE r \in Answered(w, "ok")
  <2>1. CASE store'[r] = store[r]
    <3>1. CASE <<store[r], r>> \in delivered
      BY <2>1, <3>1, <1>m DEF Remembers
    <3>2. ASSUME NEW o \in Ops, o \notin preceding[w], Left(o, r) PROVE Left(o, r)'
      BY <2>1, <3>2, <1>m, LeftStays
    <3> QED
      BY <1>1, <1>4, <3>1, <3>2 DEF AckedWriteStays
  <2> QED
    BY <1>1, <1>2, <1>m, <2>1, StoredBy
<1> QED
  BY <1>3, <1>4

----------------------------------------------------------------------------
(* The invariant, and what it says to a client.                            *)

SessionInv ==
  /\ OrderInv
  /\ \A w \in Writes : LocalOK(w) /\ PeerOK(w)
  /\ \A p \in Puts : PutOK(p)
  /\ \A w \in Writes, g \in Gets : SeenOK(w, g)
  /\ \A p \in Puts, g \in Gets : ReadOK(p, g)
  /\ \A d \in Deletes, g \in Gets : ToldOK(d, g)
  /\ \A g \in Gets : CacheOK(g)
  /\ AckedWriteStays

LEMMA SessionInvariant == Spec => [](TypeOK /\ RequestInv /\ SessionInv)
<1>1. Init => SessionInv
  <2> SUFFICES ASSUME Init PROVE SessionInv
    OBVIOUS
  <2>1. /\ \A o \in Ops : /\ phase[o] = "new" /\ preceding[o] = {}
                          /\ Answered(o, "idle") = Replicas /\ Answered(o, "ok") = {}
        /\ Replicas # {} /\ Writes \subseteq Ops /\ Gets \subseteq Ops /\ Puts \subseteq Writes
    BY ReplicasAssumption, Kinds DEF Init, Answered
  <2>2. OrderInv
    BY <2>1 DEF OrderInv, OrderOK, Idle
  <2>3. \A w \in Writes : LocalOK(w) /\ PeerOK(w)
    BY <2>1 DEF LocalOK, PeerOK, Past
  <2>4. \A p \in Puts : PutOK(p)
    BY <2>1 DEF PutOK, Past
  <2>5. \A w \in Ops, g \in Gets : ~Undisturbed(w, g) /\ ~OnlyReadsSince(w, g)
    BY <2>1 DEF Undisturbed, AloneAmong, OnlyReadsSince
  <2>6. \A g \in Gets : value[g] = NoVal
    BY DEF Init
  <2>7. AckedWriteStays /\ \A g \in Gets : CacheOK(g)
    BY <2>1 DEF AckedWriteStays, CacheOK
  <2> QED
    BY <2>1, <2>2, <2>3, <2>4, <2>5, <2>6, <2>7, Kinds
       DEF SessionInv, SeenOK, ReadOK, ToldOK
<1>2. TypeOK /\ RequestInv /\ SessionInv /\ [Next]_vars => SessionInv'
  <2> SUFFICES ASSUME TypeOK, RequestInv, SessionInv, [Next]_vars PROVE SessionInv'
    OBVIOUS
  <2>1. OrderInv /\ OrderInv'
    BY OrderStep DEF SessionInv
  <2>2. \A w \in Writes : LocalOK(w)' /\ PeerOK(w)'
    BY <2>1, LocalStep, PeerStep DEF SessionInv
  <2>3. \A p \in Puts : PutOK(p)'
    BY <2>1, PutStep DEF SessionInv
  <2>4. \A w \in Writes, g \in Gets : SeenOK(w, g)'
    BY <2>1, SeenStep DEF SessionInv
  <2>5. \A p \in Puts, g \in Gets : ReadOK(p, g)'
    BY <2>1, ReadStep DEF SessionInv
  <2>6. \A d \in Deletes, g \in Gets : ToldOK(d, g)'
    BY <2>1, ToldStep, Kinds DEF SessionInv
  <2>7. \A g \in Gets : CacheOK(g)'
    BY CacheStep DEF SessionInv
  <2>8. AckedWriteStays'
    BY <2>1, AckedStep DEF SessionInv
  <2> QED
    BY <2>1, <2>2, <2>3, <2>4, <2>5, <2>6, <2>7, <2>8 DEF SessionInv
<1> QED
  BY <1>1, <1>2, RequestsOrderly, PTL DEF Spec

(* A replica that acknowledged a write holds what that write, or a request *)
(* that was not over when it began, left there, or a value a hint brought: *)
(* nothing older comes back, whatever overlaps and however late it acts.   *)
THEOREM WritesStay == Spec => []AckedWriteStays
<1>1. SessionInv => AckedWriteStays
  BY DEF SessionInv
<1> QED
  BY <1>1, SessionInvariant, PTL

(* As long as only gets come after a put, every get that does returns it,  *)
(* however the gets overlap and whatever the replicas answer.  Without     *)
(* deletes, only a get that was under way with the put can make            *)
(* LatestPutIsRead fail.                                                   *)
ReadersAgree ==
  \A p \in Puts, g \in Gets : OnlyReadsSince(p, g) /\ result[g] = "ok" => value[g] = p

THEOREM ReadersSeePut == Spec => []ReadersAgree
<1>1. TypeOK /\ RequestInv /\ SessionInv => ReadersAgree
  <2> SUFFICES ASSUME RequestInv, SessionInv, NEW p \in Puts, NEW g \in Gets,
                      OnlyReadsSince(p, g), result[g] = "ok"
               PROVE  value[g] = p
    BY DEF ReadersAgree
  <2>1. Past(p)
    BY Kinds DEF OnlyReadsSince, SessionInv, OrderInv, OrderOK
  <2> QED
    BY <2>1 DEF SessionInv, ReadOK
<1> QED
  BY <1>1, SessionInvariant, PTL

(* A get that follows a put, with no other request around, returns it.     *)
THEOREM PutIsRead == Spec => []PutThenGet
<1>1. ReadersAgree => PutThenGet
  BY DEF ReadersAgree, PutThenGet, OnlyReadsSince, Undisturbed, AloneAmong, Over
<1> QED
  BY <1>1, ReadersSeePut, PTL

(* A get that follows a delete, with no other request around, returns a    *)
(* value only if a replica told it that missed the delete or was given     *)
(* that value by a hint: this is all that makes DeleteThenGet fail.        *)
THEOREM OnlyMissedDeletesReturn == Spec => []DeletedComesFrom
<1>1. SessionInv => DeletedComesFrom
  <2> SUFFICES ASSUME SessionInv, NEW d \in Deletes, NEW g \in Gets,
                      Undisturbed(d, g), result[g] = "ok", value[g] # NoVal
               PROVE  \E r \in Answered(g, "ok") :
                        /\ seen[g][r] = value[g]
                        /\ r \notin Answered(d, "ok") \/ <<value[g], r>> \in delivered
    BY DEF DeletedComesFrom
  <2>1. d \in Writes /\ Written(d) = NoVal
    BY Kinds
  <2>2. PICK r \in Answered(g, "ok") : seen[g][r] = value[g]
    BY DEF SessionInv, ToldOK, Told
  <2>3. r \in Answered(d, "ok") => <<value[g], r>> \in delivered
    BY <2>1, <2>2 DEF SessionInv, SeenOK
  <2> QED
    BY <2>2, <2>3
<1> QED
  BY <1>1, SessionInvariant, PTL

(* R + W > N: a quorum read that follows a successful delete hears of it   *)
(* from a replica, or that replica was given an older value by a hint.     *)
THEOREM DeleteIsSeen == Spec => []QuorumReadSeesDelete
<1>1. TypeOK /\ RequestInv /\ SessionInv /\ QuorumsIntersect => QuorumReadSeesDelete
  <2> SUFFICES ASSUME RequestInv, SessionInv, QuorumsIntersect, R + W > N,
                      NEW d \in Deletes, NEW g \in Gets,
                      result[d] = "ok", QuorumRead(g), Undisturbed(d, g)
               PROVE  \E r \in Answered(d, "ok") \cap Answered(g, "ok") :
                        seen[g][r] = NoVal \/ <<seen[g][r], r>> \in delivered
    BY DEF QuorumReadSeesDelete
  <2>1. d \in Writes /\ g \in Ops /\ Written(d) = NoVal
    BY Kinds
  <2>2. PICK r \in Answered(d, "ok") \cap Answered(g, "ok") : TRUE
    BY <2>1 DEF QuorumsIntersect
  <2>3. result[g] # "error"
    BY <2>1 DEF QuorumRead, RequestInv, RequestOK
  <2> QED
    BY <2>1, <2>2, <2>3 DEF SessionInv, SeenOK
<1> QED
  BY <1>1, SessionInvariant, QuorumOverlap, PTL
=============================================================================

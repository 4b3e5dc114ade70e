--------------------------- MODULE QuorumManager ---------------------------
(***************************************************************************)
(* One distri-kv process serving PUT, GET and DELETE of one key: the       *)
(* handlers of internal/node/node.go, the quorum coordinator of            *)
(* internal/replication/quorum.go, and the replicas it talks to (the local *)
(* storage engine and one MockNodeClient per peer).                        *)
(*                                                                         *)
(* A request is handled by a goroutine of its own.  It starts with the     *)
(* local storage, then spawns one goroutine per replica of the key and     *)
(* waits for all their answers or for its context to end.  The replica     *)
(* goroutines are not cancelled: they run on after the request returned.   *)
(*                                                                         *)
(* Abstractions.  Keys do not interact on this path, so one key is         *)
(* modelled.  A put writes a value of its own, named by the request; what  *)
(* a store holds is therefore the put it came from, or NoVal.              *)
(***************************************************************************)
EXTENDS Naturals, FiniteSets

CONSTANTS
  Puts, Gets, Deletes,  \* the requests of the workload, by kind
  Replicas,             \* partition.Nodes: the nodes responsible for the key
  Local,                \* this node; it need not be one of the replicas
  N, R, W,              \* QuorumConfig
  MaxHints,             \* HintedHandoff.maxHints
  MaxClients,           \* bound: requests in progress at the same time
  NoVal                 \* a store has no entry for the key

Ops == Puts \cup Gets \cup Deletes
Writes == Puts \cup Deletes
Nodes == Replicas \cup {Local}

(* GetNodes returns min(N, number of nodes) distinct nodes, at least one   *)
(* because the node adds itself to the ring before it accepts requests.    *)
ASSUME WorkloadAssumption ==
  /\ IsFiniteSet(Ops)
  /\ Puts \cap Gets = {} /\ Puts \cap Deletes = {} /\ Gets \cap Deletes = {}
  /\ NoVal \notin Puts
ASSUME ReplicasAssumption ==
  /\ IsFiniteSet(Replicas) /\ Replicas # {} /\ Cardinality(Replicas) <= N
ASSUME QuorumAssumption ==  \* ValidateQuorum
  /\ N \in Nat \ {0} /\ R \in 1..N /\ W \in 1..N
ASSUME BoundsAssumption == MaxHints \in Nat /\ MaxClients \in Nat

VARIABLES
  running,    \* Node.isRunning
  store,      \* store[n]: what node n holds for the key
  phase,      \* phase[o]: how far the handler of request o is
  call,       \* call[o][r]: the goroutine of request o for replica r
  seen,       \* seen[g][r]: what replica r answered to get g
  value,      \* value[g]: what get g decided to return
  result,     \* result[o]: "ok" or "error" once the handler has returned
  hints,      \* <<p, r>>: the value of put p is owed to r (HintedHandoff)
  stored,     \* history: hints that have ever been in hints
  delivered,  \* history: hints some delivery has written to their target
  dropped,    \* history: hints that were refused or given up
  unsafe,     \* history: replicas whose list was shortened under a delivery
  preceding   \* history: the requests over and done with when o began

handoff == <<hints, stored, delivered, dropped, unsafe>>
vars == <<running, store, phase, call, seen, value, result, handoff, preceding>>

(* Hinted handoff is seen the way HintPool describes it; HintedHandoff     *)
(* implements the same pool.  A hint is unsafe when the list of its        *)
(* replica is.                                                             *)
Pool == INSTANCE HintPool WITH
  Hints <- Puts \X Replicas, pending <- hints, unsafe <- Puts \X unsafe

Holds == Puts \cup {NoVal}
Phases == {"new", "local", "quorum", "cache", "done"}

(* The types, with the cap on stored hints (getTotalHintCount < maxHints). *)
TypeOK ==
  /\ running \in BOOLEAN
  /\ store \in [Nodes -> Holds]
  /\ phase \in [Ops -> Phases]
  /\ call \in [Ops -> [Replicas -> {"idle", "sent", "ok", "fail"}]]
  /\ seen \in [Gets -> [Replicas -> Holds]]
  /\ value \in [Gets -> Holds]
  /\ result \in [Ops -> {"none", "ok", "error"}]
  /\ hints \in SUBSET (Puts \X Replicas) /\ Cardinality(hints) <= MaxHints
  /\ stored \in SUBSET (Puts \X Replicas)
  /\ delivered \in SUBSET (Puts \X Replicas)
  /\ dropped \in SUBSET (Puts \X Replicas)
  /\ unsafe \in SUBSET Replicas
  /\ preceding \in [Ops -> SUBSET Ops]

Init ==
  /\ running = TRUE
  /\ store = [n \in Nodes |-> NoVal]
  /\ phase = [o \in Ops |-> "new"]
  /\ call = [o \in Ops |-> [r \in Replicas |-> "idle"]]
  /\ seen = [g \in Gets |-> [r \in Replicas |-> NoVal]]
  /\ value = [g \in Gets |-> NoVal]
  /\ result = [o \in Ops |-> "none"]
  /\ hints = {} /\ stored = {} /\ delivered = {} /\ dropped = {} /\ unsafe = {}
  /\ preceding = [o \in Ops |-> {}]

----------------------------------------------------------------------------
Answered(o, outcome) == {r \in Replicas : call[o][r] = outcome}
AllAnswered(o) == Answered(o, "sent") = {}

(* A request is finished when its handler has returned and none of its     *)
(* replica goroutines is still to act.                                     *)
Finished(o) == phase[o] = "done" /\ AllAnswered(o)
InProgress == {o \in Ops : phase[o] \notin {"new", "done"}}

(* The handler of o returns.                                               *)
Return(o, res) ==
  /\ phase' = [phase EXCEPT ![o] = "done"]
  /\ result' = [result EXCEPT ![o] = res]

(* One goroutine per replica, all started before the first answer is read. *)
SendToReplicas(o) ==
  /\ phase' = [phase EXCEPT ![o] = "quorum"]
  /\ call' = [call EXCEPT ![o] = [r \in Replicas |-> "sent"]]

----------------------------------------------------------------------------
(* The handlers: Node.Put, Node.Get, Node.Delete.                          *)

Begin(o) ==
  /\ phase[o] = "new"
  /\ Cardinality(InProgress) < MaxClients
  /\ preceding' = [preceding EXCEPT ![o] = {q \in Ops : Finished(q)}]
  /\ UNCHANGED <<running, store, call, seen, value, handoff>>

Accept(o) ==
  /\ running
  /\ Begin(o)
  /\ phase' = [phase EXCEPT ![o] = "local"]
  /\ UNCHANGED result

Refuse(o) ==  \* "node is not running"
  /\ ~running
  /\ Begin(o)
  /\ Return(o, "error")

PutLocally(p) ==
  /\ phase[p] = "local"
  /\ store' = [store EXCEPT ![Local] = p]
  /\ SendToReplicas(p)
  /\ UNCHANGED <<running, seen, value, result, handoff, preceding>>

DeleteLocally(d) ==
  /\ phase[d] = "local"
  /\ store' = [store EXCEPT ![Local] = NoVal]
  /\ SendToReplicas(d)
  /\ UNCHANGED <<running, seen, value, result, handoff, preceding>>

GetLocally(g) ==  \* a local hit is returned at once
  /\ phase[g] = "local"
  /\ store[Local] # NoVal
  /\ value' = [value EXCEPT ![g] = store[Local]]
  /\ Return(g, "ok")
  /\ UNCHANGED <<running, store, call, seen, handoff, preceding>>

SkipLocal(g) ==  \* mutant: the local copy is not looked up first
  /\ phase[g] = "local"
  /\ SendToReplicas(g)
  /\ UNCHANGED <<running, store, seen, value, result, handoff, preceding>>

MissLocally(g) ==
  /\ phase[g] = "local"
  /\ store[Local] = NoVal
  /\ SendToReplicas(g)
  /\ UNCHANGED <<running, store, seen, value, result, handoff, preceding>>

----------------------------------------------------------------------------
(* The replicas.  The local one is called directly and refuses only when   *)
(* the node has been stopped; a peer is reached through its client, which  *)
(* may fail (MockNodeClient fails one call in twenty), and then has not    *)
(* changed its store.                                                      *)

Reply(o, r, outcome) ==
  /\ call[o][r] = "sent"
  /\ call' = [call EXCEPT ![o][r] = outcome]

Serves(r) == r = Local => running
MayFail(r) == r = Local => ~running

ReplicaPutForgets(p, r) ==  \* mutant: acknowledged before it is done
  /\ Serves(r)
  /\ Reply(p, r, "ok")
  /\ UNCHANGED <<running, store, phase, seen, value, result, handoff, preceding>>

ReplicaPut(p, r) ==
  /\ Serves(r)
  /\ Reply(p, r, "ok")
  /\ store' = [store EXCEPT ![r] = p]
  /\ UNCHANGED <<running, phase, seen, value, result, handoff, preceding>>

ReplicaDeleteForgets(d, r) ==  \* mutant: acknowledged before it is done
  /\ Serves(r)
  /\ Reply(d, r, "ok")
  /\ UNCHANGED <<running, store, phase, seen, value, result, handoff, preceding>>

ReplicaDelete(d, r) ==
  /\ Serves(r)
  /\ Reply(d, r, "ok")
  /\ store' = [store EXCEPT ![r] = NoVal]
  /\ UNCHANGED <<running, phase, seen, value, result, handoff, preceding>>

ReplicaGet(g, r) ==  \* "key not found" is a valid answer: seen stays NoVal
  /\ Serves(r)
  /\ Reply(g, r, "ok")
  /\ seen' = [seen EXCEPT ![g][r] = store[r]]
  /\ UNCHANGED <<running, store, phase, value, result, handoff, preceding>>

ReplicaFail(o, r) ==
  /\ MayFail(r)
  /\ Reply(o, r, "fail")
  /\ UNCHANGED <<running, store, phase, seen, value, result, handoff, preceding>>

----------------------------------------------------------------------------
(* QuorumManager.Put/Get/Delete: the loop over the answers.  It reads as   *)
(* many answers as there are replicas, and counts afterwards, so it is one *)
(* step; it can be left early only because the context ended.              *)

Collected(o) == phase[o] = "quorum" /\ AllAnswered(o)
AllAcks(o) == Cardinality(Replicas)  \* mutant: successCount++ on every answer
Acks(o) == Cardinality(Answered(o, "ok"))

(* Mutant: the cap is compared with > instead of >=. *)
StoreHintsOneMore(p, failed) ==
  LET room == MaxHints + 1 - Cardinality(hints) IN
  \E kept \in SUBSET failed :
    /\ IF Cardinality(failed) <= room THEN kept = failed
                                      ELSE Cardinality(kept) = room
    /\ hints' = hints \cup ({p} \X kept)
    /\ stored' = stored \cup ({p} \X kept)
    /\ dropped' = dropped \cup ({p} \X (failed \ kept))

(* StoreHint: the failed replicas get a hint while there is room.  Which   *)
(* of them do depends on the order of the answers.                         *)
StoreHints(p, failed) ==
  LET room == MaxHints - Cardinality(hints) IN
  \E kept \in SUBSET failed :
    /\ IF Cardinality(failed) <= room THEN kept = failed
                                      ELSE Cardinality(kept) = room
    /\ hints' = hints \cup ({p} \X kept)
    /\ stored' = stored \cup ({p} \X kept)
    /\ dropped' = dropped \cup ({p} \X (failed \ kept))

(* Mutant: a successful put forgets the replicas that failed. *)
PutAchievedNoHints(p) ==
  /\ Collected(p)
  /\ Acks(p) >= W
  /\ Return(p, "ok")
  /\ UNCHANGED <<running, store, call, seen, value, handoff, preceding>>

PutAchieved(p) ==
  /\ Collected(p)
  /\ Acks(p) >= W
  /\ StoreHints(p, Answered(p, "fail"))
  /\ Return(p, "ok")
  /\ UNCHANGED <<running, store, call, seen, value, delivered, unsafe, preceding>>

DeleteAchievedShort(d) ==  \* mutant: one acknowledgement short of W
  /\ Collected(d)
  /\ Acks(d) >= W - 1
  /\ Return(d, "ok")
  /\ UNCHANGED <<running, store, call, seen, value, handoff, preceding>>

DeleteAchieved(d) ==  \* no hint is kept for a replica that missed a delete
  /\ Collected(d)
  /\ Acks(d) >= W
  /\ Return(d, "ok")
  /\ UNCHANGED <<running, store, call, seen, value, handoff, preceding>>

QuorumMissed(o) ==
  /\ Collected(o)
  /\ Acks(o) < IF o \in Gets THEN R ELSE W
  /\ Return(o, "error")
  /\ UNCHANGED <<running, store, call, seen, value, handoff, preceding>>

Found(g) == {r \in Answered(g, "ok") : seen[g][r] # NoVal}

GetAbsent(g) ==
  /\ Collected(g)
  /\ Acks(g) >= R
  /\ Found(g) = {}
  /\ Return(g, "ok")
  /\ UNCHANGED <<running, store, call, seen, value, handoff, preceding>>

(* resolveReadConflicts.  Each answer carries a clock made for this read:  *)
(* one tick of the answering node, stamped after the store was read.  Any  *)
(* two of them are concurrent, so the last-write-wins resolver decides by  *)
(* the stamps, which say which goroutine went on last and nothing about    *)
(* the writes: every answer that has a value can win.                      *)
GetResolved(g) ==
  /\ Collected(g)
  /\ Acks(g) >= R
  /\ \E r \in Found(g) : value' = [value EXCEPT ![g] = seen[g][r]]
  /\ phase' = [phase EXCEPT ![g] = "cache"]
  /\ UNCHANGED <<running, store, call, seen, result, handoff, preceding>>

CacheLocally(g) ==  \* Node.Get stores what the quorum returned
  /\ phase[g] = "cache"
  /\ store' = [store EXCEPT ![Local] = value[g]]
  /\ Return(g, "ok")
  /\ UNCHANGED <<running, call, seen, value, handoff, preceding>>

(* Mutant: the context is looked at only after an answer has come. *)
TimeoutAfterAnswer(o) ==
  /\ phase[o] = "quorum"
  /\ Answered(o, "sent") # Replicas
  /\ Return(o, "error")
  /\ UNCHANGED <<running, store, call, seen, value, handoff, preceding>>

Timeout(o) ==  \* ctx.Done(): 10 seconds are over or the client is gone
  /\ phase[o] = "quorum"
  /\ Return(o, "error")
  /\ UNCHANGED <<running, store, call, seen, value, handoff, preceding>>

----------------------------------------------------------------------------
(* What HintedHandoff does to the replicas (its lists and delivery         *)
(* goroutines are in module HintedHandoff): it writes a hint to its target *)
(* with NodeClient.Put, forgets it later, or gives it up.  The node has no *)
(* client for itself.                                                      *)

(* The hint is sent from the delivery's copy of the list, so an unsafe one *)
(* may have left the list by now.                                          *)
DeliverHint(p, r) ==
  /\ r # Local
  /\ Pool!Deliver(<<p, r>>)
  /\ store' = [store EXCEPT ![r] = p]
  /\ UNCHANGED <<running, phase, call, seen, value, result, unsafe, preceding>>

(* Hints are removed by their positions in the copy, so an unsafe one may  *)
(* leave without having been sent.                                         *)
ForgetHint(p, r) ==
  /\ <<p, r>> \in hints
  /\ Pool!Release({<<p, r>>}, {})
  /\ UNCHANGED <<running, store, phase, call, seen, value, result, unsafe, preceding>>

DropHint(p, r) ==  \* expired, or retried too often
  /\ <<p, r>> \in hints
  /\ Pool!Release({}, {<<p, r>>})
  /\ UNCHANGED <<running, store, phase, call, seen, value, result, unsafe, preceding>>

(* The list of r is shortened while a delivery to r is under way.  Hints   *)
(* for other keys are in it too, so this needs none of this key; it makes  *)
(* a difference once there has been one.                                   *)
ShortenList(r) ==
  /\ r # Local /\ r \notin unsafe
  /\ \E p \in Puts : <<p, r>> \in stored
  /\ unsafe' = unsafe \cup {r}
  /\ UNCHANGED <<running, store, phase, call, seen, value, result,
                 hints, stored, delivered, dropped, preceding>>

Stop ==  \* Node.Stop, as far as requests can see it
  /\ running
  /\ running' = FALSE
  /\ UNCHANGED <<store, phase, call, seen, value, result, handoff, preceding>>

----------------------------------------------------------------------------
Handler(o) ==
  \/ o \in Puts /\ (PutLocally(o) \/ PutAchieved(o))
  \/ o \in Deletes /\ (DeleteLocally(o) \/ DeleteAchieved(o))
  \/ o \in Gets /\ (GetLocally(o) \/ MissLocally(o) \/ GetAbsent(o)
                    \/ GetResolved(o) \/ CacheLocally(o))
  \/ QuorumMissed(o)
  \/ Timeout(o)

Replica(o, r) ==
  \/ o \in Puts /\ ReplicaPut(o, r)
  \/ o \in Deletes /\ ReplicaDelete(o, r)
  \/ o \in Gets /\ ReplicaGet(o, r)
  \/ ReplicaFail(o, r)

Handoff(p, r) == DeliverHint(p, r) \/ ForgetHint(p, r) \/ DropHint(p, r)

Next ==
  \/ \E o \in Ops : Accept(o) \/ Refuse(o) \/ Handler(o)
  \/ \E o \in Ops, r \in Replicas : Replica(o, r)
  \/ \E p \in Puts, r \in Replicas : Handoff(p, r)
  \/ \E r \in Replicas : ShortenList(r)
  \/ Stop

Spec == Init /\ [][Next]_vars

(* The Go scheduler runs every handler that can go on, and every context   *)
(* ends after ten seconds.  Nothing is assumed of the replicas: a peer may *)
(* never answer.                                                           *)
FairSpec == Spec /\ \A o \in Ops : WF_vars(Handler(o))

----------------------------------------------------------------------------
(* Vocabulary of the properties.                                           *)

(* What write w leaves in a store.                                         *)
Written(w) == IF w \in Puts THEN w ELSE NoVal

(* Get g was decided by the answers of the replicas.                       *)
QuorumRead(g) ==
  /\ phase[g] = "cache" \/ result[g] = "ok"
  /\ Answered(g, "idle") = {}

(* Request o came before get g, and every other request in others was over *)
(* before o began or came after g.                                         *)
AloneAmong(others, o, g) ==
  /\ o \in preceding[g]
  /\ \A m \in others \ {o, g} :
       phase[m] = "new" \/ m \in preceding[o] \/ g \in preceding[m]

Undisturbed(o, g) == AloneAmong(Ops, o, g)

(* Request o may have left in store n what is there now: it wrote it, or   *)
(* read it from the replicas and put it into the local store.              *)
Left(o, n) ==
  /\ Answered(o, "idle") = {}
  /\ \/ /\ o \in Writes /\ store[n] = Written(o)
        /\ n = Local \/ n \in Answered(o, "ok")
     \/ /\ o \in Gets /\ phase[o] = "done" /\ n = Local
        /\ store[n] = value[o] /\ value[o] # NoVal

----------------------------------------------------------------------------
(* What the coordinator guarantees.                                        *)

(* R + W > N (IsStronglyConsistent): whatever failed on the way, the       *)
(* replicas that acknowledged a write that was reported successful and     *)
(* those that answered a successful quorum read have one in common.        *)
QuorumsIntersect ==
  R + W > N =>
    \A w \in Writes, g \in Gets :
      result[w] = "ok" /\ QuorumRead(g) =>
        Answered(w, "ok") \cap Answered(g, "ok") # {}

(* What that common replica is for: with no other request around, some     *)
(* replica tells a quorum read of a successful delete, unless the hint of  *)
(* a put was delivered there and brought the key back.                     *)
QuorumReadSeesDelete ==
  R + W > N =>
    \A d \in Deletes, g \in Gets :
      result[d] = "ok" /\ QuorumRead(g) /\ Undisturbed(d, g) =>
        \E r \in Answered(d, "ok") \cap Answered(g, "ok") :
          seen[g][r] = NoVal \/ <<seen[g][r], r>> \in delivered

(* No replica goes back behind a write it acknowledged: what it holds is   *)
(* what that write left there, or a request that was not over when it      *)
(* began, or a hint.  Late goroutines, overlapping writes and the caching  *)
(* of what a get read may undo a write, but nothing older does.            *)
AckedWriteStays ==
  \A w \in Writes : \A r \in Answered(w, "ok") :
    \/ <<store[r], r>> \in delivered
    \/ \E o \in Ops : o \notin preceding[w] /\ Left(o, r)

(* A client that puts and then gets, with no other request around, reads   *)
(* what it put: also when the put was reported as failed, when replicas    *)
(* missed it, when hints are delivered late and whatever R and W are,      *)
(* because the local copy is written first and read first.                 *)
PutThenGet ==
  \A p \in Puts, g \in Gets :
    Undisturbed(p, g) /\ result[g] = "ok" => value[g] = p

(* A get that follows a delete, with no other request around, returns a    *)
(* value only if a replica told it that missed the delete or was given     *)
(* that value by a hint: this is all that makes DeleteThenGet fail.        *)
DeletedComesFrom ==
  \A d \in Deletes, g \in Gets :
    Undisturbed(d, g) /\ result[g] = "ok" /\ value[g] # NoVal =>
      \E r \in Answered(g, "ok") :
        /\ seen[g][r] = value[g]
        /\ r \notin Answered(d, "ok") \/ <<value[g], r>> \in delivered

(* After a successful put a replica that did not acknowledge the value is  *)
(* owed it by a hint, or a delivery has written it there, or its hint was  *)
(* given up; only where a list was shortened under a delivery may the hint *)
(* be lost (hinted_handoff.go:196).  Nobody is owed a put that was not     *)
(* successful, nor one it acknowledged.                                    *)
AckedPutIsOwed ==
  \A p \in Puts, r \in Replicas :
    LET known == <<p, r>> \in hints \cup delivered \cup dropped
        missed == result[p] = "ok" /\ call[p][r] # "ok"
    IN  /\ known => missed
        /\ missed => known \/ r \in unsafe

(* Every request that was accepted returns, even if no replica answers.    *)
EveryRequestReturns ==
  \A o \in Ops : phase[o] \in {"local", "quorum", "cache"} ~> phase[o] = "done"

----------------------------------------------------------------------------
(* What the documents promise and the code does not keep.                  *)

(* scripts/test-cluster.sh: a key that was just deleted is not found.      *)
(* Reads take any value a replica still has, and deletes leave no trace.   *)
DeleteThenGet ==
  \A d \in Deletes, g \in Gets :
    result[d] = "ok" /\ Undisturbed(d, g) /\ result[g] = "ok" => value[g] = NoVal

(* README: R + W > N is strong consistency, so a get reads a successful    *)
(* put when every other put was over before it or came after the get.      *)
(* An older get, still on its way, may have cached an older value since.   *)
LatestPutIsRead ==
  \A p \in Puts, g \in Gets :
    /\ result[p] = "ok" /\ AloneAmong(Puts, p, g)
    /\ result[g] = "ok"
    => value[g] = p
=============================================================================

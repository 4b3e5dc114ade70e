---------------------------- MODULE VectorClock ----------------------------
(***************************************************************************)
(* internal/versioning/vector_clock.go: vector clocks, versioned values    *)
(* and the resolution of conflicts between them.                           *)
(*                                                                         *)
(* A clock is a map that has no entry for the nodes it does not know.  The *)
(* actions are the operations on one versioned value per node and on the   *)
(* copies of it that other nodes have received.  Every operation that      *)
(* changes a clock stamps it with the time, here the number of such        *)
(* operations: one process, whose clock does not stand still.              *)
(***************************************************************************)
EXTENDS Naturals, SequencesExt

CONSTANTS
  Nodes,
  MaxOps  \* bound: operations that change a clock

ASSUME ClockAssumption == IsFiniteSet(Nodes) /\ MaxOps \in Nat

----------------------------------------------------------------------------
(* The clocks.                                                             *)

NewClock == [n \in {} |-> 0]
At(c, n) == IF n \in DOMAIN c THEN c[n] ELSE 0  \* a Go map yields 0

TickedFromZero(c, n) ==  \* mutant: the first tick only makes the entry
  [m \in DOMAIN c \cup {n} |-> IF m = n /\ n \in DOMAIN c THEN c[n] + 1 ELSE At(c, m)]

Ticked(c, n) ==
  [m \in DOMAIN c \cup {n} |-> IF m = n THEN At(c, n) + 1 ELSE c[m]]

(* Update: an entry of the other clock counts when it is greater.          *)
Merged(c, d) ==
  LET greater == {n \in DOMAIN d : At(c, n) < d[n]} IN
  [n \in DOMAIN c \cup greater |-> IF n \in greater THEN d[n] ELSE c[n]]

(* Maps of the same size are compared along the first one only.            *)
EqualClocks(c, d) ==
  IF Cardinality(DOMAIN c) # Cardinality(DOMAIN d)
  THEN \A n \in DOMAIN c \cup DOMAIN d : At(c, n) = At(d, n)
  ELSE \A n \in DOMAIN c : At(d, n) = c[n]

CompareOwn(c, d) ==  \* mutant: only the entries of the first clock are compared
  LET greater == \E n \in DOMAIN c : At(c, n) > At(d, n)
      smaller == \E n \in DOMAIN c : At(c, n) < At(d, n)
  IN  IF EqualClocks(c, d) THEN "Equal"
      ELSE IF greater /\ ~smaller THEN "After"
      ELSE IF ~greater /\ smaller THEN "Before"
      ELSE "Concurrent"

Compare(c, d) ==
  LET all == DOMAIN c \cup DOMAIN d
      greater == \E n \in all : At(c, n) > At(d, n)
      smaller == \E n \in all : At(c, n) < At(d, n)
  IN  IF EqualClocks(c, d) THEN "Equal"
      ELSE IF greater /\ ~smaller THEN "After"
      ELSE IF ~greater /\ smaller THEN "Before"
      ELSE "Concurrent"

----------------------------------------------------------------------------
(* ConflictSet, for a nonempty list of versioned values.                   *)

HasConflicts(values) ==
  \E i, j \in DOMAIN values :
    i < j /\ Compare(values[i].clock, values[j].clock) = "Concurrent"

(* The loop of both strategies: latest is replaced by what is better.      *)
LatestBy(values, better) ==
  LET latest[i \in DOMAIN values] ==
        IF i = 1 THEN values[1]
        ELSE LET best == latest[i - 1] IN
             IF <<values[i], best>> \in better THEN values[i] ELSE best
  IN  latest[Len(values)]

LastWriteWins(values) ==
  LatestBy(values, {p \in ToSet(values) \X ToSet(values) : p[1].at > p[2].at})

Newest(values) ==
  LatestBy(values, {p \in ToSet(values) \X ToSet(values) :
                      Compare(p[1].clock, p[2].clock) = "After"})

ResolveAgainstFirst(values) ==  \* mutant: latest is not moved on in the comparison
  LET after == {i \in DOMAIN values : Compare(values[i].clock, values[1].clock) = "After"}
  IN  IF HasConflicts(values) THEN LastWriteWins(values)
      ELSE IF after = {} THEN values[1] ELSE values[Max(after)]

ResolveByClock(values) ==  \* mutant: conflicts are not looked for
  Newest(values)

Resolve(values) ==
  IF ~HasConflicts(values) THEN Newest(values) ELSE LastWriteWins(values)

----------------------------------------------------------------------------
VARIABLES
  own,     \* own[n]: the versioned value of node n, if it has one
  copies,  \* clones that have left their node
  now,     \* the time
  events   \* history: events[n]: how many events node n has had

vars == <<own, copies, now, events>>

Events == Nodes \X Nat

(* No operation makes an entry that is zero.                               *)
IsClock(c) ==
  DOMAIN c \subseteq Nodes /\ c \in [DOMAIN c -> Nat] /\ \A n \in DOMAIN c : c[n] > 0

(* past is history: the events that led to the value.                      *)
IsVersion(v) ==
  /\ v = [clock |-> v.clock, at |-> v.at, past |-> v.past]
  /\ IsClock(v.clock) /\ v.at \in 1..now /\ v.past \subseteq Events

Known == {own[n] : n \in DOMAIN own} \cup copies

TypeOK ==
  /\ DOMAIN own \subseteq Nodes
  /\ \A v \in Known : IsVersion(v)
  /\ now \in Nat
  /\ events \in [Nodes -> Nat]

Init ==
  /\ own = [n \in {} |-> 0]
  /\ copies = {}
  /\ now = 0
  /\ events = [n \in Nodes |-> 0]

(* An event of node n: its value gets this clock and a stamp, and the      *)
(* event is added to the ones that led to the value.                       *)
Event(n, clock, past) ==
  LET e == events[n] + 1 IN
  /\ now < MaxOps
  /\ now' = now + 1
  /\ events' = [events EXCEPT ![n] = e]
  /\ own' = [m \in DOMAIN own \cup {n} |->
       IF m = n THEN [clock |-> clock, at |-> now', past |-> past \cup {<<n, e>>}]
                ELSE own[m]]
  /\ UNCHANGED copies

NewVersionedValue(n) ==
  Event(n, Ticked(NewClock, n), IF n \in DOMAIN own THEN own[n].past ELSE {})

Increment(n) ==
  /\ n \in DOMAIN own
  /\ Event(n, Ticked(own[n].clock, n), own[n].past)

Update(n, v) ==  \* VersionedValue.Update merges, then ticks
  /\ n \in DOMAIN own
  /\ Event(n, Ticked(Merged(own[n].clock, v.clock), n), own[n].past \cup v.past)

Clone(n) ==
  /\ n \in DOMAIN own
  /\ copies' = copies \cup {own[n]}
  /\ UNCHANGED <<own, now, events>>

(* Each node makes one value for the key and updates it from then on.      *)
Next ==
  \/ \E n \in Nodes \ DOMAIN own : NewVersionedValue(n)
  \/ \E n \in Nodes : Increment(n) \/ Clone(n)
  \/ \E n \in Nodes, v \in copies : Update(n, v)

Spec == Init /\ [][Next]_vars

----------------------------------------------------------------------------
(* Properties.                                                             *)

Causality(a, b) ==
  CASE a.past = b.past -> "Equal"
    [] a.past # b.past /\ b.past \subseteq a.past -> "After"
    [] a.past # b.past /\ a.past \subseteq b.past -> "Before"
    [] OTHER -> "Concurrent"

(* Compare tells of any two values that are around which one's past holds  *)
(* the other's: "tracks causality across nodes" (IMPLEMENTATION_SUMMARY).  *)
CompareIsCausality ==
  \A a, b \in Known : Compare(a.clock, b.clock) = Causality(a, b)

(* Whatever the order of the answers, and whichever of its two strategies  *)
(* is taken, the resolver never returns a value that another one of the    *)
(* set was made from.                                                      *)
ResolveKeepsNewest ==
  \A set \in SUBSET Known : set # {} =>
    \A values \in SetToSeqs(set) :
      \A v \in set : Compare(Resolve(values).clock, v.clock) # "Before"

(* Nodes that resolve the same set of values settle on the same one, in    *)
(* whatever order the values reached them.                                 *)
ResolveIgnoresOrder ==
  \A set \in SUBSET Known : set # {} =>
    \E winner \in set : \A values \in SetToSeqs(set) : Resolve(values) = winner

=============================================================================

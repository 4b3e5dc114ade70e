------------------------- MODULE VectorClockProofs -------------------------
(* Vector clocks track causality, for any number of nodes and operations,  *)
(* as long as each node makes one value and updates it from then on.       *)
EXTENDS VectorClock, FiniteSetTheorems, WellFoundedInduction, TLAPS

----------------------------------------------------------------------------
(* The operators on clocks.                                                *)

(* The clock d has an entry at least as high as c's for every node.        *)
Below(c, d) == \A n \in Nodes : At(c, n) <= At(d, n)

LEMMA AtType ==
  ASSUME NEW c, IsClock(c), NEW n
  PROVE  At(c, n) \in Nat /\ (n \in DOMAIN c <=> At(c, n) > 0)
  BY DEF IsClock, At

LEMMA TickedIs ==
  ASSUME NEW c, IsClock(c), NEW n \in Nodes
  PROVE  /\ IsClock(Ticked(c, n))
         /\ \A m \in Nodes : At(Ticked(c, n), m) = IF m = n THEN At(c, n) + 1 ELSE At(c, m)
<1>1. DOMAIN Ticked(c, n) = DOMAIN c \cup {n}
  BY DEF Ticked
<1>2. \A m \in DOMAIN c \cup {n} :
        Ticked(c, n)[m] = IF m = n THEN At(c, n) + 1 ELSE At(c, m)
  BY DEF Ticked, At
<1>3. \A m \in DOMAIN c : At(c, m) \in Nat \ {0}
  BY DEF IsClock, At
<1>4. At(c, n) \in Nat
  BY AtType
<1>5. IsClock(Ticked(c, n))
  BY <1>1, <1>2, <1>3, <1>4 DEF IsClock, Ticked
<1>6. \A m \in Nodes : At(Ticked(c, n), m) = IF m = n THEN At(c, n) + 1 ELSE At(c, m)
  BY <1>1, <1>2 DEF At
<1> QED
  BY <1>5, <1>6

(* Update yields the least clock that is above both.                       *)
LEMMA MergedIs ==
  ASSUME NEW c, IsClock(c), NEW d, IsClock(d)
  PROVE  /\ IsClock(Merged(c, d))
         /\ \A m \in Nodes :
              At(Merged(c, d), m) = IF At(c, m) < At(d, m) THEN At(d, m) ELSE At(c, m)
<1> DEFINE greater == {n \in DOMAIN d : At(c, n) < d[n]}
           result == [n \in DOMAIN c \cup greater |-> IF n \in greater THEN d[n] ELSE c[n]]
<1>1. Merged(c, d) = result
  BY DEF Merged
<1>2. /\ DOMAIN c \subseteq Nodes /\ DOMAIN d \subseteq Nodes
      /\ \A n \in DOMAIN c : c[n] \in Nat \ {0} /\ At(c, n) = c[n]
      /\ \A n \in DOMAIN d : d[n] \in Nat \ {0} /\ At(d, n) = d[n]
      /\ \A n \in Nodes : At(c, n) \in Nat /\ At(d, n) \in Nat
  BY AtType DEF IsClock, At
<1>3. \A m \in Nodes : m \in greater <=> At(c, m) < At(d, m)
  BY <1>2 DEF At
<1>4. IsClock(result)
  BY <1>2 DEF IsClock
<1>5. \A m \in Nodes :
        At(result, m) = IF At(c, m) < At(d, m) THEN At(d, m) ELSE At(c, m)
  BY <1>2, <1>3 DEF At
<1> QED
  BY <1>1, <1>4, <1>5

(* Maps of the same size may be compared along one of them because no      *)
(* entry is zero.                                                          *)
LEMMA EqualIs ==
  ASSUME NEW c, IsClock(c), NEW d, IsClock(d)
  PROVE  EqualClocks(c, d) <=> \A n \in Nodes : At(c, n) = At(d, n)
<1>1. DOMAIN c \subseteq Nodes /\ DOMAIN d \subseteq Nodes
  BY DEF IsClock
<1>2. IsFiniteSet(DOMAIN c) /\ IsFiniteSet(DOMAIN d)
  BY <1>1, ClockAssumption, FS_Subset
<1>3. \A n \in Nodes \ (DOMAIN c \cup DOMAIN d) : At(c, n) = At(d, n)
  BY DEF At
<1>4. ASSUME Cardinality(DOMAIN c) # Cardinality(DOMAIN d)
      PROVE  EqualClocks(c, d) <=> \A n \in Nodes : At(c, n) = At(d, n)
  BY <1>1, <1>3, <1>4 DEF EqualClocks
<1>5. ASSUME Cardinality(DOMAIN c) = Cardinality(DOMAIN d), EqualClocks(c, d)
      PROVE  \A n \in Nodes : At(c, n) = At(d, n)
  <2>1. \A n \in DOMAIN c : At(d, n) = c[n] /\ At(c, n) = c[n]
    BY <1>5 DEF EqualClocks, At
  <2>2. DOMAIN c \subseteq DOMAIN d
    BY <2>1, AtType
  <2>3. DOMAIN c = DOMAIN d
    BY <1>2, <1>5, <2>2, FS_Subset
  <2> QED
    BY <1>3, <2>1, <2>3
<1>6. ASSUME Cardinality(DOMAIN c) = Cardinality(DOMAIN d),
             \A n \in Nodes : At(c, n) = At(d, n)
      PROVE  EqualClocks(c, d)
  BY <1>1, <1>6 DEF EqualClocks, At
<1> QED
  BY <1>4, <1>5, <1>6

(* Compare is the componentwise order.                                     *)
LEMMA CompareIs ==
  ASSUME NEW c, IsClock(c), NEW d, IsClock(d)
  PROVE  Compare(c, d) = IF Below(c, d) /\ Below(d, c) THEN "Equal"
                         ELSE IF Below(d, c) THEN "After"
                         ELSE IF Below(c, d) THEN "Before"
                         ELSE "Concurrent"
<1> DEFINE greater == \E n \in DOMAIN c \cup DOMAIN d : At(c, n) > At(d, n)
           smaller == \E n \in DOMAIN c \cup DOMAIN d : At(c, n) < At(d, n)
<1>1. DOMAIN c \subseteq Nodes /\ DOMAIN d \subseteq Nodes
      /\ \A n \in Nodes : At(c, n) \in Nat /\ At(d, n) \in Nat
  BY AtType DEF IsClock
<1>2. \A n \in Nodes \ (DOMAIN c \cup DOMAIN d) : At(c, n) = At(d, n)
  BY DEF At
<1>3. Below(c, d) <=> ~greater
  BY <1>1, <1>2 DEF Below
<1>4. Below(d, c) <=> ~smaller
  BY <1>1, <1>2 DEF Below
<1>5. EqualClocks(c, d) <=> Below(c, d) /\ Below(d, c)
  BY <1>1, EqualIs DEF Below
<1> HIDE DEF greater, smaller
<1>6. Compare(c, d) = IF EqualClocks(c, d) THEN "Equal"
                      ELSE IF greater /\ ~smaller THEN "After"
                      ELSE IF ~greater /\ smaller THEN "Before"
                      ELSE "Concurrent"
  BY DEF Compare, greater, smaller
<1> QED
  BY <1>3, <1>4, <1>5, <1>6

----------------------------------------------------------------------------
(* The inductive invariant: the entries of a clock count the events of the *)
(* past, the past has no gaps, and nobody knows more of a node's events    *)
(* than the node's own value does.                                         *)

Covered(c) == {e \in Events : e[2] \in 1..At(c, e[1])}

PastIsCovered == \A v \in Known : v.past = Covered(v.clock)

OwnIsLatest ==
  \A n \in Nodes :
    /\ IF n \in DOMAIN own THEN At(own[n].clock, n) = events[n] ELSE events[n] = 0
    /\ \A v \in Known : At(v.clock, n) <= events[n]

(* What one value was made from was stamped before it, and a stamp names   *)
(* the value.                                                              *)
StampsFollow ==
  \A a, b \in Known :
    /\ Below(a.clock, b.clock) => a.at <= b.at
    /\ a.at = b.at => a = b

ClockInv == TypeOK /\ PastIsCovered /\ OwnIsLatest /\ StampsFollow /\ IsFiniteSet(copies)

(* The value that an event makes: v says what is known of it before.       *)
LEMMA EventStep ==
  ASSUME ClockInv, NEW n \in Nodes, NEW c, NEW past,
         IsClock(c), past = Covered(c), At(c, n) = events[n],
         \A m \in Nodes : At(c, m) <= events[m],
         Event(n, Ticked(c, n), past)
  PROVE  ClockInv'
<1> DEFINE new == [clock |-> Ticked(c, n), at |-> now + 1,
                   past |-> past \cup {<<n, events[n] + 1>>}]
<1>1. /\ DOMAIN own' = DOMAIN own \cup {n}
      /\ \A m \in DOMAIN own' : own'[m] = IF m = n THEN new ELSE own[m]
      /\ copies' = copies /\ now' = now + 1
      /\ events' = [events EXCEPT ![n] = events[n] + 1]
  BY DEF Event
<1>2. Known' \subseteq Known \cup {new}
  BY <1>1 DEF Known
<1>3. /\ IsClock(Ticked(c, n))
      /\ \A m \in Nodes : At(Ticked(c, n), m) = IF m = n THEN At(c, n) + 1 ELSE At(c, m)
  BY TickedIs
<1>4. now \in Nat /\ events \in [Nodes -> Nat]
  BY DEF ClockInv, TypeOK
<1>5. new.past \subseteq Events
  BY <1>4 DEF Covered, Events
<1>6. ASSUME NEW v, v = new PROVE IsVersion(v)'
  BY <1>1, <1>3, <1>4, <1>5, <1>6 DEF IsVersion
<1>7. ASSUME NEW v \in Known PROVE IsVersion(v)'
  <2>1. IsVersion(v)
    BY DEF ClockInv, TypeOK
  <2> QED
    BY <1>1, <1>4, <2>1 DEF IsVersion
<1>8. TypeOK'
  <2>1. ASSUME NEW v \in Known' PROVE IsVersion(v)'
    BY <1>2, <1>6, <1>7
  <2>2. DOMAIN own' \subseteq Nodes /\ now' \in Nat /\ events' \in [Nodes -> Nat]
    BY <1>1, <1>4 DEF ClockInv, TypeOK
  <2> QED
    BY <2>1, <2>2 DEF TypeOK
<1>9. new.past = Covered(new.clock)
  <2>1. ASSUME NEW m \in Nodes, NEW i \in Nat
        PROVE  <<m, i>> \in new.past <=> i \in 1..At(Ticked(c, n), m)
    <3>1. <<m, i>> \in past <=> i \in 1..At(c, m)
      BY DEF Covered, Events
    <3>2. <<m, i>> = <<n, events[n] + 1>> <=> m = n /\ i = events[n] + 1
      OBVIOUS
    <3>3. At(c, m) \in Nat
      BY AtType
    <3> QED
      BY <1>3, <1>4, <3>1, <3>2, <3>3
  <2>2. ASSUME NEW e \in Events PROVE e \in new.past <=> e \in Covered(new.clock)
    BY <2>1 DEF Events, Covered
  <2>3. Covered(new.clock) \subseteq Events
    BY DEF Covered
  <2> QED
    BY <1>5, <2>2, <2>3
<1>10. PastIsCovered'
  BY <1>2, <1>9 DEF ClockInv, PastIsCovered
<1>11. ASSUME NEW m \in Nodes
       PROVE  /\ IF m \in DOMAIN own' THEN At(own'[m].clock, m) = events'[m]
                                      ELSE events'[m] = 0
              /\ \A v \in Known' : At(v.clock, m) <= events'[m]
  <2>1. events[m] <= events'[m] /\ events'[n] = events[n] + 1
        /\ (m # n => events'[m] = events[m]) /\ events[m] \in Nat /\ events'[m] \in Nat
    BY <1>1, <1>4
  <2>2. At(new.clock, m) <= events'[m] /\ (m = n => At(new.clock, m) = events'[m])
    BY <1>3, <1>4, <2>1
  <2>3. ASSUME NEW v \in Known PROVE At(v.clock, m) <= events'[m]
    <3>1. At(v.clock, m) <= events[m] /\ IsClock(v.clock)
      BY DEF ClockInv, OwnIsLatest, TypeOK, IsVersion
    <3>2. At(v.clock, m) \in Nat
      BY <3>1, AtType
    <3> QED
      BY <2>1, <3>1, <3>2
  <2> HIDE DEF new
  <2>4. IF m \in DOMAIN own' THEN At(own'[m].clock, m) = events'[m] ELSE events'[m] = 0
    BY <1>1, <2>1, <2>2 DEF ClockInv, OwnIsLatest
  <2> QED
    BY <1>2, <2>2, <2>3, <2>4
<1>12. ASSUME NEW a \in Known', NEW b \in Known'
       PROVE  (Below(a.clock, b.clock) => a.at <= b.at) /\ (a.at = b.at => a = b)
  <2>1. ASSUME NEW v \in Known
        PROVE  /\ v.at \in Nat /\ v.at <= now /\ IsClock(v.clock)
               /\ At(v.clock, n) \in Nat /\ At(v.clock, n) <= events[n]
    BY <1>4, AtType DEF ClockInv, TypeOK, IsVersion, OwnIsLatest
  <2>2. new.at = now + 1 /\ At(new.clock, n) = events[n] + 1
    BY <1>3
  <2> HIDE DEF new
  <2>3. CASE a \in Known /\ b \in Known
    BY <2>3 DEF ClockInv, StampsFollow
  <2>4. CASE a \in Known /\ b = new
    BY <1>4, <2>1, <2>2, <2>4
  <2>5. CASE a = new /\ b \in Known
    <3>1. ~(At(new.clock, n) <= At(b.clock, n)) /\ a.at # b.at
      BY <1>4, <2>1, <2>2, <2>5
    <3> QED
      BY <2>5, <3>1 DEF Below
  <2>6. CASE a = new /\ b = new
    BY <1>4, <2>2, <2>6
  <2> QED
    BY <1>2, <2>3, <2>4, <2>5, <2>6
<1> QED
  BY <1>1, <1>8, <1>10, <1>11, <1>12 DEF ClockInv, OwnIsLatest, StampsFollow

LEMMA ClockStep == ClockInv /\ [Next]_vars => ClockInv'
<1> SUFFICES ASSUME ClockInv, [Next]_vars PROVE ClockInv'
  OBVIOUS
<1>0. /\ \A n \in DOMAIN own : n \in Nodes /\ own[n] \in Known
      /\ \A v \in Known : IsClock(v.clock) /\ v.past = Covered(v.clock)
      /\ \A v \in Known, m \in Nodes : At(v.clock, m) <= events[m]
      /\ \A n \in DOMAIN own : At(own[n].clock, n) = events[n]
      /\ events \in [Nodes -> Nat]
  BY DEF ClockInv, TypeOK, PastIsCovered, OwnIsLatest, IsVersion, Known
<1>1. ASSUME NEW n \in Nodes \ DOMAIN own, NewVersionedValue(n) PROVE ClockInv'
  <2>1. IsClock(NewClock) /\ \A m \in Nodes : At(NewClock, m) = 0
    BY DEF IsClock, NewClock, At
  <2>2. Covered(NewClock) = {}
    BY <2>1 DEF Covered, Events
  <2>3. events[n] = 0 /\ \A m \in Nodes : 0 <= events[m]
    BY <1>0 DEF ClockInv, OwnIsLatest
  <2>4. Event(n, Ticked(NewClock, n), {})
    BY <1>1 DEF NewVersionedValue
  <2> HIDE DEF NewClock
  <2> QED
    BY <2>1, <2>2, <2>3, <2>4, EventStep
<1>2. ASSUME NEW n \in Nodes, Increment(n) PROVE ClockInv'
  <2>1. n \in DOMAIN own /\ Event(n, Ticked(own[n].clock, n), own[n].past)
    BY <1>2 DEF Increment
  <2> QED
    BY <1>0, <2>1, EventStep
<1>3. ASSUME NEW n \in Nodes, NEW v \in copies, Update(n, v) PROVE ClockInv'
  <2> DEFINE c == own[n].clock
             d == v.clock
             m == Merged(c, d)
             past == own[n].past \cup v.past
  <2>1. n \in DOMAIN own /\ Event(n, Ticked(m, n), past)
    BY <1>3 DEF Update
  <2>2. v \in Known /\ own[n] \in Known
    BY <2>1 DEF Known
  <2>3. IsClock(c) /\ IsClock(d) /\ own[n].past = Covered(c) /\ v.past = Covered(d)
    BY <1>0, <2>2
  <2>4. /\ IsClock(m)
        /\ \A k \in Nodes : At(m, k) = IF At(c, k) < At(d, k) THEN At(d, k) ELSE At(c, k)
    BY <2>3, MergedIs
  <2>5. \A k \in Nodes : At(c, k) \in Nat /\ At(d, k) \in Nat
                         /\ At(c, k) <= events[k] /\ At(d, k) <= events[k]
    BY <1>0, <2>2, <2>3, AtType
  <2>6. At(m, n) = events[n] /\ \A k \in Nodes : At(m, k) <= events[k]
    BY <1>0, <2>1, <2>4, <2>5
  <2> HIDE DEF m, c, d
  <2>7. past = Covered(m)
    <3>1. ASSUME NEW e \in Events PROVE e \in Covered(m) <=> e \in past
      BY <2>3, <2>4, <2>5 DEF Covered, Events
    <3>2. past \subseteq Events /\ Covered(m) \subseteq Events
      BY <2>3 DEF Covered
    <3> QED
      BY <3>1, <3>2
  <2> QED
    BY <2>1, <2>4, <2>6, <2>7, EventStep
<1>4. ASSUME NEW n \in Nodes, Clone(n) PROVE ClockInv'
  <2>1. Known' = Known /\ UNCHANGED <<own, now, events>>
    BY <1>4 DEF Clone, Known
  <2>2. IsFiniteSet(copies')
    BY <1>4, FS_AddElement DEF Clone, ClockInv
  <2> QED
    BY <2>1, <2>2 DEF ClockInv, TypeOK, PastIsCovered, OwnIsLatest, IsVersion, StampsFollow
<1>5. CASE UNCHANGED vars
  BY <1>5 DEF vars, ClockInv, TypeOK, PastIsCovered, OwnIsLatest, IsVersion, StampsFollow, Known
<1> QED
  BY <1>1, <1>2, <1>3, <1>4, <1>5 DEF Next

(* The clocks of all values that are around count the events of their past.*)
THEOREM ClockInvariant == Spec => []ClockInv
<1>1. Init => ClockInv
  BY FS_EmptySet DEF Init, ClockInv, TypeOK, PastIsCovered, OwnIsLatest, StampsFollow, Known
<1> QED
  BY <1>1, ClockStep, PTL DEF Spec

(* Clocks have no zero entries, and the other types.                       *)
THEOREM TypeCorrect == Spec => []TypeOK
<1>1. ClockInv => TypeOK
  BY DEF ClockInv
<1> QED
  BY <1>1, ClockInvariant, PTL

(* Compare (vector_clock.go:50) is the causal order of the values.         *)
THEOREM ClocksTrackCausality == Spec => []CompareIsCausality
<1>1. ClockInv => CompareIsCausality
  <2> SUFFICES ASSUME ClockInv, NEW a \in Known, NEW b \in Known
               PROVE  Compare(a.clock, b.clock) = Causality(a, b)
    BY DEF CompareIsCausality
  <2>1. /\ IsClock(a.clock) /\ IsClock(b.clock)
        /\ a.past = Covered(a.clock) /\ b.past = Covered(b.clock)
    BY DEF ClockInv, TypeOK, IsVersion, PastIsCovered
  <2>2. ASSUME NEW c, IsClock(c), NEW d, IsClock(d)
        PROVE  Covered(c) \subseteq Covered(d) <=> Below(c, d)
    <3>1. \A n \in Nodes : At(c, n) \in Nat /\ At(d, n) \in Nat
      BY <2>2, AtType
    <3>2. ASSUME Below(c, d) PROVE Covered(c) \subseteq Covered(d)
      BY <3>1, <3>2 DEF Below, Covered, Events
    <3>3. ASSUME Covered(c) \subseteq Covered(d), NEW n \in Nodes PROVE At(c, n) <= At(d, n)
      <4>1. CASE At(c, n) = 0
        BY <3>1, <4>1
      <4>2. CASE At(c, n) > 0
        <5>1. <<n, At(c, n)>> \in Covered(c)
          BY <3>1, <4>2 DEF Covered, Events
        <5>2. <<n, At(c, n)>> \in Covered(d)
          BY <3>3, <5>1
        <5> QED
          BY <3>1, <5>2 DEF Covered
      <4> QED
        BY <3>1, <4>1, <4>2
    <3> QED
      BY <3>2, <3>3 DEF Below
  <2>3. /\ a.past \subseteq b.past <=> Below(a.clock, b.clock)
        /\ b.past \subseteq a.past <=> Below(b.clock, a.clock)
    BY <2>1, <2>2
  <2>4. a.past = b.past <=> a.past \subseteq b.past /\ b.past \subseteq a.past
    OBVIOUS
  <2> QED
    BY <2>1, <2>3, <2>4, CompareIs DEF Causality
<1> QED
  BY <1>1, ClockInvariant, PTL

----------------------------------------------------------------------------
(* The loops over the values of a set.  A property of all positions of a   *)
(* list is proved from a least position that lacks it.                     *)

LEMMA LeastNumber ==
  ASSUME NEW T, T \subseteq Nat, T # {}
  PROVE  \E x \in T : \A y \in T : x <= y
<1>1. PICK x \in T : \A y \in T : <<y, x>> \notin OpToRel(<, Nat)
  BY WFMin, NatLessThanWellFounded
<1>2. \A y \in T : ~(y < x)
  BY <1>1 DEF OpToRel
<1> QED
  BY <1>2

(* Induction over the positions of a list.                                 *)
LEMMA ListInduction ==
  ASSUME NEW n \in Nat, NEW T, 1 \in T, \A i \in 1..n - 1 : i \in T => i + 1 \in T
  PROVE  1..n \subseteq T
<1> DEFINE rest == (1..n) \ T
<1> SUFFICES ASSUME rest # {} PROVE FALSE
  OBVIOUS
<1>1. PICK x \in rest : \A y \in rest : x <= y
  <2>1. rest \subseteq Nat
    OBVIOUS
  <2> HIDE DEF rest
  <2> QED
    BY <2>1, LeastNumber
<1>2. x # 1 /\ x \in 2..n
  BY <1>1
<1>3. x - 1 \in 1..n - 1 /\ x - 1 \in T
  BY <1>1, <1>2
<1> QED
  BY <1>1, <1>2, <1>3

(* walk[i] is the value that the loop holds when it has seen i values.     *)
Walks(walk, values, better, k) ==
  /\ walk[1] = values[1]
  /\ \A i \in 1..k - 1 :
       walk[i + 1] = IF <<values[i + 1], walk[i]>> \in better THEN values[i + 1] ELSE walk[i]

LEMMA LatestByWalks ==
  ASSUME NEW values, NEW n \in Nat \ {0}, DOMAIN values = 1..n, Len(values) = n,
         NEW better
  PROVE  \E walk : Walks(walk, values, better, n) /\ LatestBy(values, better) = walk[n]
<1> DEFINE Reached == {k \in 1..n : \E walk : Walks(walk, values, better, k)}
           Body(walk) == [i \in DOMAIN values |->
             IF i = 1 THEN values[1]
             ELSE LET best == walk[i - 1] IN
                  IF <<values[i], best>> \in better THEN values[i] ELSE best]
           latest == CHOOSE walk : walk = Body(walk)
<1>1. 1 \in Reached
  <2>1. Walks([i \in 1..1 |-> values[1]], values, better, 1)
    BY DEF Walks
  <2> QED
    BY <2>1
<1>2. ASSUME NEW k \in 1..n - 1, k \in Reached PROVE k + 1 \in Reached
  <2>1. PICK walk : Walks(walk, values, better, k)
    BY <1>2
  <2> DEFINE step == IF <<values[k + 1], walk[k]>> \in better THEN values[k + 1] ELSE walk[k]
             longer == [i \in 1..k + 1 |-> IF i = k + 1 THEN step ELSE walk[i]]
  <2>2. \A i \in 1..k : i # k + 1 /\ i \in 1..k + 1
    OBVIOUS
  <2> HIDE DEF step
  <2>3. longer[k + 1] = step /\ \A i \in 1..k : longer[i] = walk[i]
    BY <2>2
  <2> HIDE DEF longer
  <2>4. Walks(longer, values, better, k + 1)
    BY <2>1, <2>3 DEF Walks, step
  <2> QED
    BY <2>4
<1>3. n \in Reached
  <2> HIDE DEF Reached
  <2>1. 1..n \subseteq Reached
    BY <1>1, <1>2, ListInduction
  <2> QED
    BY <2>1
<1>4. PICK walk : Walks(walk, values, better, n)
  BY <1>3
<1> DEFINE cut == [i \in 1..n |-> walk[i]]
<1>5. cut = Body(cut)
  <2>1. ASSUME NEW i \in 1..n PROVE cut[i] = Body(cut)[i]
    <3>1. CASE i = 1
      BY <1>4, <3>1 DEF Walks
    <3>2. CASE i # 1
      <4>1. i - 1 \in 1..n - 1 /\ i - 1 \in 1..n /\ (i - 1) + 1 = i
        BY <3>2
      <4> QED
        BY <1>4, <3>2, <4>1 DEF Walks
    <3> QED
      BY <3>1, <3>2
  <2> HIDE DEF cut
  <2>2. cut = [i \in 1..n |-> cut[i]]
    BY DEF cut
  <2>3. Body(cut) = [i \in 1..n |-> Body(cut)[i]]
    OBVIOUS
  <2> HIDE DEF Body
  <2> QED
    BY <2>1, <2>2, <2>3
<1>6. latest = Body(latest)
  <2> HIDE DEF cut, Body
  <2> QED
    BY <1>5
<1>7. LatestBy(values, better) = latest[n]
  BY DEF LatestBy
<1> HIDE DEF latest
<1>8. \A i \in 1..n : latest[i] =
        IF i = 1 THEN values[1]
        ELSE IF <<values[i], latest[i - 1]>> \in better THEN values[i] ELSE latest[i - 1]
  BY <1>6
<1>9. Walks(latest, values, better, n)
  <2>1. latest[1] = values[1]
    BY <1>8, 1 \in 1..n
  <2>2. ASSUME NEW i \in 1..n - 1
        PROVE  latest[i + 1] = IF <<values[i + 1], latest[i]>> \in better
                               THEN values[i + 1] ELSE latest[i]
    <3>1. i + 1 \in 1..n /\ i + 1 # 1 /\ (i + 1) - 1 = i
      OBVIOUS
    <3> QED
      BY <1>8, <3>1
  <2> QED
    BY <2>1, <2>2 DEF Walks
<1> QED
  BY <1>7, <1>9

IsListOf(values, n, S) ==
  n \in Nat \ {0} /\ DOMAIN values = 1..n /\ Len(values) = n /\ \A i \in 1..n : values[i] \in S

StrictOrder(better, S) ==
  /\ \A a \in S : <<a, a>> \notin better
  /\ \A a, b, c \in S : <<a, b>> \in better /\ <<b, c>> \in better => <<a, c>> \in better

(* better is a strict order: the loop ends with a value of the list that   *)
(* none of the list is better than.                                        *)
LEMMA LatestByIsBest ==
  ASSUME NEW values, NEW n, NEW S, IsListOf(values, n, S),
         NEW better, StrictOrder(better, S)
  PROVE  /\ \E i \in 1..n : LatestBy(values, better) = values[i]
         /\ \A i \in 1..n : <<values[i], LatestBy(values, better)>> \notin better
<1>1. /\ n \in Nat \ {0} /\ DOMAIN values = 1..n /\ Len(values) = n
      /\ \A i \in 1..n : values[i] \in S
      /\ \A a \in S : <<a, a>> \notin better
      /\ \A a, b, c \in S : <<a, b>> \in better /\ <<b, c>> \in better => <<a, c>> \in better
  BY DEF IsListOf, StrictOrder
<1>2. PICK walk : Walks(walk, values, better, n) /\ LatestBy(values, better) = walk[n]
  BY <1>1, LatestByWalks
<1> DEFINE Best == {k \in 1..n : /\ \E i \in 1..k : walk[k] = values[i]
                                 /\ \A i \in 1..k : <<values[i], walk[k]>> \notin better}
<1>3. 1 \in Best
  <2>1. walk[1] = values[1] /\ values[1] \in S
    BY <1>1, <1>2 DEF Walks
  <2> QED
    BY <1>1, <2>1
<1>4. ASSUME NEW k \in 1..n - 1, k \in Best PROVE k + 1 \in Best
  <2>1. /\ k + 1 \in 1..n /\ k + 1 \in 1..k + 1
        /\ \A i \in 1..k : i \in 1..n /\ i \in 1..k + 1
        /\ \A i \in 1..k + 1 : i \in 1..k \/ i = k + 1
    BY <1>1
  <2>2. /\ \E i \in 1..k : walk[k] = values[i]
        /\ \A i \in 1..k : <<values[i], walk[k]>> \notin better
    BY <1>4
  <2>3. walk[k + 1] = IF <<values[k + 1], walk[k]>> \in better THEN values[k + 1] ELSE walk[k]
    BY <1>2 DEF Walks
  <2>4. walk[k] \in S /\ values[k + 1] \in S /\ \A i \in 1..k : values[i] \in S
    BY <1>1, <2>1, <2>2
  <2>5. \E i \in 1..k + 1 : walk[k + 1] = values[i]
    BY <2>1, <2>2, <2>3
  <2>6. ASSUME NEW i \in 1..k + 1 PROVE <<values[i], walk[k + 1]>> \notin better
    <3>1. CASE <<values[k + 1], walk[k]>> \in better
      <4>1. walk[k + 1] = values[k + 1]
        BY <2>3, <3>1
      <4>2. i = k + 1 \/ (values[i] \in S /\ <<values[i], walk[k]>> \notin better)
        BY <2>1, <2>2, <2>4
      <4> QED
        BY <1>1, <2>4, <3>1, <4>1, <4>2
    <3>2. CASE <<values[k + 1], walk[k]>> \notin better
      BY <2>1, <2>2, <2>3, <3>2
    <3> QED
      BY <3>1, <3>2
  <2> QED
    BY <2>1, <2>5, <2>6
<1>5. 1..n \subseteq Best
  <2> HIDE DEF Best
  <2> QED
    BY <1>1, <1>3, <1>4, ListInduction
<1>6. n \in Best
  BY <1>1, <1>5
<1> QED
  BY <1>2, <1>6

----------------------------------------------------------------------------
(* Conflicts.                                                              *)

LEMMA BelowTransitive ==
  ASSUME NEW c, IsClock(c), NEW d, IsClock(d), NEW e, IsClock(e), Below(c, d), Below(d, e)
  PROVE  Below(c, e)
<1> SUFFICES ASSUME NEW n \in Nodes PROVE At(c, n) <= At(e, n)
  BY DEF Below
<1>1. At(c, n) \in Nat /\ At(d, n) \in Nat /\ At(e, n) \in Nat
  BY AtType
<1>2. At(c, n) <= At(d, n) /\ At(d, n) <= At(e, n)
  BY DEF Below
<1> QED
  BY <1>1, <1>2

LEMMA KnownFinite == ClockInv => IsFiniteSet(Known)
<1> SUFFICES ASSUME ClockInv PROVE IsFiniteSet(Known)
  OBVIOUS
<1> DEFINE owned == {own[n] : n \in DOMAIN own}
           f == [n \in DOMAIN own |-> own[n]]
<1>1. IsFiniteSet(DOMAIN own)
  BY ClockAssumption, FS_Subset DEF ClockInv, TypeOK
<1>2. f \in Surjection(DOMAIN own, owned)
  BY DEF Surjection
<1>3. IsFiniteSet(owned)
  BY <1>1, <1>2, FS_Surjection
<1> QED
  BY <1>3, FS_Union DEF ClockInv, Known

(* A list that has a set's members, each once, has them all.               *)
LEMMA ListOfSet ==
  ASSUME NEW set, IsFiniteSet(set), set # {}, NEW values \in SetToSeqs(set)
  PROVE  \E n : IsListOf(values, n, set) /\ \A v \in set : \E i \in 1..n : values[i] = v
<1> DEFINE n == Cardinality(set)
<1>1. n \in Nat \ {0}
  BY FS_CardinalityType, FS_EmptySet
<1>2. values \in Injection(1..n, set)
  BY DEF SetToSeqs, Injection, IsInjective
<1>3. IsFiniteSet(1..n) /\ Cardinality(1..n) = n
  BY <1>1, FS_Interval
<1>4. values \in Surjection(1..n, set)
  BY <1>2, <1>3, FS_Injection
<1>5. values \in [1..n -> set] /\ \A v \in set : \E i \in 1..n : values[i] = v
  BY <1>4 DEF Surjection
<1> HIDE DEF n
<1>6. DOMAIN values = 1..n /\ Len(values) = n /\ \A i \in 1..n : values[i] \in set
  BY <1>1, <1>5
<1> QED
  BY <1>1, <1>5, <1>6 DEF IsListOf

(* Both strategies come to the value that was stamped last: without        *)
(* conflicts the one that has all others in its past was.                  *)
LEMMA ResolveIsLatest ==
  ASSUME ClockInv, NEW set \in SUBSET Known, set # {}, NEW values \in SetToSeqs(set)
  PROVE  Resolve(values) \in set /\ \A v \in set : v.at <= Resolve(values).at
<1>1. IsFiniteSet(set)
  BY KnownFinite, FS_Subset
<1>2. PICK n : IsListOf(values, n, set) /\ \A v \in set : \E i \in 1..n : values[i] = v
  BY <1>1, ListOfSet
<1>3. /\ n \in Nat \ {0} /\ DOMAIN values = 1..n
      /\ \A i \in 1..n : values[i] \in set
      /\ \A v \in set : \E i \in 1..n : values[i] = v
  BY <1>2 DEF IsListOf
<1>4. ToSet(values) = set
  BY <1>3 DEF ToSet
<1>5. \A v \in set : IsClock(v.clock) /\ v.at \in Nat
  BY DEF ClockInv, TypeOK, IsVersion
<1> DEFINE later == {p \in set \X set : p[1].at > p[2].at}
           after == {p \in set \X set : Compare(p[1].clock, p[2].clock) = "After"}
<1>6. CASE HasConflicts(values)
  <2>1. Resolve(values) = LatestBy(values, later)
    BY <1>4, <1>6 DEF Resolve, LastWriteWins
  <2>2. \A a, b \in set : <<a, b>> \in later <=> a.at > b.at
    OBVIOUS
  <2> HIDE DEF later
  <2>3. StrictOrder(later, set)
    BY <1>5, <2>2 DEF StrictOrder
  <2>4. /\ \E i \in 1..n : LatestBy(values, later) = values[i]
        /\ \A i \in 1..n : <<values[i], LatestBy(values, later)>> \notin later
    BY <1>2, <2>3, LatestByIsBest
  <2>5. PICK i \in 1..n : Resolve(values) = values[i]
    BY <2>1, <2>4
  <2>6. ASSUME NEW v \in set PROVE v.at <= Resolve(values).at
    <3>1. PICK j \in 1..n : values[j] = v
      BY <1>3
    <3>2. <<v, Resolve(values)>> \notin later /\ Resolve(values) \in set
      BY <1>3, <2>1, <2>4, <2>5, <3>1
    <3> QED
      BY <1>5, <2>2, <3>2
  <2> QED
    BY <1>3, <2>5, <2>6
<1>7. CASE ~HasConflicts(values)
  <2>1. Resolve(values) = LatestBy(values, after)
    BY <1>4, <1>7 DEF Resolve, Newest
  <2>2. \A a, b \in set :
          <<a, b>> \in after <=> Below(b.clock, a.clock) /\ ~Below(a.clock, b.clock)
    BY <1>5, CompareIs
  <2> HIDE DEF after
  <2>3. \A a \in set : <<a, a>> \notin after
    BY <2>2
  <2>4. ASSUME NEW a \in set, NEW b \in set, NEW c \in set,
               <<a, b>> \in after, <<b, c>> \in after
        PROVE  <<a, c>> \in after
    <3>1. Below(b.clock, a.clock) /\ ~Below(a.clock, b.clock) /\ Below(c.clock, b.clock)
      BY <2>2, <2>4
    <3>2. Below(c.clock, a.clock)
      BY <1>5, <3>1, BelowTransitive
    <3>3. ~Below(a.clock, c.clock)
      BY <1>5, <3>1, BelowTransitive
    <3> QED
      BY <2>2, <3>2, <3>3
  <2>5. StrictOrder(after, set)
    BY <2>3, <2>4 DEF StrictOrder
  <2>6. /\ \E i \in 1..n : LatestBy(values, after) = values[i]
        /\ \A j \in 1..n : <<values[j], LatestBy(values, after)>> \notin after
    BY <1>2, <2>5, LatestByIsBest
  <2>7. PICK i \in 1..n : LatestBy(values, after) = values[i]
    BY <2>6
  <2>8. ASSUME NEW j \in 1..n PROVE values[j].at <= values[i].at
    <3>1. Below(values[i].clock, values[j].clock) \/ Below(values[j].clock, values[i].clock)
      <4>1. CASE i = j
        BY <1>3, <1>5, <4>1, AtType DEF Below
      <4>2. CASE i # j
        <5>1. /\ Compare(values[i].clock, values[j].clock) # "Concurrent"
              \/ Compare(values[j].clock, values[i].clock) # "Concurrent"
          BY <1>3, <1>7, <4>2 DEF HasConflicts
        <5> QED
          BY <1>3, <1>5, <5>1, CompareIs
      <4> QED
        BY <4>1, <4>2
    <3>2. Below(values[j].clock, values[i].clock)
      BY <1>3, <2>2, <2>6, <2>7, <3>1
    <3> QED
      BY <1>3, <3>2 DEF ClockInv, StampsFollow
  <2> QED
    BY <1>3, <2>1, <2>7, <2>8
<1> QED
  BY <1>6, <1>7

(* Resolve (vector_clock.go:226) never returns a value that another one    *)
(* was made from, however many values there are.                           *)
THEOREM ResolvedIsNewest == Spec => []ResolveKeepsNewest
<1>1. ClockInv => ResolveKeepsNewest
  <2> SUFFICES ASSUME ClockInv, NEW set \in SUBSET Known, set # {},
                      NEW values \in SetToSeqs(set), NEW v \in set,
                      Compare(Resolve(values).clock, v.clock) = "Before"
               PROVE  FALSE
    BY DEF ResolveKeepsNewest
  <2> DEFINE w == Resolve(values)
  <2>1. w \in set /\ v.at <= w.at
    <3>1. Resolve(values) \in set /\ \A u \in set : u.at <= Resolve(values).at
      BY ResolveIsLatest
    <3> QED
      BY <3>1
  <2>2. /\ IsClock(v.clock) /\ IsClock(w.clock) /\ v.at \in Nat /\ w.at \in Nat
        /\ v \in Known /\ w \in Known
    BY <2>1 DEF ClockInv, TypeOK, IsVersion
  <2> HIDE DEF w
  <2>3. Below(w.clock, v.clock) /\ ~Below(v.clock, w.clock)
    BY <2>2, CompareIs DEF w
  <2>4. w.at = v.at
    BY <2>1, <2>2, <2>3 DEF ClockInv, StampsFollow
  <2>5. w = v
    BY <2>2, <2>4 DEF ClockInv, StampsFollow
  <2> QED
    BY <2>3, <2>5
<1> QED
  BY <1>1, ClockInvariant, PTL

(* The same set of values resolves to the same value in every order.       *)
THEOREM ResolvedAlike == Spec => []ResolveIgnoresOrder
<1>1. ClockInv => ResolveIgnoresOrder
  <2> SUFFICES ASSUME ClockInv, NEW set \in SUBSET Known, set # {}
               PROVE  \E winner \in set :
                        \A values \in SetToSeqs(set) : Resolve(values) = winner
    BY DEF ResolveIgnoresOrder
  <2>1. \A v \in set : v \in Known /\ v.at \in Nat
    BY DEF ClockInv, TypeOK, IsVersion
  <2>2. \A one, other \in SetToSeqs(set) : Resolve(one) = Resolve(other)
    <3> SUFFICES ASSUME NEW one \in SetToSeqs(set), NEW other \in SetToSeqs(set)
                 PROVE  Resolve(one) = Resolve(other)
      OBVIOUS
    <3>1. /\ Resolve(one) \in set /\ Resolve(other) \in set
          /\ Resolve(one).at <= Resolve(other).at /\ Resolve(other).at <= Resolve(one).at
      BY ResolveIsLatest
    <3> QED
      BY <2>1, <3>1 DEF ClockInv, StampsFollow
  <2>3. CASE SetToSeqs(set) = {}
    BY <2>3
  <2>4. CASE SetToSeqs(set) # {}
    <3>1. PICK one \in SetToSeqs(set) : TRUE
      BY <2>4
    <3>2. Resolve(one) \in set
      BY ResolveIsLatest
    <3> QED
      BY <2>2, <3>1, <3>2
  <2> QED
    BY <2>3, <2>4
<1> QED
  BY <1>1, ClockInvariant, PTL
=============================================================================

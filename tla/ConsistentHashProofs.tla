------------------------ MODULE ConsistentHashProofs ------------------------
(* The ring and the walk of ConsistentHash, for any nodes, weights, number *)
(* of virtual nodes and size of the ring.                                  *)
EXTENDS ConsistentHash, FiniteSetTheorems, WellFoundedInduction, TLAPS

----------------------------------------------------------------------------
(* The least of a set, the next virtual node, the points of a node.        *)

LEMMA LeastIsLeast ==
  ASSUME NEW S \in SUBSET Nat, S # {}
  PROVE  Least(S) \in S /\ \A q \in S : Least(S) <= q
<1>1. PICK p \in S : \A q \in S : ~(<<q, p>> \in OpToRel(<, Nat))
  BY NatLessThanWellFounded, WFMin
<1>2. OpToRel(<, Nat) = {ss \in Nat \X Nat : ss[1] < ss[2]}
  BY Zenon DEF OpToRel
<1>3. ASSUME NEW q \in S PROVE p <= q
  <2>1. <<q, p>> \in Nat \X Nat /\ p \in Nat /\ q \in Nat
    OBVIOUS
  <2>2. ~(q < p)
    BY <1>1, <1>2, <2>1
  <2> QED
    BY <2>1, <2>2
<1> QED
  BY <1>3 DEF Least

(* FindNextNode as a function of the sorted hashes.                        *)
NextIn(S, h) ==
  LET ahead == {p \in S : p >= h} IN Least(IF ahead = {} THEN S ELSE ahead)

(* It returns the next point from h on, or the first of all.               *)
LEMMA NextIsNearest ==
  ASSUME NEW S \in SUBSET Nat, S # {}, NEW h \in Int
  PROVE  /\ NextIn(S, h) \in S
         /\ \A q \in S : q >= h => NextIn(S, h) >= h /\ q >= NextIn(S, h)
         /\ NextIn(S, h) < h => \A q \in S : q < h /\ NextIn(S, h) <= q
<1> DEFINE ahead == {p \in S : p >= h}
<1>1. CASE ahead = {}
  <2>1. NextIn(S, h) = Least(S)
    BY <1>1 DEF NextIn
  <2> QED
    BY <1>1, <2>1, LeastIsLeast
<1>2. CASE ahead # {}
  <2>1. NextIn(S, h) = Least(ahead)
    BY <1>2 DEF NextIn
  <2>2. Least(ahead) \in ahead /\ \A q \in ahead : Least(ahead) <= q
    BY <1>2, LeastIsLeast
  <2>3. NextIn(S, h) \in S /\ NextIn(S, h) >= h /\ NextIn(S, h) \in Nat
    BY <2>1, <2>2
  <2>4. ASSUME NEW q \in S, q >= h PROVE q >= NextIn(S, h)
    BY <2>1, <2>2, <2>4
  <2>5. ~(NextIn(S, h) < h)
    BY <2>3
  <2> HIDE DEF ahead
  <2> QED
    BY <2>3, <2>4, <2>5
<1> QED
  BY <1>1, <1>2

(* Points that are added or removed elsewhere do not change the result.    *)
LEMMA NextInSubset ==
  ASSUME NEW T \in SUBSET Nat, NEW S \in SUBSET T, NEW h \in Int, NextIn(T, h) \in S
  PROVE  NextIn(S, h) = NextIn(T, h)
<1> DEFINE s == NextIn(S, h)
           t == NextIn(T, h)
<1>1. /\ s \in S
      /\ \A q \in S : q >= h => s >= h /\ q >= s
      /\ s < h => \A q \in S : q < h /\ s <= q
  BY NextIsNearest
<1>2. /\ \A q \in T : q >= h => t >= h /\ q >= t
      /\ t < h => \A q \in T : q < h /\ t <= q
  BY NextIsNearest
<1>3. s \in Nat /\ t \in Nat /\ s \in T /\ t \in S
  BY <1>1
<1> HIDE DEF s, t
<1>4. s <= t /\ t <= s
  BY <1>1, <1>2, <1>3
<1>5. s = t
  BY <1>3, <1>4
<1> QED
  BY <1>5 DEF s, t

LEMMA NextOnRing ==
  /\ \A h : FindNextNode(h) = NextIn(SortedHashes, h)
            /\ FindNextNode(h)' = NextIn(SortedHashes', h')
  /\ SortedHashes \in SUBSET Nat /\ SortedHashes' \in SUBSET Nat
  BY RingAssumption DEF FindNextNode, NextIn, SortedHashes, Positions

LEMMA MoreWeight ==
  ASSUME NEW v \in 0..MaxWeight, NEW w \in 0..v
  PROVE  /\ VirtualNodes * w \in Nat /\ VirtualNodes * v \in Nat
         /\ VirtualNodes * w <= VirtualNodes * v
         /\ VirtualNodes * 0 = 0 /\ (w > 0 => VirtualNodes * w > 0)
  BY RingAssumption, SMT

(* The points of a node grow with its weight, and are nobody else's.       *)
LEMMA PointsBelong ==
  ASSUME hash \in Injection(VirtualKeys, Positions), NEW n \in Nodes
  PROVE  /\ \A v \in 0..MaxWeight : /\ Points(n, v) \subseteq Positions
                                    /\ \A w \in 0..v : Points(n, w) \subseteq Points(n, v)
                                    /\ v > 0 => Points(n, v) # {}
         /\ Points(n, 0) = {}
         /\ \A m \in Nodes, v, w \in 0..MaxWeight :
              m # n => Points(m, v) \cap Points(n, w) = {}
<1>1. hash \in [VirtualKeys -> Positions]
      /\ \A a, b \in VirtualKeys : hash[a] = hash[b] => a = b
  BY DEF Injection, IsInjective
<1>2. ASSUME NEW m \in Nodes, NEW v \in 0..MaxWeight, NEW i \in 0..(VirtualNodes * v - 1)
      PROVE  <<m, i>> \in VirtualKeys
  <2>1. MaxWeight \in 0..MaxWeight /\ v \in 0..MaxWeight
    BY RingAssumption
  <2>2. VirtualNodes * v \in Nat /\ VirtualNodes * MaxWeight \in Nat
        /\ VirtualNodes * v <= VirtualNodes * MaxWeight
    BY <2>1, MoreWeight
  <2> QED
    BY <2>2 DEF VirtualKeys
<1>3. ASSUME NEW v \in 0..MaxWeight
      PROVE  Points(n, v) \subseteq Positions /\ (v > 0 => Points(n, v) # {})
  <2>1. v > 0 => 0 \in 0..(VirtualNodes * v - 1)
    BY MoreWeight
  <2>2. v > 0 => hash[<<n, 0>>] \in Points(n, v)
    BY <2>1, Zenon DEF Points
  <2>3. Points(n, v) \subseteq Positions
    BY <1>1, <1>2 DEF Points
  <2> QED
    BY <2>2, <2>3
<1>4. ASSUME NEW v \in 0..MaxWeight, NEW w \in 0..v PROVE Points(n, w) \subseteq Points(n, v)
  BY MoreWeight DEF Points
<1>5. Points(n, 0) = {}
  <2>1. VirtualNodes * 0 = 0
    BY RingAssumption, SMT
  <2>2. 0..(VirtualNodes * 0 - 1) = {}
    BY <2>1
  <2> QED
    BY <2>2, Zenon DEF Points
<1>6. ASSUME NEW m \in Nodes, m # n, NEW v \in 0..MaxWeight, NEW w \in 0..MaxWeight
      PROVE  Points(m, v) \cap Points(n, w) = {}
  BY <1>1, <1>2, <1>6 DEF Points
<1> QED
  BY <1>3, <1>4, <1>5, <1>6

----------------------------------------------------------------------------
(* The inductive invariant of the ring.                                    *)

(* Even a point that was left behind is one of its owner's.                *)
PointsAreOwn == \A n \in Nodes : Owned(n) \subseteq Points(n, MaxWeight)

(* GetNodes works on a ring with members, which no writer changes.         *)
RingInv == TypeOK /\ RingIsExact /\ PointsAreOwn /\ (walking => Members # {})

LEMMA MembersOwnPoints ==
  ASSUME RingInv
  PROVE  /\ \A n \in Members : Owned(n) # {}
         /\ Members # {} => SortedHashes # {}
         /\ IsFiniteSet(Members) /\ Cardinality(Members) \in Nat
<1>1. ASSUME NEW n \in Members PROVE Owned(n) # {}
  <2>1. weight[n] \in 0..MaxWeight /\ weight[n] > 0
    BY DEF RingInv, TypeOK, Members
  <2> QED
    BY <2>1, PointsBelong DEF RingInv, TypeOK, RingIsExact, Members
<1>2. Members # {} => SortedHashes # {}
  BY <1>1, RingAssumption DEF Members, Owned, SortedHashes
<1>3. IsFiniteSet(Members) /\ Cardinality(Members) \in Nat
  BY RingAssumption, FS_Subset, FS_CardinalityType DEF Members
<1> QED
  BY <1>1, <1>2, <1>3

(* The points that a member gets, and those that it gives back.            *)
LEMMA AddOwns ==
  ASSUME RingInv, NEW n \in Nodes, NEW g \in 0..MaxWeight, AddNode(n, g)
  PROVE  /\ weight' \in [Nodes -> 0..MaxWeight] /\ weight'[n] > 0
         /\ \A m \in Nodes \ {n} : weight'[m] = weight[m] /\ Owned(m)' = Owned(m)
         /\ Owned(n)' = Owned(n) \cup Points(n, weight'[n])
         /\ ring' \in [Positions -> Nodes \cup {None}]
<1> DEFINE w == IF g <= 0 THEN 1 ELSE g
<1>1. w \in 0..MaxWeight /\ w > 0 /\ MaxWeight \in 0..MaxWeight
  BY RingAssumption
<1>2. weight' = [weight EXCEPT ![n] = w]
      /\ ring' = [p \in Positions |-> IF p \in Points(n, w) THEN n ELSE ring[p]]
  BY DEF AddNode
<1>3. weight' \in [Nodes -> 0..MaxWeight] /\ weight'[n] = w
      /\ \A m \in Nodes \ {n} : weight'[m] = weight[m]
  BY <1>1, <1>2 DEF RingInv, TypeOK
<1>4. ASSUME NEW m \in Nodes \ {n} PROVE Owned(m)' = Owned(m)
  <2>1. Owned(m) \cap Points(n, w) = {}
    BY <1>1, PointsBelong DEF RingInv, PointsAreOwn, TypeOK
  <2> QED
    BY <1>2, <2>1 DEF Owned
<1>5. Owned(n)' = Owned(n) \cup Points(n, w)
  <2>1. Points(n, w) \subseteq Positions
    BY <1>1, PointsBelong DEF RingInv, TypeOK
  <2> QED
    BY <1>2, <2>1 DEF Owned
<1>6. ring' \in [Positions -> Nodes \cup {None}]
  BY <1>2 DEF RingInv, TypeOK
<1> QED
  BY <1>1, <1>3, <1>4, <1>5, <1>6

LEMMA RemoveOwns ==
  ASSUME RingInv, NEW n \in Nodes, RemoveNode(n)
  PROVE  /\ weight' \in [Nodes -> 0..MaxWeight] /\ weight'[n] = 0
         /\ \A m \in Nodes \ {n} : weight'[m] = weight[m] /\ Owned(m)' = Owned(m)
         /\ Owned(n)' = Owned(n) \ Points(n, weight[n])
         /\ ring' \in [Positions -> Nodes \cup {None}]
<1>1. weight' = [weight EXCEPT ![n] = 0]
      /\ ring' = [p \in Positions |-> IF p \in Points(n, weight[n]) THEN None ELSE ring[p]]
  BY DEF RemoveNode
<1>2. Points(n, weight[n]) \subseteq Owned(n)
  BY DEF RingInv, RingIsExact
<1>3. None \notin Nodes
  BY RingAssumption
<1>4. ASSUME NEW m \in Nodes \ {n} PROVE Owned(m)' = Owned(m)
  BY <1>1, <1>2, <1>3 DEF Owned
<1>5. Owned(n)' = Owned(n) \ Points(n, weight[n])
  BY <1>1, <1>3 DEF Owned
<1> QED
  BY <1>1, <1>4, <1>5, RingAssumption DEF RingInv, TypeOK

LEMMA SamePoints ==
  ASSUME UNCHANGED hash, NEW m \in Nodes
  PROVE  /\ Points(m, weight[m])' = Points(m, weight'[m])
         /\ Points(m, MaxWeight)' = Points(m, MaxWeight)
  BY DEF Points

(* A member is found as long as there is one.                              *)
LEMMA FindsOwner ==
  ASSUME RingInv, NEW h \in Int, Members # {}
  PROVE  FindNextNode(h) \in SortedHashes /\ ring[FindNextNode(h)] \in Nodes
<1>1. FindNextNode(h) \in SortedHashes
  BY MembersOwnPoints, NextIsNearest, NextOnRing
<1> QED
  BY <1>1 DEF SortedHashes, RingInv, TypeOK

LEMMA RingStep == RingInv /\ [Next]_vars => RingInv'
<1> SUFFICES ASSUME RingInv, [Next]_vars PROVE RingInv'
  OBVIOUS
<1>0. TypeOK /\ MaxWeight \in 0..MaxWeight
  BY RingAssumption DEF RingInv
<1>1. ASSUME NEW n \in Nodes, NEW g \in 0..MaxWeight, AddNode(n, g) PROVE RingInv'
  <2>1. /\ UNCHANGED <<hash, walking, key, at, count, found>> /\ ~walking
        /\ shrunk' = IF weight'[n] < weight[n] THEN shrunk \cup {n} ELSE shrunk
    BY <1>0, <1>1 DEF AddNode, walk, TypeOK
  <2>2. TypeOK'
    BY <1>0, <1>1, <2>1, AddOwns DEF TypeOK
  <2>3. ASSUME NEW m \in Nodes
        PROVE  /\ Points(m, weight[m])' \subseteq Owned(m)'
               /\ m \notin shrunk' => Owned(m)' = Points(m, weight[m])'
               /\ Owned(m)' \subseteq Points(m, MaxWeight)'
    <3>1. /\ Points(m, weight[m]) \subseteq Owned(m)
          /\ m \notin shrunk => Owned(m) = Points(m, weight[m])
          /\ Owned(m) \subseteq Points(m, MaxWeight)
      BY DEF RingInv, RingIsExact, PointsAreOwn
    <3>2. CASE m # n
      BY <1>1, <2>1, <3>1, <3>2, AddOwns, SamePoints
    <3>3. CASE m = n
      <4>1. weight'[n] \in 0..MaxWeight /\ weight[n] \in 0..MaxWeight
        BY <1>0, <2>2 DEF TypeOK
      <4>2. /\ Points(n, weight'[n]) \subseteq Points(n, MaxWeight)
            /\ weight'[n] >= weight[n] => Points(n, weight[n]) \subseteq Points(n, weight'[n])
        BY <1>0, <4>1, PointsBelong DEF TypeOK
      <4>3. Owned(n)' = Owned(n) \cup Points(n, weight'[n])
        BY <1>1, AddOwns
      <4>4. n \notin shrunk' => weight'[n] >= weight[n] /\ n \notin shrunk
        BY <2>1, <4>1
      <4> QED
        BY <2>1, <3>1, <3>3, <4>2, <4>3, <4>4, SamePoints
    <3> QED
      BY <3>2, <3>3
  <2> QED
    BY <2>1, <2>2, <2>3 DEF RingInv, RingIsExact, PointsAreOwn
<1>2. ASSUME NEW n \in Nodes, RemoveNode(n) PROVE RingInv'
  <2>1. UNCHANGED <<hash, walking, key, at, count, found, shrunk>> /\ ~walking
    BY <1>2 DEF RemoveNode, walk
  <2>2. TypeOK'
    BY <1>0, <1>2, <2>1, RemoveOwns DEF TypeOK
  <2>3. ASSUME NEW m \in Nodes
        PROVE  /\ Points(m, weight[m])' \subseteq Owned(m)'
               /\ m \notin shrunk' => Owned(m)' = Points(m, weight[m])'
               /\ Owned(m)' \subseteq Points(m, MaxWeight)'
    <3>1. /\ Points(m, weight[m]) \subseteq Owned(m)
          /\ m \notin shrunk => Owned(m) = Points(m, weight[m])
          /\ Owned(m) \subseteq Points(m, MaxWeight)
      BY DEF RingInv, RingIsExact, PointsAreOwn
    <3>2. CASE m # n
      BY <1>2, <2>1, <3>1, <3>2, RemoveOwns, SamePoints
    <3>3. CASE m = n
      <4>1. weight'[n] = 0 /\ Owned(n)' = Owned(n) \ Points(n, weight[n])
        BY <1>2, RemoveOwns
      <4>2. Points(n, 0) = {}
        BY <1>0, PointsBelong DEF TypeOK
      <4> QED
        BY <2>1, <3>1, <3>3, <4>1, <4>2, SamePoints
    <3> QED
      BY <3>2, <3>3
  <2> QED
    BY <2>1, <2>2, <2>3 DEF RingInv, RingIsExact, PointsAreOwn
<1>3. ASSUME UNCHANGED <<hash, weight, ring, shrunk>>, TypeOK', walking' => Members # {}
      PROVE  RingInv'
  <2>1. \A m \in Nodes : UNCHANGED <<Owned(m), Points(m, weight[m]), Points(m, MaxWeight)>>
    BY <1>3, SamePoints DEF Owned
  <2>2. Members' = Members
    BY <1>3 DEF Members
  <2> QED
    BY <1>3, <2>1, <2>2 DEF RingInv, RingIsExact, PointsAreOwn
<1>4. ASSUME NEW k \in Positions, NEW c \in 1..MaxCount, GetNodes(k, c) PROVE RingInv'
  <2>1. count' \in 0..MaxCount
    BY <1>4, MembersOwnPoints, RingAssumption DEF GetNodes
  <2> QED
    BY <1>0, <1>3, <1>4, <2>1 DEF GetNodes, TypeOK
<1>5. CASE Visit
  <2>1. Members # {}
    BY <1>5 DEF Visit, RingInv
  <2>2. at \in Int
    BY <1>0 DEF TypeOK, Positions
  <2>3. FindNextNode(at) \in Positions /\ ring[FindNextNode(at)] \in Nodes
    BY <2>1, <2>2, FindsOwner DEF SortedHashes
  <2>4. FindNextNode(FindNextNode(at) + 1) \in Positions
    <3>1. FindNextNode(at) + 1 \in Int
      BY <2>3 DEF Positions
    <3> QED
      BY <2>1, <3>1, FindsOwner DEF SortedHashes
  <2>5. at' \in Positions
    BY <1>5, <2>4 DEF Visit
  <2>6. found' \in Seq(Nodes)
    BY <1>0, <1>5, <2>3 DEF Visit, TypeOK
  <2> QED
    BY <1>0, <1>3, <1>5, <2>1, <2>5, <2>6 DEF Visit, TypeOK
<1>6. CASE Return
  <2>1. 0 \in Positions /\ 0 \in 0..MaxCount /\ <<>> \in Seq(Nodes)
    BY RingAssumption DEF Positions
  <2> QED
    BY <1>0, <1>3, <1>6, <2>1 DEF Return, TypeOK
<1>7. CASE UNCHANGED vars
  BY <1>0, <1>3, <1>7 DEF vars, walk, TypeOK, RingInv
<1> QED
  BY <1>1, <1>2, <1>4, <1>5, <1>6, <1>7 DEF Next

(* The ring keeps its parts together in every reachable state.             *)
THEOREM RingInvariant == Spec => []RingInv
<1>1. Init => RingInv
  <2> SUFFICES ASSUME Init PROVE RingInv
    OBVIOUS
  <2>1. 0 \in Positions /\ 0 \in 0..MaxCount /\ 0 \in 0..MaxWeight /\ <<>> \in Seq(Nodes)
    BY RingAssumption DEF Positions
  <2>2. TypeOK
    BY <2>1 DEF Init, TypeOK
  <2>3. ASSUME NEW n \in Nodes PROVE Owned(n) = {} /\ Points(n, weight[n]) = {}
    <3>1. Owned(n) = {}
      BY RingAssumption DEF Init, Owned
    <3>2. weight[n] = 0 /\ Points(n, 0) = {}
      BY PointsBelong DEF Init
    <3> QED
      BY <3>1, <3>2
  <2> QED
    BY <2>2, <2>3 DEF Init, RingInv, RingIsExact, PointsAreOwn
<1> QED
  BY <1>1, RingStep, PTL DEF Spec

(* Every variable of the ring and of the walk keeps its type.              *)
THEOREM TypeCorrect == Spec => []TypeOK
<1>1. RingInv => TypeOK
  BY DEF RingInv
<1> QED
  BY <1>1, RingInvariant, PTL

(* The ring has exactly the points of its members, but for those that a    *)
(* lowered weight leaves behind (consistent_hash.go:45-86).                *)
THEOREM RingExact == Spec => []RingIsExact
<1>1. RingInv => RingIsExact
  BY DEF RingInv
<1> QED
  BY <1>1, RingInvariant, PTL

----------------------------------------------------------------------------
(* What a change of the membership does to keys.                           *)

Nearer(k, n) == {m \in Owners : Distance(k, m) < Distance(k, n)}

LEMMA NearerIsFinite ==
  /\ \A k, n : IsFiniteSet(Nearer(k, n)) /\ Cardinality(Nearer(k, n)) \in Nat
  /\ \A k, n : IsFiniteSet(Nearer(k, n)') /\ Cardinality(Nearer(k, n)') \in Nat
<1>1. \A k, n : Nearer(k, n) \in SUBSET Nodes /\ Nearer(k, n)' \in SUBSET Nodes
  BY DEF Nearer, Owners
<1> QED
  BY <1>1, RingAssumption, FS_Subset, FS_CardinalityType

(* Replicas are lost only to nodes that come nearer.                       *)
LEMMA ReplicasKept ==
  ASSUME NEW n \in Nodes, \A m \in Nodes \ {n} : Owned(m)' = Owned(m),
         NEW k \in Positions, NEW c \in 1..MaxCount
  PROVE  /\ Owned(n) = {} => Replicas(k, c)' \subseteq Replicas(k, c) \cup {n}
         /\ Owned(n)' = {} => Replicas(k, c) \ {n} \subseteq Replicas(k, c)'
<1>1. \A m \in Nodes \ {n} : /\ Distance(k, m)' = Distance(k, m)
                             /\ m \in Owners <=> m \in Owners'
  BY DEF Distance, Owners
<1>2. \A m \in Nodes : /\ m \in Replicas(k, c) <=>
                            m \in Owners /\ Cardinality(Nearer(k, m)) < c
                      /\ m \in Replicas(k, c)' <=>
                            m \in Owners' /\ Cardinality(Nearer(k, m)') < c
  BY DEF Replicas, Nearer
<1>3. ASSUME Owned(n) = {}, NEW m \in Replicas(k, c)', m # n PROVE m \in Replicas(k, c)
  <2>1. n \notin Owners /\ m \in Nodes
    BY <1>3 DEF Owners, Replicas
  <2>2. Nearer(k, m) \subseteq Nearer(k, m)'
    BY <1>1, <1>3, <2>1 DEF Nearer, Owners
  <2>3. Cardinality(Nearer(k, m)) <= Cardinality(Nearer(k, m)')
    BY <2>2, NearerIsFinite, FS_Subset
  <2>4. m \in Owners' /\ Cardinality(Nearer(k, m)') < c
    BY DEF Replicas, Nearer
  <2>5. Cardinality(Nearer(k, m)) < c
    <3>1. /\ Cardinality(Nearer(k, m)) \in Nat /\ Cardinality(Nearer(k, m)') \in Nat
          /\ c \in Int
      BY NearerIsFinite
    <3> QED
      BY <2>3, <2>4, <3>1
  <2> QED
    BY <1>1, <1>2, <1>3, <2>1, <2>4, <2>5
<1>4. ASSUME Owned(n)' = {}, NEW m \in Replicas(k, c), m # n PROVE m \in Replicas(k, c)'
  <2>1. n \notin Owners' /\ m \in Nodes
    BY <1>4 DEF Owners, Replicas
  <2>2. Nearer(k, m)' \subseteq Nearer(k, m)
    BY <1>1, <1>4, <2>1 DEF Nearer, Owners
  <2>3. Cardinality(Nearer(k, m)') <= Cardinality(Nearer(k, m))
    BY <2>2, NearerIsFinite, FS_Subset
  <2>4. m \in Owners /\ Cardinality(Nearer(k, m)) < c
    BY DEF Replicas, Nearer
  <2>5. Cardinality(Nearer(k, m)') < c
    <3>1. /\ Cardinality(Nearer(k, m)) \in Nat /\ Cardinality(Nearer(k, m)') \in Nat
          /\ c \in Int
      BY NearerIsFinite
    <3> QED
      BY <2>3, <2>4, <3>1
  <2> QED
    BY <1>1, <1>2, <1>4, <2>1, <2>4, <2>5
<1> QED
  BY <1>3, <1>4

(* The step of a membership change, seen from one of the nodes.            *)
LEMMA WhoseWeight ==
  ASSUME RingInv, [Next]_vars, NEW n \in Nodes, n \notin shrunk
  PROVE  /\ n \notin Members /\ n \in Members' =>
              /\ Owned(n) = {} /\ Members' = Members \cup {n}
              /\ \A m \in Nodes \ {n} : Owned(m)' = Owned(m)
         /\ n \in Members /\ n \notin Members' =>
              /\ Owned(n)' = {} /\ Members' = Members \ {n}
              /\ \A m \in Nodes \ {n} : Owned(m)' = Owned(m)
<1>1. weight \in [Nodes -> 0..MaxWeight] /\ Owned(n) = Points(n, weight[n])
      /\ Points(n, 0) = {}
  BY PointsBelong DEF RingInv, RingIsExact, TypeOK
<1>2. ASSUME NEW m \in Nodes, NEW g \in 0..MaxWeight, AddNode(m, g)
      PROVE  /\ n \in Members => n \in Members'
             /\ n \notin Members /\ n \in Members' => n = m
             /\ Members' = Members \cup {m}
             /\ \A j \in Nodes \ {m} : Owned(j)' = Owned(j)
  BY <1>1, <1>2, AddOwns DEF Members
<1>3. ASSUME NEW m \in Nodes, RemoveNode(m)
      PROVE  /\ n \notin Members => n \notin Members'
             /\ n \in Members /\ n \notin Members' => n = m
             /\ Members' = Members \ {m}
             /\ Owned(m)' = Owned(m) \ Points(m, weight[m])
             /\ \A j \in Nodes \ {m} : Owned(j)' = Owned(j)
  BY <1>1, <1>3, RemoveOwns DEF Members
<1>4. ASSUME UNCHANGED weight PROVE Members' = Members
  BY <1>4 DEF Members
<1>5. n \notin Members => Owned(n) = {}
  BY <1>1 DEF Members
<1>6. CASE \E m \in Nodes, g \in 0..MaxWeight : AddNode(m, g)
  BY <1>2, <1>5, <1>6
<1>7. CASE \E m \in Nodes : RemoveNode(m)
  BY <1>1, <1>3, <1>7
<1>8. CASE UNCHANGED weight
  BY <1>4, <1>8
<1> QED
  BY <1>6, <1>7, <1>8 DEF Next, vars, GetNodes, Visit, Return

(* A key goes to the new node, or stays.                                   *)
LEMMA KeyOnAdd ==
  ASSUME RingInv, RingInv', NEW n \in Nodes, NEW k \in Positions, Owned(n) = {},
         n \notin Members, Members' = Members \cup {n}, UNCHANGED hash,
         \A m \in Nodes \ {n} : Owned(m)' = Owned(m)
  PROVE  GetNode(k)' \in {GetNode(k), n}
<1> DEFINE p == NextIn(SortedHashes', k)
<1>1. k \in Int /\ n # None /\ None \notin Nodes
  BY RingAssumption DEF Positions
<1>2. \A q \in Positions : /\ ring[q] \in Nodes \cup {None} /\ ring'[q] \in Nodes \cup {None}
                          /\ (ring'[q] = n \/ ring'[q] = ring[q])
  BY <1>1 DEF RingInv, TypeOK, Owned
<1>3. SortedHashes \in SUBSET (SortedHashes') /\ n \notin {ring[q] : q \in Positions}
  BY <1>1, <1>2 DEF SortedHashes, Owned
<1>4. p \in SortedHashes'
  <2>1. SortedHashes' # {}
    <3>1. n \in Members'
      BY DEF Members
    <3>2. weight'[n] \in 0..MaxWeight /\ weight'[n] > 0
      BY <3>1 DEF RingInv, TypeOK, Members
    <3>3. Owned(n)' # {}
      <4>1. hash \in Injection(VirtualKeys, Positions) /\ Points(n, weight[n])' \subseteq Owned(n)'
        BY DEF RingInv, TypeOK, RingIsExact
      <4>2. Points(n, weight[n])' # {}
        BY <3>2, <4>1, PointsBelong, SamePoints
      <4> QED
        BY <4>1, <4>2
    <3> QED
      BY <1>1, <3>3 DEF Owned, SortedHashes
  <2> QED
    BY <1>1, <2>1, NextOnRing, NextIsNearest
<1>5. CASE ring'[p] = n
  BY <1>5, NextOnRing DEF GetNode
<1>6. CASE ring'[p] # n
  <2>1. p \in Positions /\ ring'[p] = ring[p] /\ p \in SortedHashes
    BY <1>2, <1>4, <1>6 DEF SortedHashes
  <2>2. NextIn(SortedHashes, k) = p
    BY <1>1, <1>3, <2>1, NextOnRing, NextInSubset
  <2>3. FindNextNode(k) = p /\ FindNextNode(k)' = p
    BY <2>2, NextOnRing
  <2>4. GetNode(k)' = IF ring[p] \in Members THEN ring[p] ELSE None
    BY <1>6, <2>1, <2>3 DEF GetNode
  <2>5. GetNode(k) = IF ring[p] \in Members THEN ring[p] ELSE None
    BY <1>1, <2>3 DEF GetNode, Members
  <2> QED
    BY <2>4, <2>5
<1> QED
  BY <1>5, <1>6

(* A key that was not with the node that goes stays.                       *)
LEMMA KeyOnRemove ==
  ASSUME RingInv, RingInv', NEW n \in Nodes, NEW k \in Positions, Owned(n)' = {},
         n \in Members, Members' = Members \ {n},
         \A m \in Nodes \ {n} : Owned(m)' = Owned(m), GetNode(k) # n
  PROVE  GetNode(k)' = GetNode(k)
<1> DEFINE p == NextIn(SortedHashes, k)
<1>1. k \in Int /\ n # None /\ None \notin Nodes
  BY RingAssumption DEF Positions
<1>2. \A q \in Positions : /\ ring[q] \in Nodes \cup {None} /\ ring'[q] \in Nodes \cup {None}
                          /\ (ring[q] = n \/ ring'[q] = ring[q])
  BY <1>1 DEF RingInv, TypeOK, Owned
<1>3. SortedHashes' \in SUBSET SortedHashes
  BY <1>1, <1>2 DEF SortedHashes, Owned
<1>4. p \in SortedHashes /\ FindNextNode(k) = p /\ p \in Positions
  BY <1>1, MembersOwnPoints, NextOnRing, NextIsNearest DEF SortedHashes
<1>5. ring[p] # n
  BY <1>4 DEF GetNode
<1>6. ring'[p] = ring[p] /\ p \in SortedHashes'
  BY <1>2, <1>4, <1>5 DEF SortedHashes
<1>7. FindNextNode(k)' = p
  <2>1. NextIn(SortedHashes', k) = p
    BY <1>1, <1>3, <1>6, NextOnRing, NextInSubset
  <2> QED
    BY <2>1, NextOnRing
<1>8. GetNode(k) = IF ring[p] \in Members THEN ring[p] ELSE None
  BY <1>1, <1>4 DEF GetNode, Members
<1>9. GetNode(k)' = IF ring[p] \in Members' THEN ring[p] ELSE None
  BY <1>1, <1>6, <1>7 DEF GetNode, Members
<1> QED
  BY <1>5, <1>8, <1>9

(* A change of the membership moves the keys, and the replicas, of the one *)
(* node that comes or goes (consistent_hash.go:45-101).                    *)
THEOREM FewKeysMove == Spec => MinimalMovement
<1> DEFINE Moves(n, k) ==
      /\ n \notin Members /\ n \in Members' =>
           /\ GetNode(k)' \in {GetNode(k), n}
           /\ \A c \in 1..MaxCount : Replicas(k, c)' \subseteq Replicas(k, c) \cup {n}
      /\ n \in Members /\ n \notin Members' =>
           /\ GetNode(k) # n => GetNode(k)' = GetNode(k)
           /\ \A c \in 1..MaxCount : Replicas(k, c) \ {n} \subseteq Replicas(k, c)'
<1>1. RingInv /\ [Next]_vars => [\A n \in Nodes \ shrunk, k \in Positions : Moves(n, k)]_vars
  <2> SUFFICES ASSUME RingInv, [Next]_vars, NEW n \in Nodes \ shrunk, NEW k \in Positions
               PROVE  Moves(n, k)
    OBVIOUS
  <2>1. RingInv' /\ UNCHANGED hash
    BY RingStep DEF Next, AddNode, RemoveNode, GetNodes, Visit, Return, vars
  <2>2. CASE n \notin Members /\ n \in Members'
    BY <2>1, <2>2, WhoseWeight, KeyOnAdd, ReplicasKept
  <2>3. CASE n \in Members /\ n \notin Members'
    BY <2>1, <2>3, WhoseWeight, KeyOnRemove, ReplicasKept
  <2> QED
    BY <2>2, <2>3
<1> QED
  BY <1>1, RingInvariant, PTL DEF Spec, MinimalMovement

----------------------------------------------------------------------------
(* Going clockwise.                                                        *)

LEMMA ClockwiseOrder ==
  ASSUME NEW k \in Positions
  PROVE  /\ \A p \in Positions : Clockwise(k, p) \in Nat
         /\ \A p, q \in Positions : Clockwise(k, p) = Clockwise(k, q) => p = q
         /\ Clockwise(k, k) = 0
  BY RingAssumption DEF Clockwise, Positions

(* The first point of an owner.                                            *)
LEMMA DistanceIsLeast ==
  ASSUME NEW k \in Positions, NEW n \in Owners
  PROVE  /\ Distance(k, n) \in Nat
         /\ \E p \in Owned(n) : Distance(k, n) = Clockwise(k, p)
         /\ \A p \in Owned(n) : Distance(k, n) <= Clockwise(k, p)
<1> DEFINE S == {Clockwise(k, p) : p \in Owned(n)}
<1>1. S \in SUBSET Nat /\ S # {}
  BY ClockwiseOrder DEF Owners, Owned
<1>2. Distance(k, n) = Least(S)
  BY DEF Distance
<1>3. Distance(k, n) \in S /\ \A d \in S : Distance(k, n) <= d
  <2> HIDE DEF S
  <2> QED
    BY <1>1, <1>2, LeastIsLeast
<1> QED
  BY <1>1, <1>3

(* The next point from h on is the next one clockwise, if there is one     *)
(* before the key comes round again.                                       *)
LEMMA NextClockwise ==
  ASSUME NEW k \in Positions, NEW h \in Positions,
         NEW q \in SortedHashes, Clockwise(k, q) >= Clockwise(k, h)
  PROVE  /\ FindNextNode(h) \in SortedHashes
         /\ Clockwise(k, FindNextNode(h)) >= Clockwise(k, h)
         /\ Clockwise(k, FindNextNode(h)) <= Clockwise(k, q)
<1> DEFINE p == NextIn(SortedHashes, h)
<1>1. h \in Int /\ k \in Int /\ q \in Positions
  BY DEF Positions, SortedHashes
<1>2. /\ p \in SortedHashes
      /\ q >= h => p >= h /\ q >= p
      /\ p < h => q < h /\ p <= q
  BY <1>1, NextOnRing, NextIsNearest
<1>3. p \in Positions /\ FindNextNode(h) = p
  BY <1>2, NextOnRing DEF SortedHashes
<1> HIDE DEF p
<1>4. Clockwise(k, p) >= Clockwise(k, h) /\ Clockwise(k, p) <= Clockwise(k, q)
  BY <1>1, <1>2, <1>3, RingAssumption DEF Clockwise, Positions
<1> QED
  BY <1>2, <1>3, <1>4

(* The point after p is the next one, too.                                 *)
LEMMA AfterClockwise ==
  ASSUME NEW k \in Positions, NEW p \in SortedHashes,
         NEW q \in SortedHashes, Clockwise(k, q) > Clockwise(k, p)
  PROVE  /\ Clockwise(k, FindNextNode(p + 1)) > Clockwise(k, p)
         /\ Clockwise(k, FindNextNode(p + 1)) <= Clockwise(k, q)
<1> DEFINE r == NextIn(SortedHashes, p + 1)
<1>1. p \in Positions /\ q \in Positions /\ p + 1 \in Int
  BY DEF Positions, SortedHashes
<1>2. /\ r \in SortedHashes
      /\ q >= p + 1 => r >= p + 1 /\ q >= r
      /\ r < p + 1 => q < p + 1 /\ r <= q
  BY <1>1, NextOnRing, NextIsNearest
<1>3. r \in Positions /\ FindNextNode(p + 1) = r
  BY <1>2, NextOnRing DEF SortedHashes
<1> HIDE DEF r
<1>4. Clockwise(k, r) > Clockwise(k, p) /\ Clockwise(k, r) <= Clockwise(k, q)
  BY <1>1, <1>2, <1>3, RingAssumption DEF Clockwise, Positions
<1> QED
  BY <1>3, <1>4

----------------------------------------------------------------------------
(* The walk.                                                               *)

(* What is found is different, ordered by the distance from the key, and   *)
(* nearer than what is not; until the walk is complete it is what lies     *)
(* between the key and where the walk looks next.                          *)
WalkInv == walking =>
  /\ count \in Nat \ {0} /\ count <= Cardinality(Members)
  /\ Len(found) <= count
  /\ \A i \in DOMAIN found : found[i] \in Owners
  /\ \A i, j \in DOMAIN found : i < j => Distance(key, found[i]) < Distance(key, found[j])
  /\ \A i \in DOMAIN found, m \in Owners \ Range(found) :
       Distance(key, found[i]) < Distance(key, m)
  /\ ~Complete =>
       \A m \in Owners : m \in Range(found) <=> Distance(key, m) < Clockwise(key, at)

LEMMA OwnersAreMany ==
  ASSUME RingInv
  PROVE  /\ Members \subseteq Owners /\ Cardinality(Members) <= Cardinality(Owners)
         /\ IsFiniteSet(Owners) /\ Cardinality(Owners) \in Nat
         /\ Cardinality(Members) \in Nat
<1>1. Members \subseteq Owners /\ Owners \subseteq Nodes
  BY MembersOwnPoints DEF Owners, Members
<1>2. IsFiniteSet(Owners)
  BY <1>1, RingAssumption, FS_Subset
<1> QED
  BY <1>1, <1>2, MembersOwnPoints, FS_Subset, FS_CardinalityType

(* As many nodes are found as the list is long.                            *)
LEMMA FoundIsCounted ==
  ASSUME RingInv, WalkInv, walking
  PROVE  IsFiniteSet(Range(found)) /\ Cardinality(Range(found)) = Len(found)
<1>1. found \in Seq(Nodes) /\ key \in Positions
  BY DEF RingInv, TypeOK
<1>2. DOMAIN found = 1..Len(found) /\ Len(found) \in Nat
  BY <1>1
<1>3. \A i \in 1..Len(found) : Distance(key, found[i]) \in Nat
  BY <1>1, <1>2, DistanceIsLeast DEF WalkInv
<1>4. \A i, j \in 1..Len(found) : found[i] = found[j] => i = j
  <2> SUFFICES ASSUME NEW i \in 1..Len(found), NEW j \in 1..Len(found),
                      found[i] = found[j], i # j
               PROVE  FALSE
    OBVIOUS
  <2>1. i < j \/ j < i
    BY <1>2
  <2> QED
    BY <1>2, <1>3, <2>1 DEF WalkInv
<1>5. found \in Bijection(1..Len(found), Range(found))
  BY <1>1, <1>2, <1>4 DEF Bijection, Injection, Surjection, IsInjective, Range
<1> QED
  BY <1>2, <1>5, FS_CountingElements, FS_NatBijection DEF ExistsBijection

(* A walk that has found all owners is complete.                           *)
LEMMA AllFound ==
  ASSUME RingInv, WalkInv, walking, Owners \subseteq Range(found)
  PROVE  Complete
<1>1. Range(found) = Owners
  BY DEF WalkInv, Range
<1>2. Cardinality(Owners) = Len(found) /\ Len(found) \in Nat /\ count \in Nat
  BY <1>1, FoundIsCounted DEF RingInv, TypeOK, WalkInv
<1> QED
  BY <1>2, OwnersAreMany DEF WalkInv, Complete

(* One turn of the loop finds the owner of the next point, and then goes   *)
(* on clockwise or has come round and is complete.                         *)
LEMMA VisitStep ==
  ASSUME RingInv, WalkInv, Visit
  PROVE  WalkInv' /\ (Clockwise(key, at') > Clockwise(key, at) \/ Complete')
<1> DEFINE p == FindNextNode(at)
           n == ring[p]
<1>1. /\ walking /\ ~Complete /\ key \in Positions /\ at \in Positions
      /\ found \in Seq(Nodes) /\ count \in Nat \ {0} /\ Len(found) < count
      /\ ring \in [Positions -> Nodes \cup {None}] /\ None \notin Nodes
      /\ UNCHANGED <<ring, weight, key, count, walking>>
  BY RingAssumption DEF Visit, RingInv, TypeOK, WalkInv, Complete
<1>2. \A m \in Owners : Owned(m) \subseteq SortedHashes /\ Owned(m) # {}
  BY <1>1 DEF Owners, Owned, SortedHashes
<1>3. \A m \in Owners : m \in Range(found) <=> Distance(key, m) < Clockwise(key, at)
  BY <1>1 DEF WalkInv
<1>4. PICK q \in SortedHashes : Clockwise(key, q) >= Clockwise(key, at)
  <2> SUFFICES ASSUME \A q \in SortedHashes : ~(Clockwise(key, q) >= Clockwise(key, at))
               PROVE  FALSE
    OBVIOUS
  <2>1. ASSUME NEW m \in Owners PROVE m \in Range(found)
    <3>1. PICK q \in Owned(m) : Distance(key, m) = Clockwise(key, q)
      BY <1>1, DistanceIsLeast
    <3>2. q \in SortedHashes /\ q \in Positions
      BY <1>2 DEF SortedHashes
    <3>3. Clockwise(key, q) \in Nat /\ Clockwise(key, at) \in Nat
      BY <1>1, <3>2, ClockwiseOrder
    <3> QED
      BY <1>3, <3>1, <3>2, <3>3
  <2> QED
    BY <1>1, <2>1, AllFound
<1>5. /\ p \in SortedHashes /\ Clockwise(key, p) >= Clockwise(key, at)
      /\ \A r \in SortedHashes :
           Clockwise(key, r) >= Clockwise(key, at) => Clockwise(key, p) <= Clockwise(key, r)
  BY <1>1, <1>4, NextClockwise
<1>6. p \in Positions /\ n \in Owners /\ p \in Owned(n)
  BY <1>1, <1>5 DEF SortedHashes, Owners, Owned
<1>7. /\ found' = IF n \in Range(found) THEN found ELSE Append(found, n)
      /\ at' = FindNextNode(p + 1)
  BY DEF Visit
<1>8. /\ Clockwise(key, p) \in Nat /\ Clockwise(key, at) \in Nat
      /\ \A r \in SortedHashes : Clockwise(key, r) \in Nat
      /\ \A m \in Owners : Distance(key, m) \in Nat
  BY <1>1, <1>6, ClockwiseOrder, DistanceIsLeast DEF SortedHashes
<1> HIDE DEF p, n
<1>9. n \notin Range(found) => Distance(key, n) = Clockwise(key, p)
  <2> SUFFICES ASSUME n \notin Range(found) PROVE Distance(key, n) = Clockwise(key, p)
    OBVIOUS
  <2>1. Distance(key, n) >= Clockwise(key, at)
    BY <1>3, <1>6, <1>8
  <2>2. PICK r \in Owned(n) : Distance(key, n) = Clockwise(key, r)
    BY <1>1, <1>6, DistanceIsLeast
  <2>3. Distance(key, n) <= Clockwise(key, p)
    BY <1>1, <1>6, DistanceIsLeast
  <2>4. Clockwise(key, p) <= Clockwise(key, r) /\ Clockwise(key, r) \in Nat
    BY <1>2, <1>5, <1>6, <1>8, <2>1, <2>2
  <2> QED
    BY <1>6, <1>8, <2>2, <2>3, <2>4
<1>10. \A m \in Owners \ Range(found) : m # n => Distance(key, m) > Clockwise(key, p)
  <2> SUFFICES ASSUME NEW m \in Owners \ Range(found), m # n
               PROVE  Distance(key, m) > Clockwise(key, p)
    OBVIOUS
  <2>1. Distance(key, m) >= Clockwise(key, at)
    BY <1>3, <1>8
  <2>2. PICK r \in Owned(m) : Distance(key, m) = Clockwise(key, r)
    BY <1>1, DistanceIsLeast
  <2>3. r \in SortedHashes /\ r \in Positions /\ r # p
    BY <1>2, <1>6, <2>2 DEF Owned
  <2>4. Clockwise(key, r) # Clockwise(key, p)
    BY <1>1, <1>6, <2>3, ClockwiseOrder
  <2> QED
    BY <1>5, <1>8, <2>1, <2>2, <2>3, <2>4
<1>11. /\ Len(found') <= count
       /\ \A i \in DOMAIN found' : found'[i] \in Owners
       /\ Range(found') = Range(found) \cup {n}
       /\ \A i, j \in DOMAIN found' : i < j => Distance(key, found'[i]) < Distance(key, found'[j])
       /\ \A i \in DOMAIN found', m \in Owners \ Range(found') :
            Distance(key, found'[i]) < Distance(key, m)
  <2>1. /\ \A i \in DOMAIN found : found[i] \in Owners /\ found[i] \in Range(found)
        /\ \A i, j \in DOMAIN found : i < j => Distance(key, found[i]) < Distance(key, found[j])
        /\ \A i \in DOMAIN found, m \in Owners \ Range(found) :
             Distance(key, found[i]) < Distance(key, m)
    BY <1>1 DEF WalkInv, Range
  <2>2. CASE n \in Range(found)
    BY <1>1, <1>7, <2>1, <2>2
  <2>3. CASE n \notin Range(found)
    <3>1. /\ Len(found') = Len(found) + 1 /\ DOMAIN found' = 1..(Len(found) + 1)
          /\ DOMAIN found = 1..Len(found) /\ Len(found) \in Nat
          /\ \A i \in DOMAIN found : found'[i] = found[i]
          /\ found'[Len(found) + 1] = n
      BY <1>1, <1>6, <1>7, <2>3 DEF Owners
    <3>2. Range(found') = Range(found) \cup {n}
      BY <3>1 DEF Range
    <3>3. \A i \in DOMAIN found : Distance(key, found[i]) < Distance(key, n)
      BY <1>6, <2>1, <2>3
    <3>4. \A i, j \in DOMAIN found' : i < j => Distance(key, found'[i]) < Distance(key, found'[j])
      BY <2>1, <3>1, <3>3
    <3>5. \A m \in Owners \ Range(found') : Distance(key, n) < Distance(key, m)
      BY <1>6, <1>8, <1>9, <1>10, <2>3, <3>2
    <3>6. \A i \in DOMAIN found', m \in Owners \ Range(found') :
            Distance(key, found'[i]) < Distance(key, m)
      BY <2>1, <3>1, <3>2, <3>5
    <3> QED
      BY <1>1, <1>6, <2>1, <3>1, <3>2, <3>4, <3>6
  <2> QED
    BY <2>2, <2>3
<1>12. \/ Complete'
       \/ /\ Clockwise(key, at') > Clockwise(key, at)
          /\ \A m \in Owners : m \in Range(found') <=> Distance(key, m) < Clockwise(key, at')
  <2>1. CASE \E r \in SortedHashes : Clockwise(key, r) > Clockwise(key, p)
    <3>1. /\ Clockwise(key, at') > Clockwise(key, p)
          /\ \A r \in SortedHashes :
               Clockwise(key, r) > Clockwise(key, p) => Clockwise(key, at') <= Clockwise(key, r)
      BY <1>1, <1>5, <1>7, <2>1, AfterClockwise
    <3>2. Clockwise(key, at') \in Nat
      <4>1. at' \in Positions
      BY RingStep DEF Next, RingInv, TypeOK
    <4> QED
      BY <1>1, <4>1, ClockwiseOrder
    <3>3. ASSUME NEW m \in Owners
          PROVE  m \in Range(found') <=> Distance(key, m) < Clockwise(key, at')
      <4>1. CASE m \in Range(found)
        BY <1>3, <1>5, <1>8, <1>11, <3>1, <3>2, <4>1
      <4>2. CASE m = n /\ m \notin Range(found)
        BY <1>8, <1>9, <1>11, <3>1, <3>2, <4>2
      <4>3. CASE m # n /\ m \notin Range(found)
        <5>1. PICK r \in Owned(m) : Distance(key, m) = Clockwise(key, r)
          BY <1>1, DistanceIsLeast
        <5>2. r \in SortedHashes /\ Clockwise(key, r) > Clockwise(key, p)
          BY <1>2, <1>10, <4>3, <5>1
        <5> QED
          BY <1>8, <1>11, <3>1, <3>2, <4>3, <5>1, <5>2
      <4> QED
        BY <4>1, <4>2, <4>3
    <3> QED
      BY <1>5, <1>8, <3>1, <3>2, <3>3
  <2>2. CASE \A r \in SortedHashes : ~(Clockwise(key, r) > Clockwise(key, p))
    <3>1. ASSUME NEW m \in Owners PROVE m \in Range(found) \cup {n}
      <4>1. PICK r \in Owned(m) : Distance(key, m) = Clockwise(key, r)
        BY <1>1, DistanceIsLeast
      <4> QED
        BY <1>2, <1>10, <2>2, <4>1
    <3>2. n \notin Range(found)
      BY <1>1, <3>1, AllFound
    <3>3. Range(found) = Owners \ {n}
      BY <1>1, <3>1, <3>2 DEF WalkInv, Range
    <3>4. Len(found) = Cardinality(Owners) - 1
      BY <1>1, <1>6, <3>3, FoundIsCounted, OwnersAreMany, FS_RemoveElement
    <3>5. Len(found') = Len(found) + 1 /\ Len(found) \in Nat
      BY <1>1, <1>6, <1>7, <3>2 DEF Owners
    <3>6. count <= Cardinality(Members)
      BY <1>1 DEF WalkInv
    <3>7. Len(found') >= count
      BY <1>1, <3>4, <3>5, <3>6, OwnersAreMany
    <3> QED
      BY <1>1, <3>7 DEF Complete
  <2> QED
    BY <2>1, <2>2
<1>13. Owners' = Owners /\ Members' = Members
       /\ \A m : Distance(key, m)' = Distance(key, m')
       /\ Clockwise(key, at)' = Clockwise(key, at') /\ Range(found)' = Range(found')
  BY <1>1 DEF Owners, Owned, Members, Distance, Clockwise, Range
<1>14. count <= Cardinality(Members)
  BY <1>1 DEF WalkInv
<1>15. WalkInv'
  BY <1>1, <1>11, <1>12, <1>13, <1>14 DEF WalkInv
<1> QED
  BY <1>12, <1>15

LEMMA WalkStep == RingInv /\ WalkInv /\ [Next]_vars => WalkInv'
<1> SUFFICES ASSUME RingInv, WalkInv, [Next]_vars PROVE WalkInv'
  OBVIOUS
<1>1. ASSUME ~walking' PROVE WalkInv'
  BY <1>1 DEF WalkInv
<1>2. CASE \E n \in Nodes, g \in 0..MaxWeight : AddNode(n, g)
  BY <1>1, <1>2 DEF AddNode, walk
<1>3. CASE \E n \in Nodes : RemoveNode(n)
  BY <1>1, <1>3 DEF RemoveNode, walk
<1>4. ASSUME NEW k \in Positions, NEW c \in 1..MaxCount, GetNodes(k, c) PROVE WalkInv'
  <2>1. /\ Members # {} /\ Members' = Members /\ Owners' = Owners
        /\ found' = <<>> /\ key' = k /\ at' = k /\ c \in Nat \ {0}
        /\ count' = IF c > Cardinality(Members) THEN Cardinality(Members) ELSE c
        /\ \A m : Distance(k, m)' = Distance(k, m)
    BY <1>4 DEF GetNodes, Members, Owners, Owned, Distance
  <2>2. Cardinality(Members) \in Nat \ {0}
    BY <2>1, MembersOwnPoints, FS_EmptySet
  <2>3. count' \in Nat \ {0} /\ count' <= Cardinality(Members')
    BY <2>1, <2>2
  <2>4. \A m \in Owners : ~(Distance(k, m) < Clockwise(k, k))
    BY DistanceIsLeast, ClockwiseOrder
  <2>5. Len(found') = 0 /\ DOMAIN found' = {} /\ Range(found)' = {}
    BY <2>1 DEF Range
  <2>6. \A m \in Owners' : ~(Distance(key, m)' < Clockwise(key, at)')
    <3>1. ring' = ring /\ Clockwise(key, at)' = Clockwise(k, k)
      BY <1>4, <2>1 DEF GetNodes, Clockwise
    <3>2. \A m : Owned(m)' = Owned(m) /\ \A q : Clockwise(key, q)' = Clockwise(k, q)
      BY <2>1, <3>1 DEF Owned, Clockwise
    <3>3. \A m : Distance(key, m)' = Distance(k, m)
      BY <3>2 DEF Distance
    <3> QED
      BY <2>1, <2>4, <3>1, <3>3
  <2> QED
    BY <2>3, <2>5, <2>6 DEF WalkInv
<1>5. CASE Visit
  BY <1>5, VisitStep
<1>6. CASE Return
  BY <1>1, <1>6 DEF Return
<1>7. CASE UNCHANGED vars
  BY <1>7 DEF vars, walk, WalkInv, Owners, Owned, Members, Distance, Clockwise, Range, Complete
<1> QED
  BY <1>2, <1>3, <1>4, <1>5, <1>6, <1>7 DEF Next

THEOREM WalkInvariant == Spec => [](RingInv /\ WalkInv)
<1>1. Init => WalkInv
  BY DEF Init, WalkInv
<1> QED
  BY <1>1, WalkStep, RingInvariant, PTL DEF Spec

(* GetNodes returns the replicas that the ring has for the key, nearest    *)
(* first (consistent_hash.go:103-140).                                     *)
THEOREM WalkFindsReplicas == Spec => []PreferenceList
<1>1. RingInv /\ WalkInv => PreferenceList
  <2> SUFFICES ASSUME RingInv, WalkInv, Complete PROVE PreferenceList
    BY DEF PreferenceList
  <2>1. /\ walking /\ Len(found) = count /\ count \in Nat \ {0}
        /\ key \in Positions /\ DOMAIN found = 1..count
        /\ \A i \in 1..count : found[i] \in Owners
        /\ \A i, j \in 1..count : i < j => Distance(key, found[i]) < Distance(key, found[j])
        /\ \A i \in 1..count, m \in Owners \ Range(found) :
             Distance(key, found[i]) < Distance(key, m)
    BY DEF WalkInv, Complete, RingInv, TypeOK
  <2>2. \A m \in Owners : Distance(key, m) \in Nat
    BY <2>1, DistanceIsLeast
  <2>3. Range(found) \subseteq Owners /\ \A i \in 1..count : found[i] \in Range(found)
    BY <2>1 DEF Range
  <2>4. IsFiniteSet(Range(found)) /\ Cardinality(Range(found)) = count
    BY <2>1, FoundIsCounted
  <2>5. ASSUME NEW m \in Owners
        PROVE  m \in Range(found) <=> Cardinality(Nearer(key, m)) < count
    <3>1. CASE m \in Range(found)
      <4>1. Nearer(key, m) \subseteq Range(found) \ {m}
        <5> SUFFICES ASSUME NEW x \in Owners, Distance(key, x) < Distance(key, m),
                            x \notin Range(found)
                     PROVE  FALSE
          BY <2>2 DEF Nearer
        <5>1. PICK i \in 1..count : found[i] = m
          BY <2>1, <3>1 DEF Range
        <5>2. Distance(key, m) < Distance(key, x)
          BY <2>1, <5>1
        <5> QED
          BY <2>2, <5>2
      <4>2. Cardinality(Range(found) \ {m}) = count - 1 /\ IsFiniteSet(Range(found) \ {m})
        BY <2>4, <3>1, FS_RemoveElement
      <4>3. Cardinality(Nearer(key, m)) <= count - 1
        BY <4>1, <4>2, FS_Subset
      <4> QED
        BY <2>1, <3>1, <4>3, NearerIsFinite
    <3>2. CASE m \notin Range(found)
      <4>1. Range(found) \subseteq Nearer(key, m)
        BY <2>1, <2>3, <3>2 DEF Range, Nearer
      <4>2. count <= Cardinality(Nearer(key, m))
        BY <2>4, <4>1, NearerIsFinite, FS_Subset
      <4> QED
        BY <2>1, <3>2, <4>2, NearerIsFinite
    <3> QED
      BY <3>1, <3>2
  <2>6. Range(found) = Replicas(key, count)
    BY <2>3, <2>5 DEF Replicas, Nearer, Owners
  <2>7. Owners \subseteq Members \cup shrunk
    <3>1. ASSUME NEW n \in Nodes, n \notin Members, n \notin shrunk PROVE Owned(n) = {}
      <4>1. weight[n] = 0 /\ Points(n, 0) = {}
        BY <3>1, PointsBelong DEF Members, RingInv, TypeOK
      <4> QED
        BY <3>1, <4>1 DEF RingInv, RingIsExact
    <3> QED
      BY <3>1 DEF Owners
  <2>8. ASSUME found[1] \in Members PROVE GetNode(key) = found[1]
    <3> DEFINE p == FindNextNode(key)
    <3>1. Members # {} /\ SortedHashes # {} /\ None \notin Nodes
      BY <2>8, MembersOwnPoints, RingAssumption
    <3>2. PICK q \in SortedHashes : TRUE
      BY <3>1
    <3>3. \A r \in SortedHashes : r \in Positions /\ Clockwise(key, r) \in Nat
                                  /\ Clockwise(key, r) >= Clockwise(key, key)
      BY <2>1, ClockwiseOrder DEF SortedHashes
    <3>4. p \in SortedHashes /\ \A r \in SortedHashes : Clockwise(key, p) <= Clockwise(key, r)
      BY <2>1, <3>2, <3>3, NextClockwise
    <3>5. ring[p] \in Owners /\ p \in Owned(ring[p])
      BY <3>4 DEF SortedHashes, Owners, Owned, RingInv, TypeOK
    <3>6. \A m \in Owners : Distance(key, ring[p]) <= Distance(key, m)
      <4> SUFFICES ASSUME NEW m \in Owners PROVE Distance(key, ring[p]) <= Distance(key, m)
        OBVIOUS
      <4>1. PICK r \in Owned(m) : Distance(key, m) = Clockwise(key, r)
        BY <2>1, DistanceIsLeast
      <4>2. r \in SortedHashes
        BY <3>1 DEF Owners, Owned, SortedHashes
      <4>3. Distance(key, ring[p]) <= Clockwise(key, p)
        BY <2>1, <3>5, DistanceIsLeast
      <4> QED
        BY <2>2, <3>3, <3>4, <3>5, <4>1, <4>2, <4>3
    <3>7. ring[p] = found[1]
      <4> SUFFICES ASSUME ring[p] # found[1] PROVE FALSE
        OBVIOUS
      <4>1. 1 \in 1..count /\ found[1] \in Owners
        BY <2>1
      <4>2. Distance(key, found[1]) < Distance(key, ring[p])
        <5>1. CASE ring[p] \in Range(found)
          <6>1. PICK i \in 1..count : found[i] = ring[p]
            BY <2>1, <5>1 DEF Range
          <6>2. 1 < i
            BY <2>1, <6>1
          <6> QED
            BY <2>1, <4>1, <6>1, <6>2
        <5>2. CASE ring[p] \notin Range(found)
          BY <2>1, <3>5, <4>1, <5>2
        <5> QED
          BY <5>1, <5>2
      <4> QED
        BY <2>2, <3>5, <3>6, <4>1, <4>2
    <3> QED
      BY <2>8, <3>1, <3>7 DEF GetNode
  <2> QED
    BY <2>1, <2>3, <2>6, <2>7, <2>8 DEF PreferenceList
<1> QED
  BY <1>1, WalkInvariant, PTL

(* No walk passes a point twice (consistent_hash.go:122-137).              *)
THEOREM WalkGoesRoundOnce == Spec => NoSecondRound
<1>1. RingInv /\ WalkInv /\ [Next]_vars =>
        [walking /\ walking' /\ at' # at =>
           Clockwise(key, at') > Clockwise(key, at) \/ Complete']_vars
  <2> SUFFICES ASSUME RingInv, WalkInv, [Next]_vars, walking, walking', at' # at
               PROVE  Clockwise(key, at') > Clockwise(key, at) \/ Complete'
    OBVIOUS
  <2>1. Visit
    BY DEF Next, AddNode, RemoveNode, GetNodes, Return, vars, walk
  <2> QED
    BY <2>1, VisitStep
<1> QED
  BY <1>1, WalkInvariant, PTL DEF Spec, NoSecondRound
=============================================================================

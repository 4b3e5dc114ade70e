--------------------------- MODULE ConsistentHash ---------------------------
(***************************************************************************)
(* internal/partition/consistent_hash.go: the ring of virtual nodes, the   *)
(* node of a key and the walk that collects the replicas of a key.         *)
(*                                                                         *)
(* Writers hold mu, readers share it: a membership change waits for the    *)
(* walk, and walks do not see each other, so one at a time is modelled.    *)
(*                                                                         *)
(* Abstractions.  A hash is a position on the ring.  SHA-256 is an         *)
(* arbitrary injective function of the virtual node, chosen in Init; a key *)
(* is only seen through its position and may meet a virtual node there.    *)
(* PartitionManager adds nothing: its partitions are always empty, and it  *)
(* asks GetNodes for as many nodes as its replication factor says.         *)
(***************************************************************************)
EXTENDS Integers, FiniteSets, Sequences, Functions

CONSTANTS
  Nodes,
  VirtualNodes,  \* virtual nodes per unit of weight (150)
  MaxWeight,     \* bound: no node is heavier
  RingSize,      \* positions of the ring (2^64)
  MaxCount,      \* bound: no more nodes are asked for
  None           \* no node

ASSUME RingAssumption ==
  /\ IsFiniteSet(Nodes) /\ None \notin Nodes
  /\ VirtualNodes \in Nat \ {0} /\ MaxWeight \in Nat \ {0}
  /\ RingSize \in Nat \ {0} /\ MaxCount \in Nat \ {0}

Positions == 0..(RingSize - 1)
VirtualKeys == Nodes \X (0..(VirtualNodes * MaxWeight - 1))

VARIABLES
  hash,    \* the position of every virtual node
  weight,  \* nodes: the weight of every member, 0 for the others
  ring,    \* the owner of every position, or None; positions are sorted
  walking, \* GetNodes is at work
  key,     \* the position of the key it is for
  at,      \* where it looks for the next virtual node
  count,   \* how many nodes it is to find
  found,   \* the nodes it has found, in order
  shrunk   \* history: nodes added again with a smaller weight than before

walk == <<walking, key, at, count, found>>
vars == <<hash, weight, ring, walk, shrunk>>

Members == {n \in Nodes : weight[n] # 0}
SortedHashesKept ==  \* mutant: the sorted hashes are not updated
  {hash[v] : v \in VirtualKeys}
SortedHashes == {p \in Positions : ring[p] # None}

TypeOK ==
  /\ hash \in Injection(VirtualKeys, Positions)
  /\ weight \in [Nodes -> 0..MaxWeight]
  /\ ring \in [Positions -> Nodes \cup {None}]
  /\ walking \in BOOLEAN
  /\ key \in Positions /\ at \in Positions
  /\ count \in 0..MaxCount
  /\ found \in Seq(Nodes)
  /\ shrunk \subseteq Nodes

Init ==
  /\ hash \in Injection(VirtualKeys, Positions)
  /\ weight = [n \in Nodes |-> 0]
  /\ ring = [p \in Positions |-> None]
  /\ walking = FALSE /\ key = 0 /\ at = 0 /\ count = 0 /\ found = <<>>
  /\ shrunk = {}

----------------------------------------------------------------------------
(* Membership.                                                             *)

PointsColliding(n, w) ==  \* mutant: all but the first virtual key forget the node
  LET any == CHOOSE m \in Nodes : TRUE
  IN  {hash[<<IF i = 0 THEN n ELSE any, i>>] : i \in 0..(VirtualNodes * w - 1)}

Points(n, w) == {hash[<<n, i>>] : i \in 0..(VirtualNodes * w - 1)}

(* A weight that is not positive counts as one.  The points of a member    *)
(* that is added again with a smaller weight stay on the ring.             *)
AddNode(n, givenWeight) ==
  LET w == IF givenWeight <= 0 THEN 1 ELSE givenWeight IN
  /\ ~walking
  /\ weight' = [weight EXCEPT ![n] = w]
  /\ ring' = [p \in Positions |-> IF p \in Points(n, w) THEN n ELSE ring[p]]
  /\ shrunk' = IF w < weight[n] THEN shrunk \cup {n} ELSE shrunk
  /\ UNCHANGED <<hash, walk>>

RemoveNodeUnweighted(n) ==  \* mutant: only the points of one unit of weight go
  /\ ~walking
  /\ n \in Members
  /\ weight' = [weight EXCEPT ![n] = 0]
  /\ ring' = [p \in Positions |-> IF p \in Points(n, 1) THEN None ELSE ring[p]]
  /\ UNCHANGED <<hash, walk, shrunk>>

RemoveNode(n) ==
  /\ ~walking
  /\ n \in Members
  /\ weight' = [weight EXCEPT ![n] = 0]
  /\ ring' = [p \in Positions |-> IF p \in Points(n, weight[n]) THEN None ELSE ring[p]]
  /\ UNCHANGED <<hash, walk, shrunk>>

----------------------------------------------------------------------------
(* Look-ups.                                                               *)

Least(S) == CHOOSE p \in S : \A q \in S : p <= q

FindNextNode(h) ==
  LET ahead == {p \in SortedHashes : p >= h}
  IN  Least(IF ahead = {} THEN SortedHashes ELSE ahead)

(* nil, for an error or for a point whose node is no member any more, is   *)
(* None.                                                                   *)
GetNode(k) ==
  LET owner == IF Members = {} THEN None ELSE ring[FindNextNode(k)]
  IN  IF owner \in Members THEN owner ELSE None

GetNodesUncapped(k, c) ==  \* mutant: more nodes are asked for than there are
  /\ ~walking
  /\ Members # {}
  /\ walking' = TRUE /\ key' = k /\ at' = k /\ found' = <<>> /\ count' = c
  /\ UNCHANGED <<hash, weight, ring, shrunk>>

GetNodes(k, c) ==
  /\ ~walking
  /\ Members # {}
  /\ walking' = TRUE /\ key' = k /\ at' = k /\ found' = <<>>
  /\ count' = IF c > Cardinality(Members) THEN Cardinality(Members) ELSE c
  /\ UNCHANGED <<hash, weight, ring, shrunk>>

Complete == walking /\ Len(found) >= count

VisitAgain ==  \* mutant: visited is not looked at
  LET p == FindNextNode(at) IN
  /\ walking /\ ~Complete
  /\ found' = Append(found, ring[p])
  /\ at' = FindNextNode(p + 1)
  /\ UNCHANGED <<hash, weight, ring, walking, key, count, shrunk>>

(* One turn of the loop; the position after the last one is the first.     *)
Visit ==
  LET p == FindNextNode(at) IN
  /\ walking /\ ~Complete
  /\ found' = IF ring[p] \in Range(found) THEN found ELSE Append(found, ring[p])
  /\ at' = FindNextNode(p + 1)
  /\ UNCHANGED <<hash, weight, ring, walking, key, count, shrunk>>

Return ==
  /\ Complete
  /\ walking' = FALSE /\ key' = 0 /\ at' = 0 /\ count' = 0 /\ found' = <<>>
  /\ UNCHANGED <<hash, weight, ring, shrunk>>

Next ==
  \/ \E n \in Nodes, w \in 0..MaxWeight : AddNode(n, w)
  \/ \E n \in Nodes : RemoveNode(n)
  \/ \E k \in Positions, c \in 1..MaxCount : GetNodes(k, c)
  \/ Visit \/ Return

Spec == Init /\ [][Next]_vars

----------------------------------------------------------------------------
(* Properties.                                                             *)

Owned(n) == {p \in Positions : ring[p] = n}

(* The ring has the points of every member and no others: whatever is      *)
(* added, added again and removed, only the nodes whose weight was once    *)
(* lowered leave points behind, and nobody takes the points of another.    *)
RingIsExact ==
  \A n \in Nodes :
    /\ Points(n, weight[n]) \subseteq Owned(n)
    /\ n \notin shrunk => Owned(n) = Points(n, weight[n])

(* How far position p, and the first point of n, are clockwise from k.     *)
Clockwise(k, p) == IF p >= k THEN p - k ELSE p - k + RingSize
Distance(k, n) == Least({Clockwise(k, p) : p \in Owned(n)})
Owners == {n \in Nodes : Owned(n) # {}}
Replicas(k, c) ==
  {n \in Owners : Cardinality({m \in Owners : Distance(k, m) < Distance(k, n)}) < c}

(* GetNodes ends with as many different nodes as it was asked for or there *)
(* are, the nearest ones clockwise from the key and in that order, the     *)
(* first of them the node of the key; none is unknown but by a lowered     *)
(* weight.                                                                 *)
PreferenceList ==
  Complete =>
    /\ Len(found) = count /\ Range(found) = Replicas(key, count)
    /\ \A i, j \in 1..count :
         i < j => Distance(key, found[i]) < Distance(key, found[j])
    /\ Range(found) \subseteq Members \cup shrunk
    /\ found[1] \in Members => GetNode(key) = found[1]

(* Adding a node moves keys to it and to nobody else; removing one moves   *)
(* its keys and nobody else's: for the first node and for all replicas.    *)
MinimalMovement ==
  [][\A n \in Nodes \ shrunk, k \in Positions :
       /\ n \notin Members /\ n \in Members' =>
            /\ GetNode(k)' \in {GetNode(k), n}
            /\ \A c \in 1..MaxCount : Replicas(k, c)' \subseteq Replicas(k, c) \cup {n}
       /\ n \in Members /\ n \notin Members' =>
            /\ GetNode(k) # n => GetNode(k)' = GetNode(k)
            /\ \A c \in 1..MaxCount : Replicas(k, c) \ {n} \subseteq Replicas(k, c)']_vars

(* No walk goes round the ring twice: a turn that does not go further      *)
(* clockwise from the key finds the last node.  So every walk ends, wherever *)
(* it starts and however many points of one node follow each other.        *)
NoSecondRound ==
  [][walking /\ walking' /\ at' # at =>
       Clockwise(key, at') > Clockwise(key, at) \/ Complete']_vars
=============================================================================

------------------------ MODULE HintedHandoffProofs ------------------------
(* The hint lists of HintedHandoff for any writes, nodes, deliveries and   *)
(* bounds: types, the cap, no hint overstays, and the lists are a HintPool.*)
EXTENDS HintedHandoff, FiniteSetTheorems, TLAPS

----------------------------------------------------------------------------
(* Taking elements out of a list.                                          *)

Rank(K, j) == Cardinality({m \in K : m <= j})

LEMMA UpTo ==
  ASSUME NEW n \in Nat
  PROVE  IsFiniteSet(1..n) /\ Cardinality(1..n) = n
BY FS_Interval

(* In a finite set of numbers each rank is taken once.                     *)
LEMMA Ranks ==
  ASSUME NEW n \in Nat, NEW K \in SUBSET (1..n)
  PROVE  /\ IsFiniteSet(K) /\ Cardinality(K) \in Nat /\ Cardinality(K) <= n
         /\ Cardinality(K) = n => K = 1..n
         /\ \A j \in K : Rank(K, j) \in 1..Cardinality(K)
         /\ \A j, l \in K : Rank(K, j) = Rank(K, l) => j = l
         /\ \A i \in 1..Cardinality(K) : \E j \in K : Rank(K, j) = i
<1>1. IsFiniteSet(1..n) /\ Cardinality(1..n) = n
  BY FS_Interval
<1>2. /\ IsFiniteSet(K) /\ Cardinality(K) \in Nat /\ Cardinality(K) <= n
      /\ Cardinality(K) = n => K = 1..n
  BY <1>1, FS_Subset, FS_CardinalityType
<1>0. \A m \in K : m \in Nat
  OBVIOUS
<1> DEFINE upTo(j) == {m \in K : m <= j}
<1>3. \A j \in K : IsFiniteSet(upTo(j)) /\ Rank(K, j) \in Nat /\ Rank(K, j) <= Cardinality(K)
  BY <1>2, FS_Subset, FS_CardinalityType DEF Rank
<1>4. \A j \in K : Rank(K, j) # 0
  <2>1. \A j \in K : j \in upTo(j)
    OBVIOUS
  <2> QED
    BY <1>3, <2>1, FS_EmptySet DEF Rank
<1>5. ASSUME NEW j \in K, NEW l \in K, Rank(K, j) = Rank(K, l) PROVE j = l
  <2>1. ASSUME NEW a \in K, NEW b \in K, a < b, Rank(K, a) = Rank(K, b) PROVE FALSE
    <3>1. upTo(a) \in SUBSET upTo(b)
      <4>1. ASSUME NEW m \in K, m <= a PROVE m <= b
        BY <1>0, <2>1, <4>1
      <4> QED
        BY <4>1
    <3>2. upTo(a) = upTo(b)
      BY <1>3, <2>1, <3>1, FS_Subset DEF Rank
    <3>3. b \in upTo(b) /\ b \notin upTo(a)
      BY <1>0, <2>1
    <3> QED
      BY <3>2, <3>3
  <2> QED
    BY <1>0, <1>5, <2>1
<1>6. \A j \in K : Rank(K, j) \in 1..Cardinality(K)
  <2> TAKE j \in K
  <2>1. Rank(K, j) \in Nat /\ Rank(K, j) # 0 /\ Rank(K, j) <= Cardinality(K)
    BY <1>3, <1>4
  <2> QED
    BY <1>2, <2>1
<1>7. \A i \in 1..Cardinality(K) : \E j \in K : Rank(K, j) = i
  <2> DEFINE f == [j \in K |-> Rank(K, j)]
             C == 1..Cardinality(K)
  <2>1. f \in Injection(K, C)
    BY <1>5, <1>6 DEF Injection, IsInjective
  <2>2. IsFiniteSet(C) /\ Cardinality(C) = Cardinality(K)
    BY <1>2, UpTo
  <2>3. f \in Surjection(K, C)
    BY <2>1, <2>2, FS_Injection
  <2> QED
    BY <2>3 DEF Surjection
<1> QED
  BY <1>2, <1>5, <1>6, <1>7

(* Without keeps every element that is not to go, once, and nothing else;  *)
(* a list that does not get shorter stays as it is.                        *)
LEMMA WithoutList ==
  ASSUME NEW S, NEW list \in Seq(S), NEW gone
  PROVE  /\ Without(list, gone) \in Seq(S)
         /\ ToSet(Without(list, gone)) = {list[i] : i \in DOMAIN list \ gone}
         /\ Len(Without(list, gone)) <= Len(list)
         /\ Len(Without(list, gone)) = Len(list) => Without(list, gone) = list
         /\ IsInjective(list) => IsInjective(Without(list, gone))
<1> DEFINE n == Len(list)
           K == DOMAIN list \ gone
           C == Cardinality(K)
           nth(i) == CHOOSE j \in K : Rank(K, j) = i
           w == Without(list, gone)
<1>1. n \in Nat /\ DOMAIN list = 1..n /\ K \in SUBSET (1..n)
  OBVIOUS
<1>2. /\ C \in Nat /\ C <= n /\ (C = n => K = 1..n)
      /\ \A j \in K : Rank(K, j) \in 1..C
      /\ \A j, l \in K : Rank(K, j) = Rank(K, l) => j = l
      /\ \A i \in 1..C : \E j \in K : Rank(K, j) = i
  BY <1>1, Ranks
<1>3. w = [i \in 1..C |-> list[nth(i)]]
  BY DEF Without, Rank
<1>4. \A i \in 1..C : nth(i) \in K /\ Rank(K, nth(i)) = i
  BY <1>2
<1>5. \A j \in K : nth(Rank(K, j)) = j
  BY <1>2
<1> HIDE DEF nth
<1>6. w \in Seq(S) /\ Len(w) = C /\ DOMAIN w = 1..C
  <2>1. \A i \in 1..C : list[nth(i)] \in S
    BY <1>1, <1>4
  <2> HIDE DEF C
  <2>2. [i \in 1..C |-> list[nth(i)]] \in Seq(S) /\ Len([i \in 1..C |-> list[nth(i)]]) = C
    BY <1>2, <2>1
  <2> QED
    BY <1>3, <2>2
<1>7. ToSet(w) = {list[i] : i \in K}
  <2>1. ASSUME NEW i \in 1..C PROVE w[i] = list[nth(i)] /\ nth(i) \in K
    BY <1>3, <1>4
  <2>2. ASSUME NEW j \in K PROVE Rank(K, j) \in 1..C /\ w[Rank(K, j)] = list[j]
    BY <1>2, <1>3, <1>5
  <2> HIDE DEF w, K, C
  <2> QED
    BY <1>6, <2>1, <2>2 DEF ToSet
<1>8. ASSUME C = n PROVE w = list
  <2>1. K = 1..n
    BY <1>2, <1>8
  <2>2. ASSUME NEW i \in 1..n PROVE nth(i) = i
    <3>1. {m \in K : m <= i} = 1..i
      BY <2>1
    <3>2. Cardinality(1..i) = i
      BY <1>1, UpTo
    <3>3. Rank(K, i) = i
      BY <3>1, <3>2 DEF Rank
    <3> QED
      BY <1>5, <2>1, <3>3
  <2>3. w = [i \in 1..n |-> list[i]]
    BY <1>3, <1>8, <2>2
  <2> QED
    BY <1>1, <2>3
<1>9. ASSUME IsInjective(list) PROVE IsInjective(w)
  <2> SUFFICES ASSUME NEW a \in 1..C, NEW b \in 1..C, w[a] = w[b] PROVE a = b
    BY <1>6 DEF IsInjective
  <2>1. list[nth(a)] = list[nth(b)] /\ nth(a) \in DOMAIN list /\ nth(b) \in DOMAIN list
    BY <1>3, <1>4
  <2>2. nth(a) = nth(b)
    BY <1>9, <2>1 DEF IsInjective
  <2> QED
    BY <1>4, <2>2
<1> QED
  BY <1>2, <1>6, <1>7, <1>8, <1>9

----------------------------------------------------------------------------
(* Counting hints.                                                         *)

Slots(lists) == UNION {{n} \X DOMAIN lists[n] : n \in Nodes}
Listed(lists) == UNION {ToSet(lists[n]) : n \in Nodes}

LEMMA SlotIs ==
  ASSUME NEW lists, NEW s
  PROVE  s \in Slots(lists) <=> \E n \in Nodes : \E i \in DOMAIN lists[n] : s = <<n, i>>
BY DEF Slots

LEMMA CountIs ==
  /\ TotalHintCount = Cardinality(Slots(hints)) /\ Pending = Listed(hints)
  /\ TotalHintCount' = Cardinality(Slots(hints')) /\ Pending' = Listed(hints')
BY DEF TotalHintCount, Slots, Pending, Listed

(* Lists for finitely many nodes have finitely many slots.                 *)
LEMMA SlotsFinite ==
  ASSUME NEW lists \in [Nodes -> Seq(Hints)]
  PROVE  IsFiniteSet(Slots(lists)) /\ Cardinality(Slots(lists)) \in Nat
<1> DEFINE f == [n \in Nodes |-> {n} \X DOMAIN lists[n]]
           T == {f[n] : n \in Nodes}
<1>1. IsFiniteSet(Nodes)
  BY HandoffAssumption
<1>2. IsFiniteSet(T)
  <2>1. f \in Surjection(Nodes, T)
    BY DEF Surjection
  <2> QED
    BY <1>1, <2>1, FS_Surjection
<1>3. \A n \in Nodes : IsFiniteSet(f[n])
  <2> TAKE n \in Nodes
  <2>1. Len(lists[n]) \in Nat /\ DOMAIN lists[n] = 1..Len(lists[n])
    OBVIOUS
  <2>2. IsFiniteSet(DOMAIN lists[n])
    BY <2>1, UpTo
  <2>3. IsFiniteSet({n})
    BY FS_Singleton
  <2> QED
    BY <2>2, <2>3, FS_Product
<1>4. IsFiniteSet(UNION T)
  BY <1>2, <1>3, FS_UNION
<1>5. UNION T = Slots(lists)
  BY DEF Slots
<1> QED
  BY <1>4, <1>5, FS_CardinalityType

(* Shorter lists have fewer slots.                                         *)
LEMMA ShorterLists ==
  ASSUME NEW lists \in [Nodes -> Seq(Hints)], NEW shorter \in [Nodes -> Seq(Hints)],
         \A n \in Nodes : Len(shorter[n]) <= Len(lists[n])
  PROVE  Cardinality(Slots(shorter)) <= Cardinality(Slots(lists))
<1>1. \A n \in Nodes : /\ Len(lists[n]) \in Nat /\ DOMAIN lists[n] = 1..Len(lists[n])
                       /\ Len(shorter[n]) \in Nat /\ DOMAIN shorter[n] = 1..Len(shorter[n])
  OBVIOUS
<1>2. \A n \in Nodes : DOMAIN shorter[n] \subseteq DOMAIN lists[n]
  BY <1>1
<1>3. Slots(shorter) \in SUBSET Slots(lists)
  BY <1>2 DEF Slots
<1> QED
  BY <1>3, SlotsFinite, FS_Subset

(* When no hint is listed twice, there are as many hints as slots.         *)
LEMMA OneSlotPerHint ==
  ASSUME NEW lists \in [Nodes -> Seq(Hints)],
         \A n \in Nodes : IsInjective(lists[n]) /\ \A h \in ToSet(lists[n]) : h[2] = n
  PROVE  IsFiniteSet(Listed(lists)) /\ Cardinality(Listed(lists)) = Cardinality(Slots(lists))
<1> DEFINE S == Slots(lists)
           f == [s \in S |-> lists[s[1]][s[2]]]
<1>1. \A n \in Nodes : \A i \in DOMAIN lists[n] : /\ <<n, i>> \in S
                                                  /\ f[<<n, i>>] = lists[n][i]
                                                  /\ lists[n][i] \in ToSet(lists[n])
  BY DEF Slots, ToSet
<1>0. f \in [S -> {f[s] : s \in S}]
  OBVIOUS
<1> HIDE DEF f
<1>2. f \in Surjection(S, Listed(lists))
  <2>1. \A s \in S : f[s] \in Listed(lists)
    <3> TAKE s \in S
    <3>1. PICK n \in Nodes : \E i \in DOMAIN lists[n] : s = <<n, i>>
      BY SlotIs
    <3>2. PICK i \in DOMAIN lists[n] : s = <<n, i>>
      BY <3>1
    <3>3. f[s] = lists[n][i] /\ lists[n][i] \in ToSet(lists[n])
      BY <1>1, <3>2
    <3>4. ToSet(lists[n]) \subseteq Listed(lists)
      BY DEF Listed
    <3> QED
      BY <3>3, <3>4
  <2>2. \A h \in Listed(lists) : \E s \in S : f[s] = h
    <3> TAKE h \in Listed(lists)
    <3>1. PICK n \in Nodes : h \in ToSet(lists[n])
      BY DEF Listed
    <3>2. PICK i \in DOMAIN lists[n] : h = lists[n][i]
      BY <3>1 DEF ToSet
    <3> QED
      BY <1>1, <3>2
  <2> QED
    BY <1>0, <2>1, <2>2 DEF Surjection
<1>3. f \in Injection(S, Listed(lists))
  <2>1. ASSUME NEW s \in S, NEW t \in S, f[s] = f[t] PROVE s = t
    <3>1. PICK n \in Nodes : \E i \in DOMAIN lists[n] : s = <<n, i>>
      BY SlotIs
    <3>2. PICK i \in DOMAIN lists[n] : s = <<n, i>>
      BY <3>1
    <3>3. PICK m \in Nodes : \E j \in DOMAIN lists[m] : t = <<m, j>>
      BY SlotIs
    <3>4. PICK j \in DOMAIN lists[m] : t = <<m, j>>
      BY <3>3
    <3>5. lists[n][i] = lists[m][j] /\ n = m
      BY <1>1, <2>1, <3>2, <3>4
    <3> QED
      BY <3>2, <3>4, <3>5 DEF IsInjective
  <2> QED
    BY <1>2, <2>1 DEF Injection, Surjection, IsInjective
<1> QED
  BY <1>2, <1>3, SlotsFinite, FS_Surjection

----------------------------------------------------------------------------
(* Storing.                                                                *)

LEMMA FailedIs ==
  ASSUME NEW failed \in FailedLists
  PROVE  failed \in Seq(Nodes) /\ IsInjective(failed) /\ ToSet(failed) \subseteq Nodes
<1>1. PICK s \in SUBSET Nodes : failed \in SetToSeqs(s)
  BY DEF FailedLists, SetToAllKPermutations
<1>2. IsFiniteSet(s) /\ Cardinality(s) \in Nat
  BY HandoffAssumption, FS_Subset, FS_CardinalityType
<1> DEFINE c == Cardinality(s)
<1>3. failed \in [1..c -> s] /\ \A i, j \in 1..c : i # j => failed[i] # failed[j]
  BY <1>1 DEF SetToSeqs
<1> HIDE DEF c
<1>4. c \in Nat
  BY <1>2 DEF c
<1>5. failed \in Seq(Nodes)
  BY <1>3, <1>4
<1>6. DOMAIN failed = 1..c
  BY <1>3
<1> QED
  BY <1>3, <1>5, <1>6 DEF IsInjective, ToSet

(* No hint is listed twice or unknown.                                     *)
ListsOK ==
  \A n \in Nodes : IsInjective(hints[n]) /\ ToSet(hints[n]) \subseteq stored

(* StoreHint adds some of the fresh hints, all of them or up to the cap.   *)
LEMMA Stored ==
  ASSUME TypeOK, ListsOK, NEW w \in Writes, NEW failed \in FailedLists,
         StoreHint(w, failed)
  PROVE  LET fresh == {w} \X ToSet(failed) IN
         /\ fresh \subseteq Hints /\ fresh \cap (stored \cup dropped) = {}
         /\ \E kept \in SUBSET fresh :
              /\ hints' = [n \in Nodes |->
                   IF <<w, n>> \in kept THEN Append(hints[n], <<w, n>>) ELSE hints[n]]
              /\ stored' = stored \cup kept
              /\ dropped' = dropped \cup (fresh \ kept)
              /\ IsFiniteSet(kept)
              /\ Cardinality(kept) <= MaxHints - TotalHintCount
              /\ kept = fresh \/ Cardinality(kept) = MaxHints - TotalHintCount
<1> DEFINE fresh == {w} \X ToSet(failed)
           room == MaxHints - TotalHintCount
           J == {j \in DOMAIN failed : j <= room}
           kept == {<<w, failed[i]>> : i \in J}
           f == [i \in J |-> <<w, failed[i]>>]
<1>1. failed \in Seq(Nodes) /\ IsInjective(failed) /\ ToSet(failed) \subseteq Nodes
  BY FailedIs
<1>2. fresh \subseteq Hints /\ fresh \cap (stored \cup dropped) = {}
  BY <1>1 DEF StoreHint, Hints
<1>3. room \in Nat
  <2>1. TotalHintCount \in Nat
    <3>1. hints \in [Nodes -> Seq(Hints)]
      BY DEF TypeOK
    <3> QED
      BY <3>1, SlotsFinite, CountIs
  <2>2. TotalHintCount <= MaxHints /\ MaxHints \in Nat
    BY HandoffAssumption DEF TypeOK
  <2> QED
    BY <2>1, <2>2
<1> HIDE DEF room
<1>4. DOMAIN failed = 1..Len(failed) /\ Len(failed) \in Nat
  BY <1>1
<1>5. /\ IsFiniteSet(J) /\ Cardinality(J) <= room
      /\ J = DOMAIN failed \/ Cardinality(J) = room
  <2>1. CASE Len(failed) <= room
    <3>1. J = 1..Len(failed)
      BY <1>3, <1>4, <2>1
    <3>2. IsFiniteSet(1..Len(failed)) /\ Cardinality(1..Len(failed)) = Len(failed)
      BY <1>4, UpTo
    <3>3. J = DOMAIN failed /\ IsFiniteSet(J)
      BY <1>4, <3>1, <3>2
    <3>4. Cardinality(J) = Len(failed)
      BY <3>1, <3>2
    <3> HIDE DEF J
    <3> QED
      BY <2>1, <3>3, <3>4
  <2>2. CASE ~(Len(failed) <= room)
    <3>1. J = 1..room
      BY <1>3, <1>4, <2>2
    <3>2. IsFiniteSet(1..room) /\ Cardinality(1..room) = room
      BY <1>3, UpTo
    <3> HIDE DEF J
    <3> QED
      BY <1>3, <3>1, <3>2
  <2> QED
    BY <2>1, <2>2
<1>6. f \in Surjection(J, kept) /\ f \in Injection(J, kept)
  <2>1. \A i, j \in J : f[i] = f[j] => i = j
    BY <1>1 DEF IsInjective
  <2> QED
    BY <2>1 DEF Surjection, Injection, IsInjective
<1>7. IsFiniteSet(kept) /\ Cardinality(kept) = Cardinality(J)
  BY <1>5, <1>6, FS_Surjection
<1>8. kept \in SUBSET fresh /\ (J = DOMAIN failed => kept = fresh)
  BY DEF ToSet
<1>9. /\ hints' = [n \in Nodes |->
           IF <<w, n>> \in kept THEN Append(hints[n], <<w, n>>) ELSE hints[n]]
      /\ stored' = stored \cup kept
      /\ dropped' = dropped \cup (fresh \ kept)
  BY DEF StoreHint, room
<1> HIDE DEF J, kept, fresh
<1>10. /\ Cardinality(kept) <= room
       /\ kept = fresh \/ Cardinality(kept) = room
  BY <1>5, <1>7, <1>8
<1> QED
  BY <1>2, <1>7, <1>8, <1>9, <1>10 DEF fresh, room

----------------------------------------------------------------------------
(* What happens to the lists: hints are stored, or lists shrink or stay.   *)

ListTypes ==
  /\ hints \in [Nodes -> Seq(Hints)]
  /\ \A n \in Nodes : \A h \in ToSet(hints[n]) : h[2] = n
  /\ TotalHintCount <= MaxHints

Shrinking ==
  /\ hints' \in [Nodes -> Seq(Hints)]
  /\ \A n \in Nodes :
       /\ ToSet(hints'[n]) \subseteq ToSet(hints[n])
       /\ Len(hints'[n]) <= Len(hints[n])
       /\ Len(hints'[n]) = Len(hints[n]) => hints'[n] = hints[n]
       /\ IsInjective(hints[n]) => IsInjective(hints'[n])

LEMMA NoChangeShrinks ==
  ASSUME TypeOK, UNCHANGED hints
  PROVE  Shrinking
BY DEF TypeOK, Shrinking

LEMMA EmptyList ==
  ASSUME NEW list \in Seq(Hints)
  PROVE  /\ <<>> \in Seq(Hints) /\ ToSet(<<>>) = {} /\ IsInjective(<<>>)
         /\ Len(<<>>) <= Len(list) /\ (Len(<<>>) = Len(list) => <<>> = list)
<1>1. ToSet(<<>>) = {} /\ IsInjective(<<>>)
  BY DEF ToSet, IsInjective
<1> QED
  BY <1>1

(* The set without a part of a list is a part of its set.                  *)
LEMMA WithoutShrinks ==
  ASSUME NEW list \in Seq(Hints), NEW gone
  PROVE  /\ Without(list, gone) \in Seq(Hints)
         /\ ToSet(Without(list, gone)) \subseteq ToSet(list)
         /\ Len(Without(list, gone)) <= Len(list)
         /\ Len(Without(list, gone)) = Len(list) => Without(list, gone) = list
         /\ IsInjective(list) => IsInjective(Without(list, gone))
<1>1. {list[i] : i \in DOMAIN list \ gone} \subseteq ToSet(list)
  BY DEF ToSet
<1> QED
  BY <1>1, WithoutList

LEMMA RemovalShrinks ==
  ASSUME TypeOK,
         \/ \E k \in Deliverers : RemoveDelivered(k)
         \/ ExpireHints
         \/ \E n \in Nodes : ClearHints(n)
         \/ ClearAllHints
  PROVE  Shrinking
<1>1. hints \in [Nodes -> Seq(Hints)] /\ target \in [Deliverers -> Nodes]
  BY DEF TypeOK
<1>2. ASSUME NEW k \in Deliverers, RemoveDelivered(k) PROVE Shrinking
  <2> DEFINE n == target[k]
             r == Removed(k)
  <2>1. n \in Nodes /\ hints' = [hints EXCEPT ![n] = Without(hints[n], r)]
    BY <1>1, <1>2 DEF RemoveDelivered
  <2> HIDE DEF n, r
  <2> QED
    BY <1>1, <2>1, WithoutShrinks DEF Shrinking
<1>3. ASSUME ExpireHints PROVE Shrinking
  <2> DEFINE r(n) == {i \in DOMAIN hints[n] : hints[n][i] \in old}
  <2>1. hints' = [n \in Nodes |-> Without(hints[n], r(n))]
    BY <1>3 DEF ExpireHints
  <2> HIDE DEF r
  <2> QED
    BY <1>1, <2>1, WithoutShrinks DEF Shrinking
<1>4. ASSUME NEW n \in Nodes, ClearHints(n) PROVE Shrinking
  <2>1. hints' = [hints EXCEPT ![n] = <<>>]
    BY <1>4 DEF ClearHints
  <2> QED
    BY <1>1, <2>1, EmptyList DEF Shrinking
<1>5. ASSUME ClearAllHints PROVE Shrinking
  <2>1. hints' = [n \in Nodes |-> <<>>]
    BY <1>5 DEF ClearAllHints
  <2> QED
    BY <1>1, <2>1, EmptyList DEF Shrinking
<1> QED
  BY <1>2, <1>3, <1>4, <1>5

LEMMA ShrunkLists ==
  ASSUME TypeOK, ListsOK, Shrinking, stored \subseteq stored'
  PROVE  ListTypes' /\ ListsOK'
<1>1. TotalHintCount' <= TotalHintCount /\ TotalHintCount \in Nat /\ TotalHintCount' \in Nat
  BY ShorterLists, SlotsFinite, CountIs DEF TypeOK, Shrinking
<1>2. TotalHintCount' <= MaxHints
  BY <1>1, HandoffAssumption DEF TypeOK
<1>3. ListsOK'
  BY DEF Shrinking, ListsOK
<1>4. \A n \in Nodes : \A h \in ToSet(hints'[n]) : h[2] = n
  BY DEF TypeOK, Shrinking
<1> QED
  BY <1>2, <1>3, <1>4 DEF ListTypes, Shrinking

(* An element at the end of a list.                                        *)
LEMMA AppendList ==
  ASSUME NEW list \in Seq(Hints), NEW h \in Hints
  PROVE  /\ Append(list, h) \in Seq(Hints)
         /\ Len(Append(list, h)) = Len(list) + 1
         /\ \A i \in DOMAIN list : i \in DOMAIN Append(list, h) /\ Append(list, h)[i] = list[i]
         /\ ToSet(Append(list, h)) = ToSet(list) \cup {h}
         /\ IsInjective(list) /\ h \notin ToSet(list) => IsInjective(Append(list, h))
<1> DEFINE l == Append(list, h)
           n == Len(list)
<1>1. n \in Nat /\ DOMAIN list = 1..n
  OBVIOUS
<1>2. l \in Seq(Hints) /\ Len(l) = n + 1 /\ DOMAIN l = 1..(n + 1)
  OBVIOUS
<1>3. l[n + 1] = h /\ \A i \in 1..n : l[i] = list[i]
  BY <1>1
<1> HIDE DEF l, n
<1>4. \A i \in 1..(n + 1) : i \in 1..n \/ i = n + 1
  BY <1>1
<1>5. n + 1 \in 1..(n + 1) /\ \A i \in 1..n : i \in 1..(n + 1)
  BY <1>1
<1>6. ToSet(l) = ToSet(list) \cup {h}
  BY <1>1, <1>2, <1>3, <1>4, <1>5 DEF ToSet
<1>7. ASSUME IsInjective(list), h \notin ToSet(list) PROVE IsInjective(l)
  <2>1. \A i \in 1..n : list[i] # h
    BY <1>1, <1>7 DEF ToSet
  <2>2. \A a, b \in 1..n : list[a] = list[b] => a = b
    BY <1>1, <1>7 DEF IsInjective
  <2>3. ASSUME NEW a \in 1..(n + 1), NEW b \in 1..(n + 1), l[a] = l[b] PROVE a = b
    BY <1>3, <1>4, <2>1, <2>2, <2>3
  <2> QED
    BY <1>2, <2>3 DEF IsInjective
<1> QED
  BY <1>1, <1>2, <1>3, <1>5, <1>6, <1>7 DEF l, n

LEMMA StoredLists ==
  ASSUME TypeOK, ListsOK, NEW w \in Writes, NEW failed \in FailedLists,
         StoreHint(w, failed)
  PROVE  /\ ListTypes' /\ ListsOK'
         /\ \A n \in Nodes :
              /\ Len(hints[n]) <= Len(hints'[n])
              /\ \A i \in DOMAIN hints[n] : i \in DOMAIN hints'[n] /\ hints'[n][i] = hints[n][i]
              /\ ToSet(hints'[n]) \subseteq ToSet(hints[n]) \cup (Hints \ stored)
         /\ Cardinality(Pending') <= MaxHints
         /\ \E kept \in SUBSET ({w} \X ToSet(failed)) :
              /\ Pending' = Pending \cup kept
              /\ stored' = stored \cup kept
              /\ dropped' = dropped \cup (({w} \X ToSet(failed)) \ kept)
              /\ kept = {w} \X ToSet(failed) \/ Cardinality(Pending') = MaxHints
<1> DEFINE fresh == {w} \X ToSet(failed)
<1>1. fresh \subseteq Hints /\ fresh \cap stored = {}
  BY Stored
<1>2. PICK kept \in SUBSET fresh :
        /\ hints' = [n \in Nodes |->
             IF <<w, n>> \in kept THEN Append(hints[n], <<w, n>>) ELSE hints[n]]
        /\ stored' = stored \cup kept
        /\ dropped' = dropped \cup (fresh \ kept)
        /\ IsFiniteSet(kept)
        /\ Cardinality(kept) <= MaxHints - TotalHintCount
        /\ kept = fresh \/ Cardinality(kept) = MaxHints - TotalHintCount
  BY Stored
<1>3. stored' = stored \cup kept
  BY <1>2
<1> HIDE DEF fresh
<1>4. ASSUME NEW n \in Nodes
      PROVE  /\ hints'[n] \in Seq(Hints)
             /\ ToSet(hints'[n]) = ToSet(hints[n]) \cup (kept \cap {<<w, n>>})
             /\ IsInjective(hints'[n])
             /\ Len(hints[n]) <= Len(hints'[n])
             /\ \A i \in DOMAIN hints[n] : i \in DOMAIN hints'[n] /\ hints'[n][i] = hints[n][i]
  <2>1. hints[n] \in Seq(Hints) /\ IsInjective(hints[n]) /\ ToSet(hints[n]) \subseteq stored
    BY DEF TypeOK, ListsOK
  <2>2. CASE <<w, n>> \in kept
    <3>1. <<w, n>> \in Hints \ stored
      BY <1>1, <1>2, <2>2
    <3>2. hints'[n] = Append(hints[n], <<w, n>>)
      BY <1>2, <2>2
    <3>3. Len(hints[n]) \in Nat
      BY <2>1
    <3> DEFINE h == <<w, n>>
               new == Append(hints[n], h)
    <3>4. h \in Hints /\ h \notin ToSet(hints[n]) /\ kept \cap {h} = {h}
      BY <2>1, <2>2, <3>1
    <3> HIDE DEF h
    <3>5. /\ new \in Seq(Hints) /\ Len(new) = Len(hints[n]) + 1
          /\ \A i \in DOMAIN hints[n] : i \in DOMAIN new /\ new[i] = hints[n][i]
          /\ ToSet(new) = ToSet(hints[n]) \cup {h}
          /\ IsInjective(new)
      BY <2>1, <3>4, AppendList
    <3>6. hints'[n] = new
      BY <3>2 DEF h
    <3> HIDE DEF new
    <3> QED
      BY <3>3, <3>4, <3>5, <3>6 DEF h
  <2>3. CASE <<w, n>> \notin kept
    <3>1. hints'[n] = hints[n]
      BY <1>2, <2>3
    <3>2. Len(hints[n]) \in Nat
      BY <2>1
    <3> QED
      BY <2>1, <2>3, <3>1, <3>2
  <2> QED
    BY <2>2, <2>3
<1>5. hints' \in [Nodes -> Seq(Hints)]
  BY <1>2, <1>4
<1>6. \A n \in Nodes : \A h \in ToSet(hints'[n]) : h[2] = n
  BY <1>4 DEF TypeOK
<1>7. ListsOK'
  BY <1>2, <1>3, <1>4 DEF ListsOK
<1>8. Pending' = Pending \cup kept
  <2>1. \A h \in kept : \E n \in Nodes : h = <<w, n>>
    BY <1>1, <1>2 DEF Hints, fresh
  <2>2. Listed(hints') = Listed(hints) \cup kept
    BY <1>4, <2>1 DEF Listed
  <2> QED
    BY <2>2, CountIs
<1>9. /\ IsFiniteSet(Pending) /\ Cardinality(Pending) = TotalHintCount
      /\ IsFiniteSet(Pending') /\ Cardinality(Pending') = TotalHintCount'
      /\ TotalHintCount \in Nat
  <2>1. hints \in [Nodes -> Seq(Hints)]
    BY DEF TypeOK
  <2>2. \A n \in Nodes : IsInjective(hints[n]) /\ \A h \in ToSet(hints[n]) : h[2] = n
    BY DEF TypeOK, ListsOK
  <2>3. \A n \in Nodes : IsInjective(hints'[n]) /\ \A h \in ToSet(hints'[n]) : h[2] = n
    BY <1>4, <1>6
  <2>4. IsFiniteSet(Pending) /\ Cardinality(Pending) = TotalHintCount
    BY <2>1, <2>2, OneSlotPerHint, CountIs
  <2>5. IsFiniteSet(Pending') /\ Cardinality(Pending') = TotalHintCount'
    BY <1>5, <2>3, OneSlotPerHint, CountIs
  <2> QED
    BY <2>1, <2>4, <2>5, SlotsFinite, CountIs
<1>10. Cardinality(Pending') = TotalHintCount + Cardinality(kept) /\ Cardinality(kept) \in Nat
  <2>1. Pending \cap kept = {}
    BY <1>1, <1>2 DEF Pending, ListsOK
  <2>2. Cardinality(Pending \cap kept) = 0
    BY <2>1, FS_EmptySet
  <2>3. Cardinality(kept) \in Nat
    BY <1>2, FS_CardinalityType
  <2>4. Cardinality(Pending \cup kept) = Cardinality(Pending) + Cardinality(kept) - Cardinality(Pending \cap kept)
    BY <1>2, <1>9, FS_Union
  <2> QED
    BY <1>8, <1>9, <2>2, <2>3, <2>4
<1>11. /\ Cardinality(Pending') <= MaxHints
       /\ kept = fresh \/ Cardinality(Pending') = MaxHints
  BY <1>2, <1>9, <1>10, HandoffAssumption
<1>12. ListTypes'
  BY <1>5, <1>6, <1>9, <1>11 DEF ListTypes
<1> QED
  BY <1>1, <1>2, <1>4, <1>7, <1>8, <1>11, <1>12 DEF fresh

----------------------------------------------------------------------------
(* The inductive invariant.                                                *)

DeliveryTypes ==
  /\ at \in [Deliverers -> Steps]
  /\ target \in [Deliverers -> Nodes]
  /\ copy \in [Deliverers -> Seq(Hints)]
  /\ next \in [Deliverers -> Nat \ {0}]
  /\ succeeded \in [Deliverers -> SUBSET Nat]
  /\ read \in [Deliverers -> Nat]
  /\ \A k \in Deliverers :
       /\ \A h \in ToSet(copy[k]) : h[2] = target[k]
       /\ next[k] <= Len(copy[k]) + 1
       /\ succeeded[k] \subseteq DOMAIN copy[k]

SetTypes ==
  /\ retries \in [Hints -> Nat]
  /\ old \subseteq Hints
  /\ unsafe \subseteq Nodes
  /\ stored \subseteq Hints
  /\ delivered \subseteq stored /\ dropped \subseteq Hints

LEMMA TypeParts == TypeOK <=> ListTypes /\ DeliveryTypes /\ SetTypes
BY DEF TypeOK, ListTypes, DeliveryTypes, SetTypes

(* A delivery is at a hint of its copy until it has sent them all, and     *)
(* what it counts as delivered is.                                         *)
DeliveryOK ==
  \A k \in Deliverers :
    /\ at[k] \in {"sending", "failing"} => next[k] \in DOMAIN copy[k]
    /\ ToSet(copy[k]) \subseteq stored
    /\ \A i \in succeeded[k] : copy[k][i] \in delivered

(* Only hints that were stored have been tried.                            *)
RetriesOK == \A h \in Hints \ stored : retries[h] = 0

(* Positions in a copy are positions in the list.                          *)
CopiesMatch ==
  \A k \in Deliverers : at[k] # "idle" /\ target[k] \notin unsafe =>
    \A i \in DOMAIN copy[k] : /\ i \in DOMAIN hints[target[k]]
                              /\ hints[target[k]][i] = copy[k][i]

HandoffInv == TypeOK /\ ListsOK /\ DeliveryOK /\ RetriesOK

(* The two ways in which lists change.                                     *)
LEMMA ListsStep ==
  ASSUME TypeOK, ListsOK, [Next]_vars
  PROVE  /\ ListTypes' /\ ListsOK' /\ stored \subseteq stored'
         /\ Shrinking \/ \E w \in Writes, failed \in FailedLists : StoreHint(w, failed)
<1>1. CASE \E w \in Writes, failed \in FailedLists : StoreHint(w, failed)
  <2>1. PICK w \in Writes, failed \in FailedLists : StoreHint(w, failed)
    BY <1>1
  <2>2. stored \subseteq stored'
    BY <2>1 DEF StoreHint
  <2>3. ListTypes' /\ ListsOK'
    BY <2>1, StoredLists
  <2> QED
    BY <1>1, <2>2, <2>3
<1>2. CASE \/ \E k \in Deliverers : RemoveDelivered(k)
           \/ ExpireHints
           \/ \E n \in Nodes : ClearHints(n)
           \/ ClearAllHints
  <2>1. stored \subseteq stored'
    BY <1>2 DEF RemoveDelivered, ExpireHints, ClearHints, ClearAllHints
  <2>2. Shrinking
    BY <1>2, RemovalShrinks
  <2> QED
    BY <2>1, <2>2, ShrunkLists
<1>3. CASE UNCHANGED <<hints, stored>>
  BY <1>3, NoChangeShrinks, ShrunkLists
<1>4. ASSUME NEW k \in Deliverers, Accepted(k) \/ Failed(k) \/ CountRetry(k)
      PROVE  UNCHANGED <<hints, stored>>
  BY <1>4 DEF Accepted, Failed, CountRetry, Advance, history
<1>5. ASSUME \/ \E k \in Deliverers, n \in Nodes : StartDelivery(k, n)
             \/ \E h \in Hints : GetOld(h)
             \/ UNCHANGED vars
      PROVE  UNCHANGED <<hints, stored>>
  BY <1>5 DEF StartDelivery, GetOld, vars, history
<1> QED
  BY <1>1, <1>2, <1>3, <1>4, <1>5 DEF Next, StoreOrDeliver, Deliver

(* The steps that no delivery takes.                                       *)
LEMMA OtherStep ==
  ASSUME HandoffInv, UNCHANGED <<retries, delivery, delivered>>,
         stored \subseteq stored', stored' \subseteq Hints,
         old' \subseteq Hints, unsafe' \subseteq Nodes, dropped' \subseteq Hints
  PROVE  DeliveryTypes' /\ SetTypes' /\ DeliveryOK' /\ RetriesOK'
<1>1. DeliveryTypes /\ SetTypes
  BY TypeParts DEF HandoffInv
<1>2. UNCHANGED <<at, target, copy, next, succeeded, read>>
  BY DEF delivery
<1>3. DeliveryTypes'
  BY <1>1, <1>2 DEF DeliveryTypes
<1>4. SetTypes'
  BY <1>1 DEF SetTypes
<1>5. DeliveryOK'
  BY <1>2 DEF HandoffInv, DeliveryOK
<1>6. RetriesOK'
  BY DEF HandoffInv, RetriesOK
<1> QED
  BY <1>3, <1>4, <1>5, <1>6

(* Where the loop of a delivery goes on.                                   *)
LEMMA Advances ==
  ASSUME DeliveryTypes, NEW k \in Deliverers, next[k] \in DOMAIN copy[k], Advance(k),
         UNCHANGED copy
  PROVE  /\ at' \in [Deliverers -> Steps] /\ next' \in [Deliverers -> Nat \ {0}]
         /\ next'[k] <= Len(copy[k]) + 1
         /\ at'[k] \in {"sending", "removing"}
         /\ at'[k] = "sending" => next'[k] \in DOMAIN copy[k]
         /\ \A j \in Deliverers \ {k} : at'[j] = at[j] /\ next'[j] = next[j]
<1> DEFINE n == Len(copy[k])
<1>1. n \in Nat /\ DOMAIN copy[k] = 1..n
  BY DEF DeliveryTypes
<1>2. next \in [Deliverers -> Nat \ {0}] /\ at \in [Deliverers -> Steps]
  BY DEF DeliveryTypes
<1>3. next[k] \in 1..n
  BY <1>1
<1>4. /\ next' = [next EXCEPT ![k] = next[k] + 1]
      /\ at' = [at EXCEPT ![k] = IF next[k] < n THEN "sending" ELSE "removing"]
  BY DEF Advance
<1> HIDE DEF n
<1>5. next[k] + 1 \in Nat \ {0} /\ next[k] + 1 <= n + 1
      /\ (next[k] < n => next[k] + 1 \in 1..n)
  BY <1>1, <1>3
<1>6. /\ at' \in [Deliverers -> Steps] /\ next' \in [Deliverers -> Nat \ {0}]
      /\ \A j \in Deliverers \ {k} : at'[j] = at[j] /\ next'[j] = next[j]
      /\ next'[k] = next[k] + 1
      /\ at'[k] = IF next[k] < n THEN "sending" ELSE "removing"
  BY <1>2, <1>4, <1>5 DEF Steps
<1> QED
  BY <1>1, <1>5, <1>6 DEF n

(* A delivery's step keeps what the invariant says of the other deliveries *)
(* and of its own.                                                         *)
LEMMA DeliveryStep ==
  ASSUME HandoffInv, NEW k \in Deliverers,
         Deliver(k) \/ \E n \in Nodes : StartDelivery(k, n)
  PROVE  DeliveryTypes' /\ SetTypes' /\ DeliveryOK' /\ RetriesOK'
<1> DEFINE h == copy[k][next[k]]
<1>1. DeliveryTypes /\ SetTypes /\ ListTypes
  BY TypeParts DEF HandoffInv
<1>2. at[k] \in {"sending", "failing"} => next[k] \in DOMAIN copy[k] /\ h \in stored /\ h \in Hints
  BY <1>1 DEF HandoffInv, DeliveryOK, ToSet, SetTypes
<1>3. ASSUME NEW n \in Nodes, StartDelivery(k, n)
      PROVE  DeliveryTypes' /\ SetTypes' /\ DeliveryOK' /\ RetriesOK'
  <2>1. hints[n] \in Seq(Hints) /\ Len(hints[n]) \in Nat /\ DOMAIN hints[n] = 1..Len(hints[n])
    BY <1>1 DEF ListTypes
  <2>2. Len(hints[n]) # 0
    BY <1>3, <2>1 DEF StartDelivery
  <2>3. 1 \in DOMAIN hints[n] /\ 1 <= Len(hints[n]) + 1
    BY <2>1, <2>2
  <2>4. /\ \A g \in ToSet(hints[n]) : g[2] = n
        /\ ToSet(hints[n]) \subseteq stored
    BY <1>1 DEF ListTypes, HandoffInv, ListsOK
  <2>5. DeliveryTypes'
    BY <1>1, <1>3, <2>1, <2>3, <2>4 DEF StartDelivery, DeliveryTypes, Steps
  <2>6. SetTypes' /\ RetriesOK'
    BY <1>1, <1>3 DEF StartDelivery, SetTypes, HandoffInv, RetriesOK, history
  <2>7. DeliveryOK'
    BY <1>1, <1>3, <2>3, <2>4 DEF StartDelivery, DeliveryOK, HandoffInv, history, DeliveryTypes
  <2> QED
    BY <2>5, <2>6, <2>7
<1>4. ASSUME Accepted(k) PROVE DeliveryTypes' /\ SetTypes' /\ DeliveryOK' /\ RetriesOK'
  <2>1. next[k] \in DOMAIN copy[k] /\ h \in stored /\ next[k] \in Nat
    BY <1>1, <1>2, <1>4 DEF Accepted, DeliveryTypes
  <2>2. /\ at' \in [Deliverers -> Steps] /\ next' \in [Deliverers -> Nat \ {0}]
        /\ next'[k] <= Len(copy[k]) + 1
        /\ at'[k] \in {"sending", "removing"}
        /\ at'[k] = "sending" => next'[k] \in DOMAIN copy[k]
        /\ \A j \in Deliverers \ {k} : at'[j] = at[j] /\ next'[j] = next[j]
    BY <1>1, <1>4, <2>1, Advances DEF Accepted
  <2>3. /\ delivered' = delivered \cup {h}
        /\ succeeded' = [succeeded EXCEPT ![k] = succeeded[k] \cup {next[k]}]
        /\ UNCHANGED <<hints, retries, old, target, copy, read, unsafe, stored, dropped>>
    BY <1>4 DEF Accepted
  <2> HIDE DEF h
  <2>4. DeliveryTypes'
    BY <1>1, <2>1, <2>2, <2>3 DEF DeliveryTypes
  <2>5. SetTypes' /\ RetriesOK'
    BY <1>1, <2>1, <2>3 DEF SetTypes, HandoffInv, RetriesOK
  <2>6. DeliveryOK'
    <3> SUFFICES ASSUME NEW j \in Deliverers
                 PROVE  /\ at'[j] \in {"sending", "failing"} => next'[j] \in DOMAIN copy[j]
                        /\ ToSet(copy[j]) \subseteq stored
                        /\ \A i \in succeeded'[j] : copy[j][i] \in delivered'
      BY <2>3 DEF DeliveryOK
    <3>1. /\ at[j] \in {"sending", "failing"} => next[j] \in DOMAIN copy[j]
          /\ ToSet(copy[j]) \subseteq stored
          /\ \A i \in succeeded[j] : copy[j][i] \in delivered
      BY DEF HandoffInv, DeliveryOK
    <3>2. succeeded'[j] = IF j = k THEN succeeded[k] \cup {next[k]} ELSE succeeded[j]
      BY <1>1, <2>3 DEF DeliveryTypes
    <3> QED
      BY <2>2, <2>3, <3>1, <3>2 DEF h
  <2> QED
    BY <2>4, <2>5, <2>6
<1>5. ASSUME Failed(k) PROVE DeliveryTypes' /\ SetTypes' /\ DeliveryOK' /\ RetriesOK'
  <2>1. next[k] \in DOMAIN copy[k] /\ h \in Hints /\ retries[h] \in Nat
    BY <1>1, <1>2, <1>5 DEF Failed, SetTypes
  <2>2. /\ read' = [read EXCEPT ![k] = retries[h]]
        /\ at' = [at EXCEPT ![k] = "failing"]
        /\ UNCHANGED <<hints, retries, old, target, copy, next, succeeded, unsafe,
                       stored, delivered, dropped>>
    BY <1>5 DEF Failed, history
  <2> HIDE DEF h
  <2>3. DeliveryTypes'
    BY <1>1, <2>1, <2>2 DEF DeliveryTypes, Steps
  <2>4. SetTypes' /\ RetriesOK'
    BY <1>1, <2>2 DEF SetTypes, HandoffInv, RetriesOK
  <2>5. DeliveryOK'
    BY <1>1, <2>1, <2>2 DEF DeliveryOK, HandoffInv, DeliveryTypes
  <2> QED
    BY <2>3, <2>4, <2>5
<1>6. ASSUME CountRetry(k) PROVE DeliveryTypes' /\ SetTypes' /\ DeliveryOK' /\ RetriesOK'
  <2>1. next[k] \in DOMAIN copy[k] /\ h \in stored /\ h \in Hints /\ read[k] \in Nat
    BY <1>1, <1>2, <1>6 DEF CountRetry, DeliveryTypes
  <2>2. /\ at' \in [Deliverers -> Steps] /\ next' \in [Deliverers -> Nat \ {0}]
        /\ next'[k] <= Len(copy[k]) + 1
        /\ at'[k] \in {"sending", "removing"}
        /\ at'[k] = "sending" => next'[k] \in DOMAIN copy[k]
        /\ \A j \in Deliverers \ {k} : at'[j] = at[j] /\ next'[j] = next[j]
    BY <1>1, <1>6, <2>1, Advances DEF CountRetry
  <2>3. /\ retries' = [retries EXCEPT ![h] = read[k] + 1]
        /\ UNCHANGED <<hints, old, target, copy, succeeded, read, unsafe, stored, delivered, dropped>>
    BY <1>6 DEF CountRetry, history
  <2> HIDE DEF h
  <2>4. DeliveryTypes'
    BY <1>1, <2>2, <2>3 DEF DeliveryTypes
  <2>5. SetTypes' /\ RetriesOK'
    BY <1>1, <2>1, <2>3 DEF SetTypes, HandoffInv, RetriesOK
  <2>6. DeliveryOK'
    BY <2>2, <2>3 DEF DeliveryOK, HandoffInv
  <2> QED
    BY <2>4, <2>5, <2>6
<1>7. ASSUME RemoveDelivered(k) PROVE DeliveryTypes' /\ SetTypes' /\ DeliveryOK' /\ RetriesOK'
  <2> DEFINE n == target[k]
             lost == {hints[n][i] : i \in Removed(k) \ succeeded[k]}
  <2>1. /\ dropped' = dropped \cup lost
        /\ at' = [at EXCEPT ![k] = "idle"]
        /\ copy' = [copy EXCEPT ![k] = <<>>]
        /\ next' = [next EXCEPT ![k] = 1]
        /\ succeeded' = [succeeded EXCEPT ![k] = {}]
        /\ UNCHANGED <<retries, old, target, read, stored, delivered>>
    BY <1>7 DEF RemoveDelivered
  <2>2. unsafe' \subseteq Nodes /\ lost \subseteq stored /\ n \in Nodes
    <3>1. n \in Nodes
      BY <1>1 DEF DeliveryTypes
    <3>2. Removed(k) \subseteq DOMAIN hints[n]
      BY DEF Removed
    <3>3. lost \subseteq ToSet(hints[n])
      BY <3>2 DEF ToSet
    <3>4. unsafe' \subseteq Nodes
      BY <1>1, <1>7, <3>1 DEF RemoveDelivered, Shortened, SetTypes
    <3> QED
      BY <3>1, <3>3, <3>4 DEF HandoffInv, ListsOK
  <2> HIDE DEF n, lost
  <2>3. ToSet(<<>>) = {} /\ <<>> \in Seq(Hints) /\ Len(<<>>) = 0
    BY EmptyList DEF ToSet
  <2>4. DeliveryTypes'
    BY <1>1, <2>1, <2>3 DEF DeliveryTypes, Steps
  <2>5. SetTypes' /\ RetriesOK'
    BY <1>1, <2>1, <2>2 DEF SetTypes, HandoffInv, RetriesOK
  <2>6. DeliveryOK'
    BY <1>1, <2>1, <2>3 DEF DeliveryOK, HandoffInv, DeliveryTypes
  <2> QED
    BY <2>4, <2>5, <2>6
<1> QED
  BY <1>3, <1>4, <1>5, <1>6, <1>7 DEF Deliver

LEMMA InvariantStep ==
  ASSUME HandoffInv, [Next]_vars
  PROVE  HandoffInv'
<1>1. ListTypes' /\ ListsOK' /\ stored \subseteq stored'
  BY ListsStep DEF HandoffInv
<1>2. SetTypes
  BY TypeParts DEF HandoffInv
<1>3. CASE \E k \in Deliverers : Deliver(k) \/ \E n \in Nodes : StartDelivery(k, n)
  BY <1>1, <1>3, DeliveryStep, TypeParts DEF HandoffInv, TypeOK, ListTypes, DeliveryTypes, SetTypes
<1>4. CASE \E w \in Writes, failed \in FailedLists : StoreHint(w, failed)
  <2>1. PICK w \in Writes, failed \in FailedLists : StoreHint(w, failed)
    BY <1>4
  <2> DEFINE fresh == {w} \X ToSet(failed)
  <2>2. /\ fresh \subseteq Hints /\ stored \subseteq stored'
        /\ stored' \subseteq stored \cup fresh /\ dropped' \subseteq dropped \cup fresh
    BY <2>1, Stored DEF HandoffInv
  <2>3. UNCHANGED <<retries, old, delivery, unsafe, delivered>>
    BY <2>1 DEF StoreHint
  <2> HIDE DEF fresh
  <2>4. /\ stored' \subseteq Hints /\ old' \subseteq Hints /\ unsafe' \subseteq Nodes
        /\ dropped' \subseteq Hints
    BY <1>2, <2>2, <2>3 DEF SetTypes
  <2>5. DeliveryTypes' /\ SetTypes' /\ DeliveryOK' /\ RetriesOK'
    BY <2>2, <2>3, <2>4, OtherStep
  <2> QED
    BY <1>1, <2>5 DEF HandoffInv, TypeOK, ListTypes, DeliveryTypes, SetTypes
<1>5. CASE \/ \E h \in Hints : GetOld(h)
           \/ ExpireHints
           \/ \E n \in Nodes : ClearHints(n)
           \/ ClearAllHints
           \/ UNCHANGED vars
  <2>1. UNCHANGED <<retries, delivery, stored, delivered>>
    BY <1>5 DEF GetOld, ExpireHints, ClearHints, ClearAllHints, vars, history
  <2>2. old' \subseteq Hints /\ unsafe' \subseteq Nodes
    BY <1>2, <1>5 DEF SetTypes, GetOld, ExpireHints, ClearHints, ClearAllHints, vars, history, Shortened
  <2>3. dropped' \subseteq Hints
    <3>1. Pending \subseteq stored /\ \A n \in Nodes : ToSet(hints[n]) \subseteq stored
      BY DEF HandoffInv, ListsOK, Pending
    <3>2. dropped' \subseteq dropped \cup stored
      BY <1>5, <3>1 DEF GetOld, ExpireHints, ClearHints, ClearAllHints, vars, history
    <3> QED
      BY <1>2, <2>1, <3>2 DEF SetTypes
  <2>4. DeliveryTypes' /\ SetTypes' /\ DeliveryOK' /\ RetriesOK'
    BY <1>1, <1>2, <2>1, <2>2, <2>3, OtherStep DEF SetTypes
  <2> QED
    BY <1>1, <2>4 DEF HandoffInv, TypeOK, ListTypes, DeliveryTypes, SetTypes
<1> QED
  BY <1>3, <1>4, <1>5 DEF Next, StoreOrDeliver

LEMMA InvariantAtStart ==
  ASSUME Init
  PROVE  HandoffInv /\ CopiesMatch
<1>1. PICK first \in Nodes : target = [k \in Deliverers |-> first]
  BY HandoffAssumption DEF Init
<1>2. hints \in [Nodes -> Seq(Hints)] /\ \A n \in Nodes : hints[n] = <<>>
  BY DEF Init
<1>3. ToSet(<<>>) = {} /\ IsInjective(<<>>) /\ <<>> \in Seq(Hints) /\ Len(<<>>) = 0
  BY DEF ToSet, IsInjective
<1>4. TotalHintCount <= MaxHints
  <2>1. Slots(hints) = {}
    BY <1>2 DEF Slots
  <2>2. TotalHintCount = 0
    BY <2>1, CountIs, FS_EmptySet
  <2> QED
    BY <2>2, HandoffAssumption
<1>5. ListTypes /\ ListsOK
  BY <1>2, <1>3, <1>4 DEF ListTypes, ListsOK
<1>6. DeliveryTypes
  BY <1>1, <1>3 DEF Init, DeliveryTypes, Steps
<1>7. SetTypes /\ DeliveryOK /\ RetriesOK /\ CopiesMatch
  BY <1>3 DEF Init, SetTypes, DeliveryOK, RetriesOK, CopiesMatch
<1> QED
  BY <1>5, <1>6, <1>7, TypeParts DEF HandoffInv

(* The inductive invariant of the handoff: the types and the cap, no hint  *)
(* twice in a list, every delivery at a hint of its copy.                  *)
THEOREM HandoffInvariant == Spec => []HandoffInv
<1>1. Init => HandoffInv
  BY InvariantAtStart
<1>2. HandoffInv /\ [Next]_vars => HandoffInv'
  BY InvariantStep
<1> QED
  BY <1>1, <1>2, PTL DEF Spec

(* Types, and never more hints than the cap.                               *)
THEOREM TypeCorrect == Spec => []TypeOK
<1>1. HandoffInv => TypeOK
  BY DEF HandoffInv
<1> QED
  BY <1>1, HandoffInvariant, PTL

----------------------------------------------------------------------------
(* Positions.                                                              *)

LEMMA PrefixStep ==
  ASSUME HandoffInv, CopiesMatch, [Next]_vars
  PROVE  CopiesMatch'
<1>1. DeliveryTypes /\ SetTypes /\ ListTypes
  BY TypeParts DEF HandoffInv
<1>2. unsafe \subseteq unsafe'
  BY DEF Next, StoreOrDeliver, Deliver, StoreHint, StartDelivery, Accepted, Failed,
     CountRetry, RemoveDelivered, GetOld, ExpireHints, ClearHints, ClearAllHints,
     Shortened, vars, history
<1>3. ASSUME \A k \in Deliverers : at'[k] # "idle" =>
               at[k] # "idle" /\ target'[k] = target[k] /\ copy'[k] = copy[k],
             \A n \in Nodes \ unsafe' : BusyWith(n)' # {} =>
               \A i \in DOMAIN hints[n] : i \in DOMAIN hints'[n] /\ hints'[n][i] = hints[n][i]
      PROVE  CopiesMatch'
  <2> SUFFICES ASSUME NEW k \in Deliverers, at'[k] # "idle", target'[k] \notin unsafe',
                      NEW i \in DOMAIN copy'[k]
               PROVE  /\ i \in DOMAIN hints'[target'[k]]
                      /\ hints'[target'[k]][i] = copy'[k][i]
    BY DEF CopiesMatch
  <2>0. PICK n \in Nodes : n = target[k]
    BY <1>1 DEF DeliveryTypes
  <2>1. /\ at[k] # "idle" /\ target'[k] = n /\ copy'[k] = copy[k]
        /\ n \in Nodes \ unsafe' /\ n \notin unsafe
    BY <1>2, <1>3, <2>0
  <2>2. i \in DOMAIN hints[n] /\ hints[n][i] = copy[k][i]
    BY <2>0, <2>1 DEF CopiesMatch
  <2>3. BusyWith(n)' # {}
    BY <2>1 DEF BusyWith
  <2> QED
    BY <1>3, <2>1, <2>2, <2>3
<1>4. CASE \E w \in Writes, failed \in FailedLists : StoreHint(w, failed)
  <2>1. PICK w \in Writes, failed \in FailedLists : StoreHint(w, failed)
    BY <1>4
  <2>2. UNCHANGED <<at, target, copy>>
    BY <2>1 DEF StoreHint, delivery
  <2>3. \A n \in Nodes : \A i \in DOMAIN hints[n] :
          i \in DOMAIN hints'[n] /\ hints'[n][i] = hints[n][i]
    BY <2>1, StoredLists DEF HandoffInv
  <2> QED
    BY <1>3, <2>2, <2>3
<1>5. ASSUME NEW k \in Deliverers, NEW n \in Nodes, StartDelivery(k, n) PROVE CopiesMatch'
  <2>1. /\ UNCHANGED <<hints, unsafe>>
        /\ at' = [at EXCEPT ![k] = "sending"]
        /\ target' = [target EXCEPT ![k] = n]
        /\ copy' = [copy EXCEPT ![k] = hints[n]]
    BY <1>5 DEF StartDelivery, history
  <2> QED
    BY <1>1, <2>1 DEF CopiesMatch, DeliveryTypes
<1>6. ASSUME NEW k \in Deliverers, Accepted(k) \/ Failed(k) \/ CountRetry(k) PROVE CopiesMatch'
  <2>1. UNCHANGED <<hints, target, copy>>
    BY <1>6 DEF Accepted, Failed, CountRetry
  <2>2. \A j \in Deliverers : at'[j] # "idle" => at[j] # "idle"
    BY <1>1, <1>6 DEF Accepted, Failed, CountRetry, Advance, DeliveryTypes
  <2> QED
    BY <1>3, <2>1, <2>2
<1>7. ASSUME NEW k \in Deliverers, RemoveDelivered(k) PROVE CopiesMatch'
  <2>0. PICK t \in Nodes : t = target[k]
    BY <1>1 DEF DeliveryTypes
  <2>1. /\ at' = [at EXCEPT ![k] = "idle"]
        /\ copy' = [copy EXCEPT ![k] = <<>>]
        /\ UNCHANGED target
        /\ hints' = [hints EXCEPT ![t] = Without(hints[t], Removed(k))]
    BY <1>7, <2>0 DEF RemoveDelivered
  <2>2. \A j \in Deliverers : at'[j] # "idle" =>
          j # k /\ at[j] # "idle" /\ target'[j] = target[j] /\ copy'[j] = copy[j]
    BY <1>1, <2>1 DEF DeliveryTypes
  <2>3. Shrinking
    BY <1>7, RemovalShrinks DEF HandoffInv
  <2>4. BusyWith(t)' \subseteq BusyWith(t) \ {k}
    BY <2>2 DEF BusyWith
  <2>5. t \notin unsafe' /\ BusyWith(t)' # {} => ~(Len(hints'[t]) < Len(hints[t]))
    <3>1. BusyWith(t)' # {} => BusyWith(t) \ {k} # {}
      BY <2>4
    <3> QED
      BY <1>7, <2>0, <3>1 DEF RemoveDelivered, Shortened
  <2>6. ASSUME NEW n \in Nodes \ unsafe', BusyWith(n)' # {} PROVE hints'[n] = hints[n]
    <3>1. CASE n # t
      BY <1>1, <2>1, <3>1 DEF ListTypes
    <3>2. CASE n = t
      <4>1. Len(hints[t]) \in Nat /\ Len(hints'[t]) \in Nat
        BY <1>1, <2>3 DEF ListTypes, Shrinking
      <4>2. Len(hints'[t]) <= Len(hints[t]) /\ (Len(hints'[t]) = Len(hints[t]) => hints'[t] = hints[t])
        BY <2>3 DEF Shrinking
      <4>3. Len(hints'[t]) = Len(hints[t])
        BY <2>5, <2>6, <3>2, <4>1, <4>2
      <4> QED
        BY <3>2, <4>2, <4>3
    <3> QED
      BY <3>1, <3>2
  <2> QED
    BY <1>3, <2>2, <2>6
<1>8. CASE ExpireHints \/ ClearAllHints \/ \E m \in Nodes : ClearHints(m)
  <2>1. UNCHANGED <<at, target, copy>> /\ Shrinking
    BY <1>8, RemovalShrinks DEF ExpireHints, ClearAllHints, ClearHints, delivery, HandoffInv
  <2>2. ASSUME NEW n \in Nodes \ unsafe', BusyWith(n)' # {} PROVE hints'[n] = hints[n]
    <3>1. \A m \in Nodes : BusyWith(m)' = BusyWith(m)
      BY <2>1 DEF BusyWith
    <3>2. Len(hints[n]) \in Nat /\ Len(hints'[n]) \in Nat
      BY <1>1, <2>1 DEF ListTypes, Shrinking
    <3>3. Len(hints'[n]) <= Len(hints[n]) /\ (Len(hints'[n]) = Len(hints[n]) => hints'[n] = hints[n])
      BY <2>1 DEF Shrinking
    <3>4. CASE ExpireHints \/ ClearAllHints
      <4>1. ~(Len(hints'[n]) < Len(hints[n]))
        BY <2>2, <3>1, <3>4 DEF ExpireHints, ClearAllHints, Shortened
      <4> QED
        BY <3>2, <3>3, <4>1
    <3>5. ASSUME NEW m \in Nodes, ClearHints(m) PROVE hints'[n] = hints[n]
      <4>1. CASE n = m
        <5>1. ~(Len(hints'[n]) < Len(hints[n]))
          BY <2>2, <3>1, <3>5, <4>1 DEF ClearHints, Shortened
        <5> QED
          BY <3>2, <3>3, <5>1
      <4>2. CASE n # m
        BY <1>1, <3>5, <4>2 DEF ClearHints, ListTypes
      <4> QED
        BY <4>1, <4>2
    <3> QED
      BY <1>8, <3>4, <3>5
  <2> QED
    BY <1>3, <2>1, <2>2
<1>9. CASE \/ \E h \in Hints : GetOld(h)
           \/ UNCHANGED vars
  BY <1>3, <1>9 DEF GetOld, vars, delivery
<1> QED
  BY <1>4, <1>5, <1>6, <1>7, <1>8, <1>9 DEF Next, StoreOrDeliver, Deliver

(* A delivered hint is listed only until its delivery is over.             *)
LEMMA DeliveredStep ==
  ASSUME HandoffInv, CopiesMatch, DeliveredHintsLeave, [Next]_vars
  PROVE  DeliveredHintsLeave'
<1>1. DeliveryTypes /\ SetTypes /\ ListTypes
  BY TypeParts DEF HandoffInv
<1>2. unsafe \subseteq unsafe'
  BY DEF Next, StoreOrDeliver, Deliver, StoreHint, StartDelivery, Accepted, Failed,
     CountRetry, RemoveDelivered, GetOld, ExpireHints, ClearHints, ClearAllHints,
     Shortened, vars, history
<1>3. ASSUME NEW n \in Nodes \ unsafe', NEW h \in ToSet(hints'[n]) \cap delivered'
      PROVE  \E k \in BusyWith(n)' : \E i \in succeeded'[k] : copy'[k][i] = h
  <2>0. n \in Nodes \ unsafe
    BY <1>2
  <2>1. ASSUME h \in ToSet(hints[n]) \cap delivered
        PROVE  \E k \in Deliverers : /\ at[k] # "idle" /\ target[k] = n
                                     /\ \E i \in succeeded[k] : copy[k][i] = h
    BY <2>0, <2>1 DEF DeliveredHintsLeave, BusyWith
  <2>2. CASE \E w \in Writes, failed \in FailedLists : StoreHint(w, failed)
    <3>1. PICK w \in Writes, failed \in FailedLists : StoreHint(w, failed)
      BY <2>2
    <3>2. UNCHANGED <<at, target, copy, succeeded, delivered>>
      BY <3>1 DEF StoreHint, delivery
    <3>3. ToSet(hints'[n]) \subseteq ToSet(hints[n]) \cup (Hints \ stored)
      BY <3>1, StoredLists DEF HandoffInv
    <3>4. h \in ToSet(hints[n]) \cap delivered
      BY <1>1, <3>2, <3>3 DEF SetTypes
    <3> QED
      BY <2>1, <3>2, <3>4 DEF BusyWith
  <2>3. ASSUME NEW k \in Deliverers, NEW m \in Nodes, StartDelivery(k, m)
        PROVE  \E j \in BusyWith(n)' : \E i \in succeeded'[j] : copy'[j][i] = h
    <3>1. /\ UNCHANGED <<hints, delivered>> /\ at[k] = "idle"
          /\ at' = [at EXCEPT ![k] = "sending"]
          /\ target' = [target EXCEPT ![k] = m]
          /\ copy' = [copy EXCEPT ![k] = hints[m]]
          /\ succeeded' = [succeeded EXCEPT ![k] = {}]
      BY <2>3 DEF StartDelivery, history
    <3>2. PICK j \in Deliverers : /\ at[j] # "idle" /\ target[j] = n
                                  /\ \E i \in succeeded[j] : copy[j][i] = h
      BY <2>1, <3>1
    <3>3. j # k
      BY <3>1, <3>2
    <3> QED
      BY <1>1, <3>1, <3>2, <3>3 DEF BusyWith, DeliveryTypes
  <2>4. ASSUME NEW k \in Deliverers, Accepted(k)
        PROVE  \E j \in BusyWith(n)' : \E i \in succeeded'[j] : copy'[j][i] = h
    <3>1. /\ UNCHANGED <<hints, target, copy>> /\ at[k] = "sending"
          /\ delivered' = delivered \cup {copy[k][next[k]]}
          /\ succeeded' = [succeeded EXCEPT ![k] = succeeded[k] \cup {next[k]}]
      BY <2>4 DEF Accepted
    <3>2. \A j \in Deliverers : at[j] # "idle" => at'[j] # "idle"
      BY <1>1, <2>4 DEF Accepted, Advance, DeliveryTypes
    <3>3. CASE h \in delivered
      BY <1>1, <2>1, <3>1, <3>2, <3>3 DEF BusyWith, DeliveryTypes
    <3>4. CASE h = copy[k][next[k]]
      <4>1. next[k] \in DOMAIN copy[k]
        BY <3>1 DEF HandoffInv, DeliveryOK
      <4>2. h[2] = target[k]
        BY <1>1, <3>4, <4>1 DEF DeliveryTypes, ToSet
      <4>3. h[2] = n
        BY <1>1, <3>1 DEF ListTypes
      <4>4. k \in BusyWith(n)' /\ next[k] \in succeeded'[k]
        BY <1>1, <3>1, <3>2, <4>2, <4>3 DEF BusyWith, DeliveryTypes
      <4> QED
        BY <3>1, <3>4, <4>4
    <3> QED
      BY <3>1, <3>3, <3>4
  <2>5. ASSUME NEW k \in Deliverers, Failed(k) \/ CountRetry(k)
        PROVE  \E j \in BusyWith(n)' : \E i \in succeeded'[j] : copy'[j][i] = h
    <3>1. UNCHANGED <<hints, target, copy, succeeded, delivered>>
      BY <2>5 DEF Failed, CountRetry, history
    <3>2. \A j \in Deliverers : at[j] # "idle" => at'[j] # "idle"
      BY <1>1, <2>5 DEF Failed, CountRetry, Advance, DeliveryTypes
    <3> QED
      BY <2>1, <3>1, <3>2 DEF BusyWith
  <2>6. ASSUME NEW k \in Deliverers, RemoveDelivered(k)
        PROVE  \E j \in BusyWith(n)' : \E i \in succeeded'[j] : copy'[j][i] = h
    <3> DEFINE t == target[k]
               r == Removed(k)
    <3>1. /\ hints' = [hints EXCEPT ![t] = Without(hints[t], r)]
          /\ at[k] = "removing"
          /\ at' = [at EXCEPT ![k] = "idle"]
          /\ copy' = [copy EXCEPT ![k] = <<>>]
          /\ succeeded' = [succeeded EXCEPT ![k] = {}]
          /\ UNCHANGED <<target, delivered>>
      BY <2>6 DEF RemoveDelivered
    <3>2. h \in ToSet(hints[n])
      BY <2>6, RemovalShrinks DEF HandoffInv, Shrinking
    <3>3. PICK j \in Deliverers : /\ at[j] # "idle" /\ target[j] = n
                                  /\ \E i \in succeeded[j] : copy[j][i] = h
      BY <2>1, <3>1, <3>2
    <3>4. j # k
      <4> SUFFICES ASSUME j = k PROVE FALSE
        OBVIOUS
      <4>1. PICK i \in succeeded[k] : copy[k][i] = h
        BY <3>3
      <4>2. t = n /\ i \in DOMAIN copy[k]
        BY <1>1, <3>3 DEF DeliveryTypes
      <4>3. i \in DOMAIN hints[n] /\ hints[n][i] = h
        BY <2>0, <3>1, <4>1, <4>2 DEF CopiesMatch
      <4>4. i \in r
        BY <4>1, <4>2, <4>3 DEF Removed
      <4>5. hints[n] \in Seq(Hints) /\ hints'[n] = Without(hints[n], r)
        BY <1>1, <3>1, <4>2 DEF ListTypes
      <4>6. ToSet(hints'[n]) = {hints[n][m] : m \in DOMAIN hints[n] \ r}
        BY <4>5, WithoutList
      <4>7. PICK m \in DOMAIN hints[n] \ r : hints[n][m] = h
        BY <4>6
      <4>8. m = i
        BY <4>3, <4>7 DEF HandoffInv, ListsOK, IsInjective
      <4> QED
        BY <4>4, <4>7, <4>8
    <3> QED
      BY <1>1, <3>1, <3>3, <3>4 DEF BusyWith, DeliveryTypes
  <2>7. CASE \/ \E g \in Hints : GetOld(g)
             \/ ExpireHints
             \/ \E m \in Nodes : ClearHints(m)
             \/ ClearAllHints
             \/ UNCHANGED vars
    <3>1. UNCHANGED <<at, target, copy, succeeded, delivered>>
      BY <2>7 DEF GetOld, ExpireHints, ClearHints, ClearAllHints, vars, history, delivery
    <3>2. Shrinking
      BY <2>7, NoChangeShrinks, RemovalShrinks DEF GetOld, vars, HandoffInv
    <3>3. h \in ToSet(hints[n])
      BY <3>2 DEF Shrinking
    <3> QED
      BY <2>1, <3>1, <3>3 DEF BusyWith
  <2> QED
    BY <2>2, <2>3, <2>4, <2>5, <2>6, <2>7 DEF Next, StoreOrDeliver, Deliver
<1> QED
  BY <1>3 DEF DeliveredHintsLeave

(* A hint that its node has leaves the list with the delivery that wrote   *)
(* it, as long as nobody shortens the list meanwhile.                      *)
THEOREM DeliveredLeave == Spec => []DeliveredHintsLeave
<1>1. Init => HandoffInv /\ CopiesMatch
  BY InvariantAtStart
<1>2. Init => DeliveredHintsLeave
  BY DEF Init, DeliveredHintsLeave
<1>3. HandoffInv /\ CopiesMatch /\ DeliveredHintsLeave /\ [Next]_vars
        => (HandoffInv /\ CopiesMatch /\ DeliveredHintsLeave)'
  BY InvariantStep, PrefixStep, DeliveredStep
<1> QED
  BY <1>1, <1>2, <1>3, PTL DEF Spec

----------------------------------------------------------------------------
(* Retries.                                                                *)

LEMMA ExhaustedStep ==
  ASSUME HandoffInv, ExhaustedHintsLeave, [Next]_vars
  PROVE  ExhaustedHintsLeave'
<1>1. DeliveryTypes /\ SetTypes /\ ListTypes
  BY TypeParts DEF HandoffInv
<1> SUFFICES ASSUME NEW n \in Nodes, BusyWith(n)' = {}, NEW h \in ToSet(hints'[n])
             PROVE  h \notin Exhausted'
  BY DEF ExhaustedHintsLeave
<1>2. ASSUME BusyWith(n) = {}, h \in ToSet(hints[n]), retries'[h] = retries[h]
      PROVE  h \notin Exhausted'
  BY <1>2 DEF ExhaustedHintsLeave, Exhausted
<1>3. CASE \E w \in Writes, failed \in FailedLists : StoreHint(w, failed)
  <2>1. PICK w \in Writes, failed \in FailedLists : StoreHint(w, failed)
    BY <1>3
  <2>2. UNCHANGED <<at, target, retries>>
    BY <2>1 DEF StoreHint, delivery
  <2>3. CASE h \in ToSet(hints[n])
    <3>1. BusyWith(n) = {}
      BY <2>2 DEF BusyWith
    <3> QED
      BY <1>2, <2>2, <2>3, <3>1
  <2>4. CASE h \in Hints \ stored
    <3>1. retries'[h] = 0
      BY <2>2, <2>4 DEF HandoffInv, RetriesOK
    <3> QED
      BY <3>1, HandoffAssumption DEF Exhausted
  <2>5. ToSet(hints'[n]) \subseteq ToSet(hints[n]) \cup (Hints \ stored)
    BY <2>1, StoredLists DEF HandoffInv
  <2> QED
    BY <2>3, <2>4, <2>5
<1>4. ASSUME NEW k \in Deliverers, NEW m \in Nodes, StartDelivery(k, m)
      PROVE  h \notin Exhausted'
  <2>1. /\ UNCHANGED <<hints, retries>> /\ at[k] = "idle"
        /\ at' = [at EXCEPT ![k] = "sending"]
        /\ target' = [target EXCEPT ![k] = m]
    BY <1>4 DEF StartDelivery
  <2>2. BusyWith(n) \subseteq BusyWith(n)'
    BY <1>1, <2>1 DEF BusyWith, DeliveryTypes
  <2> QED
    BY <1>2, <2>1, <2>2
<1>5. ASSUME NEW k \in Deliverers, Accepted(k) \/ Failed(k) \/ CountRetry(k)
      PROVE  h \notin Exhausted'
  <2>1. UNCHANGED <<hints, target>> /\ at[k] # "idle"
    BY <1>5 DEF Accepted, Failed, CountRetry
  <2>2. at'[k] # "idle" /\ \A j \in Deliverers : at[j] # "idle" => at'[j] # "idle"
    BY <1>1, <1>5 DEF Accepted, Failed, CountRetry, Advance, DeliveryTypes
  <2>3. BusyWith(n) = {} /\ target[k] # n
    BY <2>1, <2>2 DEF BusyWith
  <2>4. h \in Hints /\ h[2] = n
    BY <1>1, <2>1 DEF ListTypes, SetTypes, HandoffInv, ListsOK
  <2>5. retries'[h] = retries[h]
    <3>1. CASE Accepted(k) \/ Failed(k)
      BY <3>1 DEF Accepted, Failed
    <3>2. CASE CountRetry(k)
      <4> DEFINE g == copy[k][next[k]]
      <4>1. next[k] \in DOMAIN copy[k]
        BY <3>2 DEF CountRetry, HandoffInv, DeliveryOK
      <4>2. g[2] = target[k]
        BY <1>1, <4>1 DEF DeliveryTypes, ToSet
      <4>3. g # h
        BY <2>3, <2>4, <4>2
      <4>4. retries' = [retries EXCEPT ![g] = read[k] + 1]
        BY <3>2 DEF CountRetry
      <4> HIDE DEF g
      <4> QED
        BY <1>1, <2>4, <4>3, <4>4 DEF SetTypes
    <3> QED
      BY <1>5, <3>1, <3>2
  <2> QED
    BY <1>2, <2>1, <2>3, <2>5
<1>6. ASSUME NEW k \in Deliverers, RemoveDelivered(k) PROVE h \notin Exhausted'
  <2>0. PICK t \in Nodes : t = target[k]
    BY <1>1 DEF DeliveryTypes
  <2> DEFINE r == Removed(k)
  <2>1. /\ at' = [at EXCEPT ![k] = "idle"]
        /\ UNCHANGED <<target, retries>>
        /\ hints' = [hints EXCEPT ![t] = Without(hints[t], r)]
    BY <1>6, <2>0 DEF RemoveDelivered
  <2>2. CASE n = t
    <3>1. hints[n] \in Seq(Hints) /\ hints'[n] = Without(hints[n], r)
      BY <1>1, <2>1, <2>2 DEF ListTypes
    <3>2. ToSet(hints'[n]) = {hints[n][m] : m \in DOMAIN hints[n] \ r}
      BY <3>1, WithoutList
    <3>3. PICK m \in DOMAIN hints[n] \ r : hints[n][m] = h
      BY <3>2
    <3>4. h \notin Exhausted
      BY <2>0, <2>2, <3>3 DEF Removed
    <3> QED
      BY <2>1, <3>4 DEF Exhausted
  <2>3. CASE n # t
    <3>1. BusyWith(n) \subseteq BusyWith(n)'
      BY <1>1, <2>0, <2>1, <2>3 DEF BusyWith, DeliveryTypes
    <3>2. hints'[n] = hints[n]
      BY <1>1, <2>1, <2>3 DEF ListTypes
    <3> QED
      BY <1>2, <2>1, <3>1, <3>2
  <2> QED
    BY <2>2, <2>3
<1>7. CASE \/ \E g \in Hints : GetOld(g)
           \/ ExpireHints
           \/ \E m \in Nodes : ClearHints(m)
           \/ ClearAllHints
           \/ UNCHANGED vars
  <2>1. UNCHANGED <<at, target, retries>>
    BY <1>7 DEF GetOld, ExpireHints, ClearHints, ClearAllHints, vars, delivery
  <2>2. Shrinking
    BY <1>7, NoChangeShrinks, RemovalShrinks DEF GetOld, vars, HandoffInv
  <2>3. h \in ToSet(hints[n])
    BY <2>2 DEF Shrinking
  <2>4. BusyWith(n) = {}
    BY <2>1 DEF BusyWith
  <2> QED
    BY <1>2, <2>1, <2>3, <2>4
<1> QED
  BY <1>3, <1>4, <1>5, <1>6, <1>7 DEF Next, StoreOrDeliver, Deliver

(* No hint that is out of retries is listed for a node that no delivery is *)
(* at work for, however deliveries, expiry and clearing interleaved.       *)
THEOREM ExhaustedLeave == Spec => []ExhaustedHintsLeave
<1>1. Init => HandoffInv
  BY InvariantAtStart
<1>2. Init => ExhaustedHintsLeave
  BY HandoffAssumption DEF Init, ExhaustedHintsLeave, Exhausted
<1>3. HandoffInv /\ ExhaustedHintsLeave /\ [Next]_vars => (HandoffInv /\ ExhaustedHintsLeave)'
  BY InvariantStep, ExhaustedStep
<1> QED
  BY <1>1, <1>2, <1>3, PTL DEF Spec

----------------------------------------------------------------------------
(* The lists are a pool.                                                   *)

Open == {h \in Hints : h[2] \in unsafe}

LEMMA PoolVariables ==
  Pool!pool = <<Pending, stored, delivered, dropped, Open>>
BY DEF Pool!pool, Open

LEMMA PoolCardinality == \A S : Pool!Cardinality(S) = Cardinality(S)
  BY DEF Cardinality, Pool!Cardinality

(* Hints leave the lists as a release from the pool.                       *)
LEMMA PoolRelease ==
  ASSUME NEW done \in SUBSET Pending, NEW lost \in SUBSET Pending,
         done \subseteq delivered \cup Open, unsafe \subseteq unsafe',
         Pending' = Pending \ (done \cup lost), dropped' = dropped \cup lost,
         UNCHANGED <<stored, delivered>>
  PROVE  Pool!Next
<1>1. Pool!Release(done, lost)
  BY DEF Pool!Release, Open
<1> QED
  BY <1>1 DEF Pool!Next

(* Hints that are given up, delivered or not.                              *)
LEMMA PoolLoses ==
  ASSUME NEW lost \in SUBSET Pending, unsafe \subseteq unsafe',
         Pending' = Pending \ lost, dropped' = dropped \cup lost,
         UNCHANGED <<stored, delivered>>
  PROVE  Pool!Next
<1>1. Pending' = Pending \ ({} \cup lost) /\ {} \in SUBSET Pending
  OBVIOUS
<1>2. {} \subseteq delivered \cup Open
  OBVIOUS
<1> QED
  BY <1>1, <1>2, PoolRelease

(* A list without some positions, as a set.                                *)
LEMMA WithoutAsSet ==
  ASSUME NEW list \in Seq(Hints), IsInjective(list), NEW gone
  PROVE  ToSet(Without(list, gone)) = ToSet(list) \ {list[i] : i \in gone \cap DOMAIN list}
<1>1. ToSet(Without(list, gone)) = {list[i] : i \in DOMAIN list \ gone}
  BY WithoutList
<1>2. \A i, j \in DOMAIN list : list[i] = list[j] => i = j
  BY DEF IsInjective
<1> QED
  BY <1>1, <1>2 DEF ToSet

(* When the list of one node loses hints, so does the pool.                *)
LEMMA PendingWithout ==
  ASSUME HandoffInv, NEW n \in Nodes, NEW gone \in SUBSET ToSet(hints[n]),
         NEW list, hints' = [hints EXCEPT ![n] = list],
         ToSet(list) = ToSet(hints[n]) \ gone
  PROVE  gone \subseteq Pending /\ Pending' = Pending \ gone
<1>1. hints \in [Nodes -> Seq(Hints)] /\ \A m \in Nodes : \A h \in ToSet(hints[m]) : h[2] = m
  BY DEF HandoffInv, TypeOK
<1>2. \A m \in Nodes : hints'[m] = IF m = n THEN list ELSE hints[m]
  BY <1>1
<1>3. \A m \in Nodes : ToSet(hints'[m]) = ToSet(hints[m]) \ gone
  BY <1>1, <1>2
<1> QED
  BY <1>3 DEF Pending

LEMMA PoolStep ==
  ASSUME HandoffInv, CopiesMatch, [Next]_vars
  PROVE  [Pool!Next]_(Pool!pool)
<1>1. DeliveryTypes /\ SetTypes /\ ListTypes
  BY TypeParts DEF HandoffInv
<1>2. unsafe \subseteq unsafe'
  BY DEF Next, StoreOrDeliver, Deliver, StoreHint, StartDelivery, Accepted, Failed,
     CountRetry, RemoveDelivered, GetOld, ExpireHints, ClearHints, ClearAllHints,
     Shortened, vars, history
<1>3. CASE \E w \in Writes, failed \in FailedLists : StoreHint(w, failed)
  <2>1. PICK w \in Writes, failed \in FailedLists : StoreHint(w, failed)
    BY <1>3
  <2> DEFINE new == {w} \X ToSet(failed)
  <2>2. new \subseteq Hints /\ new \cap (stored \cup dropped) = {}
    BY <2>1, Stored DEF HandoffInv
  <2>3. PICK kept \in SUBSET new :
          /\ Pending' = Pending \cup kept
          /\ stored' = stored \cup kept
          /\ dropped' = dropped \cup (new \ kept)
          /\ kept = new \/ Cardinality(Pending') = MaxHints
    BY <2>1, StoredLists DEF HandoffInv
  <2>4. Cardinality(Pending') <= MaxHints
    BY <2>1, StoredLists DEF HandoffInv
  <2>5. UNCHANGED delivered
    BY <2>1 DEF StoreHint
  <2> HIDE DEF new
  <2>6. Pool!Store(new)
    BY <2>2, <2>3, <2>4, <2>5, PoolCardinality DEF Pool!Store
  <2> QED
    BY <1>2, <2>2, <2>6 DEF Pool!Next
<1>4. ASSUME NEW k \in Deliverers, Accepted(k) PROVE Pool!Next
  <2> DEFINE h == copy[k][next[k]]
  <2>1. /\ delivered' = delivered \cup {h} /\ UNCHANGED <<hints, stored, dropped>>
        /\ at[k] = "sending"
    BY <1>4 DEF Accepted
  <2>2. next[k] \in DOMAIN copy[k]
    BY <2>1 DEF HandoffInv, DeliveryOK
  <2>3. h[2] = target[k] /\ h \in Hints \cap stored /\ target[k] \in Nodes
    BY <1>1, <2>2 DEF DeliveryTypes, ToSet, HandoffInv, DeliveryOK, SetTypes
  <2>4. h \in Pending \cup (Open \cap stored)
    <3>1. CASE target[k] \in unsafe
      BY <2>3, <3>1 DEF Open
    <3>2. CASE target[k] \notin unsafe
      <4>1. h \in ToSet(hints[target[k]])
        BY <2>1, <2>2, <3>2 DEF CopiesMatch, ToSet
      <4> QED
        BY <2>3, <4>1 DEF Pending
    <3> QED
      BY <3>1, <3>2
  <2>5. UNCHANGED Pending
    BY <2>1 DEF Pending
  <2> HIDE DEF h
  <2>6. Pool!Deliver(h)
    BY <2>1, <2>4, <2>5 DEF Pool!Deliver, Open
  <2> QED
    BY <1>2, <2>3, <2>6 DEF Pool!Next
<1>5. ASSUME NEW k \in Deliverers, RemoveDelivered(k) PROVE Pool!Next
  <2>0. PICK t \in Nodes : t = target[k]
    BY <1>1 DEF DeliveryTypes
  <2> DEFINE r == Removed(k)
             list == hints[t]
             done == {list[i] : i \in r \cap succeeded[k]}
             lost == {list[i] : i \in r \ succeeded[k]}
  <2>1. /\ hints' = [hints EXCEPT ![t] = Without(list, r)]
        /\ dropped' = dropped \cup lost
        /\ UNCHANGED <<stored, delivered>> /\ at[k] = "removing"
    BY <1>5, <2>0 DEF RemoveDelivered
  <2>2. r \subseteq DOMAIN list
    BY <2>0 DEF Removed
  <2>3. list \in Seq(Hints) /\ IsInjective(list) /\ \A h \in ToSet(list) : h[2] = t /\ h \in Hints
    BY <1>1 DEF ListTypes, HandoffInv, ListsOK, SetTypes
  <2>4. done \subseteq ToSet(list) /\ lost \subseteq ToSet(list)
    BY <2>2 DEF ToSet
  <2>5. done \subseteq delivered \cup Open
    <3>1. CASE t \in unsafe
      BY <2>3, <2>4, <3>1 DEF Open
    <3>2. ASSUME t \notin unsafe, NEW i \in r \cap succeeded[k] PROVE list[i] \in delivered
      <4>1. i \in DOMAIN copy[k] /\ copy[k][i] \in delivered
        BY <1>1, <3>2 DEF DeliveryTypes, HandoffInv, DeliveryOK
      <4>2. list[i] = copy[k][i]
        BY <2>0, <2>1, <3>2, <4>1 DEF CopiesMatch
      <4> QED
        BY <4>1, <4>2
    <3> QED
      BY <3>1, <3>2
  <2>6. ToSet(Without(list, r)) = ToSet(list) \ (done \cup lost)
    <3>1. r = (r \cap succeeded[k]) \cup (r \ succeeded[k]) /\ r \cap DOMAIN list = r
      BY <2>2
    <3>2. {list[i] : i \in r \cap DOMAIN list} = done \cup lost
      BY <3>1
    <3>3. ToSet(Without(list, r)) = ToSet(list) \ {list[i] : i \in r \cap DOMAIN list}
      BY <2>3, WithoutAsSet
    <3> QED
      BY <3>2, <3>3
  <2> HIDE DEF r, done, lost
  <2>7. done \cup lost \subseteq Pending /\ Pending' = Pending \ (done \cup lost)
    BY <2>1, <2>4, <2>6, PendingWithout
  <2> QED
    BY <1>2, <2>1, <2>5, <2>7, PoolRelease
<1>6. CASE ExpireHints
  <2> DEFINE lost == Pending \cap old
             goes(n) == {i \in DOMAIN hints[n] : hints[n][i] \in old}
  <2>1. /\ hints' = [n \in Nodes |-> Without(hints[n], goes(n))]
        /\ dropped' = dropped \cup lost
        /\ UNCHANGED <<stored, delivered>>
    BY <1>6 DEF ExpireHints
  <2>2. ASSUME NEW n \in Nodes PROVE ToSet(hints'[n]) = ToSet(hints[n]) \ old
    <3>1. hints[n] \in Seq(Hints) /\ IsInjective(hints[n])
      BY <1>1 DEF ListTypes, HandoffInv, ListsOK
    <3>2. ToSet(Without(hints[n], goes(n)))
            = ToSet(hints[n]) \ {hints[n][i] : i \in goes(n) \cap DOMAIN hints[n]}
      <4> HIDE DEF goes
      <4> QED
        BY <3>1, WithoutAsSet
    <3>3. {hints[n][i] : i \in goes(n) \cap DOMAIN hints[n]} = ToSet(hints[n]) \cap old
      BY DEF ToSet
    <3>4. hints'[n] = Without(hints[n], goes(n))
      BY <2>1
    <3> HIDE DEF goes
    <3> QED
      BY <3>2, <3>3, <3>4
  <2>3. Pending' = Pending \ lost
    BY <2>2 DEF Pending
  <2> QED
    BY <1>2, <2>1, <2>3, PoolLoses
<1>7. ASSUME NEW n \in Nodes, ClearHints(n) PROVE Pool!Next
  <2>1. /\ hints' = [hints EXCEPT ![n] = <<>>]
        /\ dropped' = dropped \cup ToSet(hints[n])
        /\ UNCHANGED <<stored, delivered>>
    BY <1>7 DEF ClearHints
  <2>2. ToSet(<<>>) = {}
    BY DEF ToSet
  <2>3. ToSet(hints[n]) \subseteq Pending /\ Pending' = Pending \ ToSet(hints[n])
    BY <2>1, <2>2, PendingWithout
  <2> QED
    BY <1>2, <2>1, <2>3, PoolLoses
<1>8. CASE ClearAllHints
  <2>1. /\ hints' = [n \in Nodes |-> <<>>]
        /\ dropped' = dropped \cup Pending
        /\ UNCHANGED <<stored, delivered>>
    BY <1>8 DEF ClearAllHints
  <2>2. ToSet(<<>>) = {}
    BY DEF ToSet
  <2>3. Pending' = Pending \ Pending
    BY <2>1, <2>2 DEF Pending
  <2> QED
    BY <1>2, <2>1, <2>3, PoolLoses
<1>9. CASE \/ \E k \in Deliverers, n \in Nodes : StartDelivery(k, n)
           \/ \E k \in Deliverers : Failed(k) \/ CountRetry(k)
           \/ \E h \in Hints : GetOld(h)
           \/ UNCHANGED vars
  <2>1. UNCHANGED <<hints, unsafe, stored, delivered, dropped>>
    BY <1>9 DEF StartDelivery, Failed, CountRetry, GetOld, vars, history
  <2>2. UNCHANGED <<Pending, Open>>
    BY <2>1 DEF Pending, Open
  <2> QED
    BY <2>1, <2>2 DEF Pool!pool, Open
<1> QED
  BY <1>3, <1>4, <1>5, <1>6, <1>7, <1>8, <1>9 DEF Next, StoreOrDeliver, Deliver

(* Lists, copies and positions implement the pool that QuorumManager takes *)
(* its handoff steps from.                                                 *)
THEOREM HandoffImplementsPool == Spec => ImplementsPool
<1>1. Init => HandoffInv /\ CopiesMatch
  BY InvariantAtStart
<1>2. Init => Pool!Init
  <2>1. ToSet(<<>>) = {}
    BY DEF ToSet
  <2> QED
    BY <2>1 DEF Init, Pool!Init, Pending
<1>3. HandoffInv /\ CopiesMatch /\ [Next]_vars => (HandoffInv /\ CopiesMatch)'
  BY InvariantStep, PrefixStep
<1>4. HandoffInv /\ CopiesMatch /\ [Next]_vars => [Pool!Next]_(Pool!pool)
  BY PoolStep
<1> QED
  BY <1>1, <1>2, <1>3, <1>4, PTL DEF Spec, ImplementsPool, Pool!Spec

----------------------------------------------------------------------------
(* When hints are lost.                                                    *)

(* Only a list that was shortened under a delivery loses hints.            *)
LossIsKnown ==
  \A h \in stored : h \in Pending \cup delivered \cup dropped \/ h[2] \in unsafe

(* No step of the pool forgets a hint, unless it is an unsafe one.         *)
LEMMA PoolKeeps ==
  ASSUME [Pool!Next]_(Pool!pool)
  PROVE  Pending \cup delivered \cup dropped \cup Open
           \subseteq Pending' \cup delivered' \cup dropped' \cup Open'
<1>1. CASE UNCHANGED Pool!pool
  BY <1>1, PoolVariables DEF Open, Pool!pool
<1>2. CASE Pool!Next
  <2>1. Open \subseteq Open'
    BY <1>2 DEF Pool!Next, Open
  <2>2. ASSUME NEW new, Pool!Store(new)
        PROVE  Pending \cup delivered \cup dropped \subseteq Pending' \cup delivered' \cup dropped'
    BY <2>2 DEF Pool!Store
  <2>3. ASSUME NEW h, Pool!Deliver(h)
        PROVE  Pending \cup delivered \cup dropped \subseteq Pending' \cup delivered' \cup dropped'
    BY <2>3 DEF Pool!Deliver
  <2>4. ASSUME NEW done, NEW lost, Pool!Release(done, lost)
        PROVE  Pending \cup delivered \cup dropped \cup Open
                 \subseteq Pending' \cup delivered' \cup dropped' \cup Open
    BY <2>4 DEF Pool!Release, Open
  <2> QED
    BY <1>2, <2>1, <2>2, <2>3, <2>4 DEF Pool!Next
<1> QED
  BY <1>1, <1>2

LEMMA LossStep ==
  ASSUME HandoffInv, CopiesMatch, LossIsKnown, [Next]_vars
  PROVE  LossIsKnown'
<1>1. stored \subseteq Hints /\ stored' \subseteq Hints
  BY InvariantStep DEF HandoffInv, TypeOK
<1>2. Pending \cup delivered \cup dropped \cup Open
        \subseteq Pending' \cup delivered' \cup dropped' \cup Open'
  BY PoolStep, PoolKeeps
<1>3. stored \subseteq Pending \cup delivered \cup dropped \cup Open
  BY <1>1 DEF LossIsKnown, Open
<1>4. stored' \subseteq stored \cup Pending' \cup dropped'
  <2>1. CASE \E w \in Writes, failed \in FailedLists : StoreHint(w, failed)
    <3>1. PICK w \in Writes, failed \in FailedLists : StoreHint(w, failed)
      BY <2>1
    <3> DEFINE new == {w} \X ToSet(failed)
    <3>2. PICK kept \in SUBSET new :
            /\ Pending' = Pending \cup kept
            /\ stored' = stored \cup kept
            /\ dropped' = dropped \cup (new \ kept)
            /\ kept = new \/ Cardinality(Pending') = MaxHints
      BY <3>1, StoredLists DEF HandoffInv
    <3> HIDE DEF new
    <3> QED
      BY <3>2
  <2>2. CASE ~\E w \in Writes, failed \in FailedLists : StoreHint(w, failed)
    <3>1. stored' = stored
      BY <2>2 DEF Next, StoreOrDeliver, Deliver, StartDelivery, Accepted, Failed, CountRetry,
         RemoveDelivered, GetOld, ExpireHints, ClearHints, ClearAllHints, vars, history
    <3> QED
      BY <3>1
  <2> QED
    BY <2>1, <2>2
<1> QED
  BY <1>1, <1>2, <1>3, <1>4 DEF LossIsKnown, Open

(* A hint that was stored is listed, delivered or given up on purpose,     *)
(* unless the list of its node was shortened under a delivery              *)
(* (hinted_handoff.go:196): no other interleaving loses one.               *)
THEOREM LossNeedsShortening == Spec => []LossIsKnown
<1>1. Init => HandoffInv /\ CopiesMatch /\ LossIsKnown
  BY InvariantAtStart DEF Init, LossIsKnown
<1>2. HandoffInv /\ CopiesMatch /\ LossIsKnown /\ [Next]_vars
        => (HandoffInv /\ CopiesMatch /\ LossIsKnown)'
  BY InvariantStep, PrefixStep, LossStep
<1> QED
  BY <1>1, <1>2, PTL DEF Spec

OneAtATime == \A n \in Nodes : \A j, k \in BusyWith(n) : j = k

(* "Ensures data isn't lost" does hold of young hints that nobody clears,  *)
(* as long as no two deliveries to one node overlap.                       *)
THEOREM NoLossWithoutOverlap == YoungSpec /\ []OneAtATime => []NoHintLost
<1>1. YoungSpec => Spec
  <2>1. [StoreOrDeliver]_vars => [Next]_vars
    BY DEF Next
  <2> QED
    BY <2>1, PTL DEF YoungSpec, Spec
<1>2. Init => unsafe = {}
  BY DEF Init
<1>3. TypeOK /\ unsafe = {} /\ OneAtATime /\ [StoreOrDeliver]_vars => (unsafe = {})'
  <2> SUFFICES ASSUME TypeOK, unsafe = {}, OneAtATime, StoreOrDeliver \/ UNCHANGED vars
               PROVE  unsafe' = {}
    OBVIOUS
  <2>1. ASSUME NEW k \in Deliverers, RemoveDelivered(k) PROVE unsafe' = {}
    <3>1. target[k] \in Nodes /\ k \in BusyWith(target[k])
      BY <2>1 DEF TypeOK, BusyWith, RemoveDelivered
    <3>2. unsafe' \subseteq {n \in {target[k]} : BusyWith(n) \ {k} # {}}
      BY <2>1 DEF RemoveDelivered, Shortened
    <3>3. BusyWith(target[k]) \ {k} = {}
      BY <3>1 DEF OneAtATime
    <3> QED
      BY <3>2, <3>3
  <2> QED
    BY <2>1 DEF StoreOrDeliver, Deliver, StoreHint, StartDelivery, Accepted, Failed, CountRetry,
       vars, history
<1>4. LossIsKnown /\ unsafe = {} => NoHintLost
  BY DEF LossIsKnown, NoHintLost
<1> QED
  BY <1>1, <1>2, <1>3, <1>4, TypeCorrect, LossNeedsShortening, PTL DEF YoungSpec
=============================================================================

------------------------ MODULE StorageEngineProofs ------------------------
(* The storage engine implements DurableMap, for any keys, values and      *)
(* limits, and an orderly shutdown loses nothing.                          *)
EXTENDS StorageEngine, FiniteSetTheorems, TLAPS

----------------------------------------------------------------------------
(* The inductive invariant.                                                *)

(* A file is written only while the lock is held, its entry is still in    *)
(* memory, and an eviction writes it because it has more to evict.  The    *)
(* next operation tries every key anew.                                    *)
WritingOK ==
  /\ writing # NoKey =>
       writing \in Cached /\ lock # "free" /\ (lock = "evicting" => toEvict > 0)
  /\ lock = "free" => tried = {}

(* A file that is not indexed is one whose removal failed.                 *)
NoStrayFile == Intact \ diskIndex \subseteq doubtful

Saved(k) == k \in Cached => k \in Intact /\ file[k].val = memCache[k].entry.val

(* What the shutdown has come by is on disk, and stays there.              *)
SavedSoFar ==
  \A k \in Keys \ doubtful :
    k # writing /\ (closed \/ (lock = "closing" /\ k \in tried)) => Saved(k)

EngineInv == TypeOK /\ IndexIsReadable /\ WritingOK /\ NoStrayFile /\ SavedSoFar

----------------------------------------------------------------------------
(* The step lemmas: types first.                                           *)

LEMMA AdmitType ==
  ASSUME TypeOK, NEW k \in Keys, NEW e \in Held, Admit(k, e)
  PROVE  /\ lock' \in {lock, "evicting"} /\ toEvict' \in Nat
         /\ memCache' = [memCache EXCEPT ![k] = e]
<1>1. Cardinality(Cached \cup {k}) \in Nat
  <2>1. Cached \cup {k} \in SUBSET Keys
    BY DEF Cached
  <2> QED
    BY <2>1, EngineAssumption, FS_Subset, FS_CardinalityType
<1> QED
  BY <1>1, EngineAssumption DEF Admit, TypeOK

LEMMA EntryTypes ==
  /\ \A v \in Values : NewEntry(v) \in Held
  /\ \A e \in Entry : Touched(e) \in Held
                      /\ Touched(e).entry.val = e.val
<1>1. ASSUME NEW v \in Values PROVE NewEntry(v) \in Held
  BY EngineAssumption DEF NewEntry, Entry, Held
<1>2. ASSUME NEW e \in Entry
      PROVE  Touched(e) \in Held /\ Touched(e).entry.val = e.val
  <2>1. e.count \in 1..HotCount /\ e.val \in Values /\ e = [val |-> e.val, count |-> e.count]
    BY DEF Entry
  <2>2. (IF e.count < HotCount THEN e.count + 1 ELSE e.count) \in 1..HotCount
    BY <2>1, EngineAssumption
  <2> QED
    BY <2>1, <2>2 DEF Touched, Entry, Held
<1> QED
  BY <1>1, <1>2

LEMMA TypeStep == TypeOK /\ WritingOK /\ [Next]_vars => TypeOK'
<1> SUFFICES ASSUME TypeOK, WritingOK, [Next]_vars PROVE TypeOK'
  OBVIOUS
<1> USE DEF TypeOK, Held
<1>1. ASSUME NEW k \in Keys, NEW v \in Values, Put(k, v) PROVE TypeOK'
  <2>1. NewEntry(v) \in Held
    BY EntryTypes
  <2> QED
    BY <1>1, <2>1, AdmitType DEF Put
<1>2. ASSUME NEW k \in Keys, GetFromMemory(k) PROVE TypeOK'
  <2>1. memCache[k].entry \in Entry /\ memCache[k].entry.val \in Values
    BY <1>2 DEF GetFromMemory, Cached, Entry
  <2>2. Touched(memCache[k].entry) \in Held
    BY <2>1, EntryTypes
  <2> QED
    BY <1>2, <2>1, <2>2 DEF GetFromMemory
<1>3. ASSUME NEW k \in Keys, GetFromDisk(k) PROVE TypeOK'
  <2>1. file[k] \in Entry /\ file[k].val \in Values
    BY <1>3 DEF GetFromDisk, Intact, Entry
  <2>2. Touched(file[k]) \in Held
    BY <2>1, EntryTypes
  <2> QED
    BY <1>3, <2>1, <2>2, AdmitType DEF GetFromDisk
<1>4. ASSUME NEW k \in Keys, GetNothing(k) PROVE TypeOK'
  BY <1>4 DEF GetNothing
<1>5. ASSUME NEW k \in Keys, Delete(k) PROVE TypeOK'
  BY <1>5 DEF Delete
<1>6. ASSUME NEW k \in Keys, BeginWrite(k) PROVE TypeOK'
  BY <1>6 DEF BeginWrite
<1>7. ASSUME NEW k \in Keys, EndWrite(k) PROVE TypeOK'
  <2>1. memCache[k].entry \in Entry
    BY <1>7, MarkerAssumption DEF EndWrite, WritingOK, Cached
  <2>2. lock = "evicting" => toEvict > 0
    BY <1>7, MarkerAssumption DEF EndWrite, WritingOK
  <2> QED
    BY <1>7, <2>1, <2>2 DEF EndWrite
<1>8. ASSUME NEW k \in Keys, OpenFails(k) PROVE TypeOK'
  BY <1>8 DEF OpenFails
<1>9. ASSUME NEW k \in Keys, WriteFails(k) PROVE TypeOK'
  BY <1>9 DEF WriteFails
<1>10. ASSUME NEW k \in Keys, Age(k) PROVE TypeOK'
  BY <1>10 DEF Age, Cached
<1>11. CASE Release
  BY <1>11 DEF Release
<1>12. CASE Close
  BY <1>12 DEF Close
<1>13. CASE Restart
  BY <1>13 DEF Restart, Intact
<1>14. CASE UNCHANGED vars
  BY <1>14 DEF vars
<1> QED
  BY <1>1, <1>2, <1>3, <1>4, <1>5, <1>6, <1>7, <1>8, <1>9, <1>10, <1>11, <1>12,
     <1>13, <1>14 DEF Next

----------------------------------------------------------------------------
(* How the steps change what is in memory.                                 *)

LEMMA AdmitCaches ==
  ASSUME TypeOK, NEW k \in Keys, NEW e \in Held, Admit(k, e)
  PROVE  /\ Cached' = Cached \cup {k}
         /\ \A j \in Keys : memCache'[j] = IF j = k THEN e ELSE memCache[j]
<1>1. memCache' = [memCache EXCEPT ![k] = e]
  BY DEF Admit
<1>2. e # Absent
  BY MarkerAssumption
<1> QED
  BY <1>1, <1>2 DEF TypeOK, Cached

(* A cached entry and an intact file are proper ones.                      *)
LEMMA Proper ==
  ASSUME TypeOK
  PROVE  /\ \A k \in Cached : /\ memCache[k] \in Held
                              /\ memCache[k].entry \in Entry
                              /\ memCache[k].entry.val \in Values
         /\ \A k \in Intact : file[k] \in Entry /\ file[k].val \in Values
  BY DEF TypeOK, Cached, Intact, Held, Entry

(* Using an entry, or letting it age, leaves it in memory as it is.        *)
LEMMA TouchKeeps ==
  ASSUME TypeOK, NEW k \in Keys, GetFromMemory(k) \/ Age(k)
  PROVE  /\ Cached' = Cached
         /\ \A j \in Cached : memCache'[j].entry.val = memCache[j].entry.val
<1>1. k \in Cached
  BY DEF GetFromMemory, Age
<1>2. PICK e \in Held : /\ memCache' = [memCache EXCEPT ![k] = e]
                        /\ e.entry.val = memCache[k].entry.val
  <2>1. CASE GetFromMemory(k)
    BY <1>1, <2>1, Proper, EntryTypes DEF GetFromMemory
  <2>2. CASE Age(k)
    <3>1. memCache[k] \in Held
      BY <1>1, Proper
    <3>2. [memCache[k] EXCEPT !.old = TRUE] \in Held
          /\ [memCache[k] EXCEPT !.old = TRUE].entry = memCache[k].entry
      BY <3>1 DEF Held
    <3> QED
      BY <2>2, <3>2 DEF Age
  <2> QED
    BY <2>1, <2>2
<1>3. e # Absent
  BY MarkerAssumption
<1> QED
  BY <1>1, <1>2, <1>3 DEF TypeOK, Cached

(* A written file is the entry that memory has or had.                     *)
LEMMA EndWriteStores ==
  ASSUME TypeOK, WritingOK, NEW k \in Keys, EndWrite(k)
  PROVE  /\ k \in Cached /\ lock # "free"
         /\ Intact' = Intact \cup {k} /\ diskIndex' = diskIndex \cup {k}
         /\ \A j \in Keys : file'[j] = IF j = k THEN memCache[k].entry ELSE file[j]
         /\ Cached' = IF lock = "evicting" THEN Cached \ {k} ELSE Cached
         /\ \A j \in Cached' : memCache'[j] = memCache[j]
<1>1. k \in Cached /\ lock # "free"
  BY MarkerAssumption DEF EndWrite, WritingOK
<1>2. memCache[k].entry \notin {Absent, Torn}
  BY <1>1, Proper, MarkerAssumption
<1> QED
  BY <1>1, <1>2 DEF EndWrite, TypeOK, Intact, Cached

----------------------------------------------------------------------------
(* The step lemma of the invariant, one action after the other.            *)

LEMMA InvStep == EngineInv /\ [Next]_vars => EngineInv'
<1> SUFFICES ASSUME EngineInv, [Next]_vars
             PROVE  (IndexIsReadable /\ WritingOK /\ NoStrayFile /\ SavedSoFar)'
  BY TypeStep DEF EngineInv
<1> DEFINE Goal == IndexIsReadable /\ WritingOK /\ NoStrayFile /\ SavedSoFar
<1> USE DEF IndexIsReadable, WritingOK, NoStrayFile, SavedSoFar, Saved
<1>0. TypeOK /\ (lock = "free" => writing = NoKey) /\ NoKey \notin Keys
  BY MarkerAssumption DEF EngineInv
<1>1. ASSUME NEW k \in Keys, NEW v \in Values, Put(k, v) PROVE Goal'
  <2>1. NewEntry(v) \in Held
    BY EntryTypes
  <2>2. Cached' = Cached \cup {k} /\ \A j \in Keys \ {k} : memCache'[j] = memCache[j]
    BY <1>0, <1>1, <2>1, AdmitCaches DEF Put
  <2>3. Intact' = Intact /\ lock = "free" /\ writing' = NoKey /\ lock' # "closing"
        /\ tried = {}
    BY <1>0, <1>1 DEF EngineInv, Put, Intact, Admit
  <2> QED
    BY <1>0, <1>1, <2>2, <2>3 DEF EngineInv, Put, Intact
<1>2. ASSUME NEW k \in Keys, GetFromMemory(k) PROVE Goal'
  <2>1. Intact' = Intact
    BY <1>2 DEF GetFromMemory, Intact
  <2> QED
    BY <1>0, <1>2, <2>1, TouchKeeps DEF EngineInv, GetFromMemory
<1>3. ASSUME NEW k \in Keys, GetFromDisk(k) PROVE Goal'
  <2>1. Touched(file[k]) \in Held /\ Touched(file[k]).entry.val = file[k].val
    BY <1>0, <1>3, Proper, EntryTypes DEF GetFromDisk
  <2>2. /\ Cached' = Cached \cup {k}
        /\ \A j \in Keys : memCache'[j] = IF j = k THEN Touched(file[k]) ELSE memCache[j]
    BY <1>0, <1>3, <2>1, AdmitCaches DEF GetFromDisk
  <2>3. /\ Intact' = Intact /\ k \in Intact
        /\ lock = "free" /\ writing' = NoKey /\ lock' # "closing" /\ tried = {}
    BY <1>0, <1>3 DEF EngineInv, GetFromDisk, Intact, Admit
  <2> QED
    BY <1>0, <1>3, <2>1, <2>2, <2>3 DEF EngineInv, GetFromDisk
<1>4. ASSUME NEW k \in Keys, GetNothing(k) PROVE Goal'
  BY <1>4 DEF EngineInv, GetNothing, Cached, Intact
<1>5. ASSUME NEW k \in Keys, Delete(k) PROVE Goal'
  <2>1. /\ Cached' = Cached \ {k} /\ Intact' \subseteq Intact
        /\ Intact \ {k} \subseteq Intact'
        /\ \A j \in Keys \ {k} : memCache'[j] = memCache[j] /\ file'[j] = file[j]
    BY <1>0, <1>5 DEF Delete, Cached, Intact, TypeOK
  <2>2. k \notin doubtful' => k \notin Intact' \/ (k \notin diskIndex /\ k \notin doubtful)
    BY <1>0, <1>5 DEF Delete, Intact, TypeOK
  <2>3. k \notin diskIndex => k \in doubtful \/ k \notin Intact
    BY <1>5 DEF EngineInv
  <2>4. lock = "free" /\ lock' = lock /\ writing' = NoKey /\ closed' = closed
    BY <1>0, <1>5 DEF Delete
  <2>5. NoStrayFile'
    BY <2>1, <2>2, <2>3, <1>5 DEF EngineInv, Delete
  <2> QED
    BY <1>0, <1>5, <2>1, <2>4, <2>5 DEF EngineInv, Delete
<1>6. ASSUME NEW k \in Keys, BeginWrite(k) PROVE Goal'
  <2>1. /\ Cached' = Cached /\ Intact' = Intact \ {k} /\ k \in Cached
        /\ \A j \in Keys \ {k} : file'[j] = file[j]
        /\ lock # "free" /\ (lock = "evicting" => toEvict > 0)
    BY <1>0, <1>6 DEF BeginWrite, Savable, Cold, Cached, Intact, TypeOK
  <2>2. writing' = k /\ writing = NoKey
    BY <1>6 DEF BeginWrite, Savable
  <2> QED
    BY <1>0, <1>6, <2>1, <2>2 DEF EngineInv, BeginWrite
<1>7. ASSUME NEW k \in Keys, EndWrite(k) PROVE Goal'
  <2>1. /\ k \in Cached /\ lock # "free"
        /\ Intact' = Intact \cup {k} /\ diskIndex' = diskIndex \cup {k}
        /\ \A j \in Keys : file'[j] = IF j = k THEN memCache[k].entry ELSE file[j]
        /\ Cached' = IF lock = "evicting" THEN Cached \ {k} ELSE Cached
        /\ \A j \in Cached' : memCache'[j] = memCache[j]
    BY <1>0, <1>7, EndWriteStores DEF EngineInv
  <2>2. /\ writing' = NoKey /\ writing = k /\ doubtful' = doubtful \ {k}
        /\ lock' = lock /\ closed' = closed /\ tried' = tried
    BY <1>7 DEF EndWrite
  <2>3. (IndexIsReadable /\ WritingOK /\ NoStrayFile)'
    BY <2>1, <2>2 DEF EngineInv
  <2>4. ASSUME NEW j \in Keys \ doubtful', closed' \/ (lock' = "closing" /\ j \in tried'),
               j \in Cached'
        PROVE  j \in Intact' /\ file'[j].val = memCache'[j].entry.val
    BY <1>0, <2>1, <2>2, <2>4 DEF EngineInv
  <2> QED
    BY <2>3, <2>4
<1>8. ASSUME NEW k \in Keys, OpenFails(k) PROVE Goal'
  BY <1>8 DEF EngineInv, OpenFails, Savable, Cached, Intact
<1>9. ASSUME NEW k \in Keys, WriteFails(k) PROVE Goal'
  BY <1>0, <1>9 DEF EngineInv, WriteFails, Cached, Intact
<1>10. ASSUME NEW k \in Keys, Age(k) PROVE Goal'
  <2>1. Intact' = Intact
    BY <1>10 DEF Age, Intact
  <2> QED
    BY <1>0, <1>10, <2>1, TouchKeeps DEF EngineInv, Age
<1>11. CASE Release
  <2>1. Cached' = Cached /\ Intact' = Intact /\ writing = NoKey
    BY <1>11 DEF Release, Cached, Intact
  <2>2. lock = "closing" => Cached \subseteq tried
    BY <1>11 DEF Release, Savable, Cached
  <2>3. (IndexIsReadable /\ WritingOK /\ NoStrayFile)'
    BY <1>11, <2>1 DEF EngineInv, Release
  <2>4. closed' => closed \/ lock = "closing"
    BY <1>11 DEF Release
  <2>5. ASSUME NEW j \in Cached, j \notin doubtful, closed'
        PROVE  j \in Intact /\ file[j].val = memCache[j].entry.val
    <3>1. j \in Keys /\ j # writing
      BY <2>1, MarkerAssumption DEF Cached
    <3> QED
      BY <2>2, <2>4, <2>5, <3>1 DEF EngineInv
  <2>6. SavedSoFar'
    BY <1>11, <2>1, <2>5 DEF Release
  <2> QED
    BY <2>3, <2>6
<1>12. CASE Close
  BY <1>0, <1>12 DEF EngineInv, Close, Cached, Intact
<1>13. CASE Restart
  <2>1. Cached' = {} /\ Intact' = Intact
    BY <1>13 DEF Restart, Cached, Intact
  <2> QED
    BY <1>0, <1>13, <2>1 DEF Restart
<1>14. CASE UNCHANGED vars
  BY <1>14 DEF EngineInv, vars, Cached, Intact
<1> QED
  BY <1>1, <1>2, <1>3, <1>4, <1>5, <1>6, <1>7, <1>8, <1>9, <1>10, <1>11, <1>12,
     <1>13, <1>14 DEF Next

(* The engine's parts fit together in every reachable state.               *)
THEOREM EngineInvariant == Spec => []EngineInv
<1>1. Init => EngineInv
  <2> SUFFICES ASSUME Init PROVE EngineInv
    OBVIOUS
  <2>1. Cached = {} /\ Intact = {}
    BY DEF Init, Cached, Intact
  <2>2. TypeOK
    BY DEF Init, TypeOK
  <2>3. IndexIsReadable /\ WritingOK /\ NoStrayFile
    BY <2>1 DEF Init, IndexIsReadable, WritingOK, NoStrayFile
  <2>4. SavedSoFar
    BY DEF Init, SavedSoFar
  <2> QED
    BY <2>2, <2>3, <2>4 DEF EngineInv
<1>2. EngineInv /\ [Next]_vars => EngineInv'
  BY InvStep
<1> QED
  BY <1>1, <1>2, PTL DEF Spec

(* Every variable of the engine keeps its type.                            *)
THEOREM TypeCorrect == Spec => []TypeOK
<1>1. EngineInv => TypeOK
  BY DEF EngineInv
<1> QED
  BY <1>1, EngineInvariant, PTL

(* The index never leads to a file that cannot be read, however many       *)
(* writes fail or are cut short (engine.go:139-160).                       *)
THEOREM IndexReadable == Spec => []IndexIsReadable
<1>1. EngineInv => IndexIsReadable
  BY DEF EngineInv
<1> QED
  BY <1>1, EngineInvariant, PTL

(* Close leaves on disk what readers saw (engine.go:281-291).              *)
THEOREM ShutdownIsDurable == Spec => []ShutdownKeepsData
<1>1. EngineInv => ShutdownKeepsData
  <2> SUFFICES ASSUME EngineInv, closed, lock = "free", NEW k \in Keys \ doubtful
               PROVE  Durable[k] = View[k]
    BY DEF ShutdownKeepsData
  <2>1. k # writing
    BY MarkerAssumption DEF EngineInv, WritingOK
  <2>2. CASE k \in Cached
    BY <2>1, <2>2 DEF EngineInv, SavedSoFar, Saved, Durable, View
  <2>3. CASE k \notin Cached
    BY <2>3 DEF EngineInv, NoStrayFile, Durable, View
  <2> QED
    BY <2>2, <2>3
<1> QED
  BY <1>1, EngineInvariant, PTL

----------------------------------------------------------------------------
(* The eviction: what it wants to move is what memory has too much.        *)

Excess == lock = "evicting" => Cardinality(Cached) <= MaxMemItems + toEvict

LEMMA CachedIsFinite ==
  /\ IsFiniteSet(Cached) /\ Cardinality(Cached) \in Nat
  /\ \A k \in Keys : IsFiniteSet(Cached \cup {k}) /\ Cardinality(Cached \cup {k}) \in Nat
<1>1. Cached \in SUBSET Keys /\ \A k \in Keys : Cached \cup {k} \in SUBSET Keys
  BY DEF Cached
<1> QED
  BY <1>1, EngineAssumption, FS_Subset, FS_CardinalityType

LEMMA AdmitExcess ==
  ASSUME TypeOK, lock = "free", NEW k \in Keys, NEW e \in Held, Admit(k, e)
  PROVE  Excess'
<1>1. Cached' = Cached \cup {k} /\ Cardinality(Cached \cup {k}) \in Nat
  BY AdmitCaches, CachedIsFinite
<1> QED
  BY <1>1, EngineAssumption DEF Admit, Excess

LEMMA ExcessStep == EngineInv /\ Excess /\ [Next]_vars => Excess'
<1> SUFFICES ASSUME EngineInv, Excess, [Next]_vars PROVE Excess'
  OBVIOUS
<1>0. TypeOK
  BY DEF EngineInv
<1>1. ASSUME lock' # "evicting" PROVE Excess'
  BY <1>1 DEF Excess
<1>2. ASSUME UNCHANGED <<lock, toEvict, memCache>> PROVE Excess'
  BY <1>2 DEF Excess, Cached
<1>3. ASSUME NEW k \in Keys, NEW v \in Values, Put(k, v) PROVE Excess'
  <2>1. NewEntry(v) \in Held
    BY EntryTypes
  <2> QED
    BY <1>0, <1>3, <2>1, AdmitExcess DEF Put
<1>4. ASSUME NEW k \in Keys, GetFromDisk(k) PROVE Excess'
  <2>1. Touched(file[k]) \in Held
    BY <1>0, <1>4, Proper, EntryTypes DEF GetFromDisk
  <2> QED
    BY <1>0, <1>4, <2>1, AdmitExcess DEF GetFromDisk
<1>5. ASSUME NEW k \in Keys, EndWrite(k) PROVE Excess'
  <2>1. CASE lock = "evicting"
    <3>1. Cached' = Cached \ {k} /\ k \in Cached /\ toEvict' = toEvict - 1
          /\ toEvict \in Nat
      BY <1>0, <1>5, <2>1, EndWriteStores DEF EngineInv, EndWrite, TypeOK
    <3>2. Cardinality(Cached') = Cardinality(Cached) - 1
      BY <3>1, CachedIsFinite, FS_RemoveElement
    <3> QED
      BY <2>1, <3>1, <3>2, CachedIsFinite, EngineAssumption DEF Excess
  <2>2. CASE lock # "evicting"
    BY <1>1, <1>5, <2>2 DEF EndWrite
  <2> QED
    BY <2>1, <2>2
<1>6. ASSUME NEW k \in Keys, GetFromMemory(k) \/ Delete(k) \/ Age(k) PROVE Excess'
  BY <1>1, <1>6 DEF GetFromMemory, Delete, Age
<1>7. ASSUME NEW k \in Keys, GetNothing(k) \/ BeginWrite(k) \/ OpenFails(k) \/ WriteFails(k)
      PROVE  Excess'
  BY <1>2, <1>7 DEF GetNothing, BeginWrite, OpenFails, WriteFails
<1>8. CASE Release \/ Close \/ Restart
  BY <1>1, <1>8 DEF Release, Close, Restart
<1>9. CASE UNCHANGED vars
  BY <1>2, <1>9 DEF vars
<1> QED
  BY <1>3, <1>4, <1>5, <1>6, <1>7, <1>8, <1>9 DEF Next

(* An eviction moves all it may, as long as there is too much               *)
(* (engine.go:179-212), for any number of keys and room for any of them.   *)
THEOREM EvictionDoesAll == Spec => EvictionIsThorough
<1>1. Init => Excess
  BY DEF Init, Excess
<1>2. EngineInv /\ Excess /\ [Next]_vars =>
        [lock = "evicting" /\ lock' = "free" /\ memCache' = memCache =>
           Cardinality(Cached) <= MaxMemItems
           \/ \A k \in Cached : ~Cold(k) \/ k \in tried]_vars
  <2> SUFFICES ASSUME EngineInv, Excess, [Next]_vars,
                      lock = "evicting", lock' = "free", memCache' = memCache
               PROVE  Cardinality(Cached) <= MaxMemItems
                      \/ \A k \in Cached : ~Cold(k) \/ k \in tried
    OBVIOUS
  <2>1. CASE Release
    <3>1. toEvict \in Nat /\ \A k \in Keys \ tried : ~(toEvict > 0 /\ Cold(k))
      BY <2>1 DEF Release, Savable, EngineInv, TypeOK
    <3>2. toEvict = 0 => Cardinality(Cached) <= MaxMemItems
      BY EngineAssumption DEF Excess
    <3> QED
      BY <3>1, <3>2 DEF Cached
  <2>2. CASE Restart
    <3>1. Cached = {}
      BY <2>2 DEF Restart, Cached
    <3> QED
      BY <3>1
  <2>3. Release \/ Restart
    BY DEF Next, Put, GetFromMemory, GetFromDisk, GetNothing, Delete, BeginWrite, EndWrite,
           OpenFails, WriteFails, Age, Close, vars
  <2> QED
    BY <2>1, <2>2, <2>3
<1> QED
  BY <1>1, <1>2, ExcessStep, EngineInvariant, PTL DEF Spec, EvictionIsThorough

----------------------------------------------------------------------------
(* What a restart finds.                                                   *)

LEMMA RestartShowsFiles ==
  ASSUME TypeOK, Restart
  PROVE  \A k \in Keys : /\ View'[k] = Durable[k]
                         /\ k \in Intact => Durable[k] \in Values
<1>1. Cached' = {} /\ Intact' = Intact /\ diskIndex' = Intact /\ file' = file
  BY DEF Restart, Cached, Intact
<1>2. \A k \in Intact : file[k].val \in Values
  BY Proper
<1> QED
  BY <1>1, <1>2 DEF View, Durable

(* An indexed file that does not decode is being written, or its last      *)
(* writing failed.                                                         *)
TornIsKnown == diskIndex \subseteq Intact \cup doubtful \cup {writing}

LEMMA TornStep == EngineInv /\ TornIsKnown /\ [Next]_vars => TornIsKnown'
<1> SUFFICES ASSUME EngineInv, TornIsKnown, [Next]_vars PROVE TornIsKnown'
  OBVIOUS
<1> USE DEF TornIsKnown
<1>1. TypeOK /\ WritingOK /\ (lock = "free" => writing = NoKey) /\ NoKey \notin Keys
  BY MarkerAssumption DEF EngineInv, WritingOK
<1>2. ASSUME UNCHANGED <<file, diskIndex, writing>>, doubtful \subseteq doubtful'
      PROVE  TornIsKnown'
  BY <1>2 DEF Intact
<1>3. ASSUME NEW k \in Keys, Delete(k) PROVE TornIsKnown'
  <2>1. diskIndex' = diskIndex \ {k} /\ writing' = writing /\ doubtful \ {k} \subseteq doubtful'
    BY <1>3 DEF Delete
  <2>2. Intact \ {k} \subseteq Intact'
    BY <1>1, <1>3 DEF Delete, Intact, TypeOK
  <2> QED
    BY <2>1, <2>2
<1>4. ASSUME NEW k \in Keys, BeginWrite(k) PROVE TornIsKnown'
  <2>1. Intact \ {k} \subseteq Intact' /\ writing = NoKey /\ writing' = k
        /\ diskIndex' = diskIndex /\ doubtful' = doubtful /\ diskIndex \subseteq Keys
    BY <1>1, <1>4 DEF BeginWrite, Savable, Intact, TypeOK
  <2> QED
    BY <1>1, <2>1
<1>5. ASSUME NEW k \in Keys, EndWrite(k) PROVE TornIsKnown'
  <2>1. Intact' = Intact \cup {k} /\ diskIndex' = diskIndex \cup {k}
    BY <1>1, <1>5, EndWriteStores
  <2>2. writing = k /\ doubtful' = doubtful \ {k}
    BY <1>5 DEF EndWrite
  <2> QED
    BY <2>1, <2>2
<1>6. ASSUME NEW k \in Keys, WriteFails(k) PROVE TornIsKnown'
  BY <1>6 DEF WriteFails, Intact
<1>7. CASE Restart
  BY <1>7 DEF Restart, Intact
<1>8. ASSUME NEW k \in Keys, NEW v \in Values, Put(k, v) PROVE TornIsKnown'
  BY <1>2, <1>8 DEF Put
<1>9. ASSUME NEW k \in Keys,
             GetFromMemory(k) \/ GetFromDisk(k) \/ GetNothing(k) \/ OpenFails(k) \/ Age(k)
      PROVE  TornIsKnown'
  BY <1>2, <1>9 DEF GetFromMemory, GetFromDisk, GetNothing, OpenFails, Age
<1>10. CASE Release \/ Close \/ UNCHANGED vars
  BY <1>2, <1>10 DEF Release, Close, vars
<1> QED
  BY <1>3, <1>4, <1>5, <1>6, <1>7, <1>8, <1>9, <1>10 DEF Next

(* A crash costs no key its last version on disk, but for the one file     *)
(* that is being written (engine.go:225) and files whose writing failed    *)
(* and was not made up for: what DiskKeepsAVersion asks for does hold of   *)
(* all the others.                                                         *)
THEOREM OnlyTornFilesAreLost ==
  Spec => [][Restart => \A k \in diskIndex \ (doubtful \cup {writing}) : View'[k] # Absent]_vars
<1>1. Init => TornIsKnown
  BY DEF Init, TornIsKnown
<1>2. EngineInv /\ TornIsKnown /\ [Next]_vars =>
        [Restart => \A k \in diskIndex \ (doubtful \cup {writing}) : View'[k] # Absent]_vars
  <2> SUFFICES ASSUME EngineInv, TornIsKnown, Restart,
                      NEW k \in diskIndex \ (doubtful \cup {writing})
               PROVE  View'[k] # Absent
    OBVIOUS
  <2>1. k \in Intact /\ k \in Keys
    BY DEF TornIsKnown, Intact
  <2> QED
    BY <2>1, RestartShowsFiles, EngineAssumption DEF EngineInv
<1> QED
  BY <1>1, <1>2, TornStep, EngineInvariant, PTL DEF Spec

(* A restart after an orderly shutdown shows what readers saw before it,   *)
(* but for keys whose saving or removal failed, or that were put too late. *)
THEOREM OrderlyRestartIsUnseen ==
  Spec => [][Restart /\ closed /\ lock = "free" =>
               \A k \in Keys \ doubtful : View'[k] = View[k]]_vars
<1>1. TypeOK /\ ShutdownKeepsData =>
        [Restart /\ closed /\ lock = "free" =>
           \A k \in Keys \ doubtful : View'[k] = View[k]]_vars
  BY RestartShowsFiles DEF ShutdownKeepsData
<1> QED
  BY <1>1, TypeCorrect, ShutdownIsDurable, PTL

----------------------------------------------------------------------------
(* The refinement: every step of the engine is one of the map or a stutter.*)

LEMMA MapStep == EngineInv /\ [Next]_vars => [Map!Next]_Map!map
<1> SUFFICES ASSUME EngineInv, [Next]_vars PROVE [Map!Next]_Map!map
  OBVIOUS
<1>0. TypeOK
  BY DEF EngineInv
<1>1. ASSUME NEW k \in Keys, NEW v \in Values, Put(k, v) PROVE Map!Put(k, v)
  <2>1. NewEntry(v) \in Held /\ NewEntry(v).entry.val = v
    BY EntryTypes DEF NewEntry
  <2>2. /\ Cached' = Cached \cup {k} /\ Intact' = Intact
        /\ \A j \in Keys : memCache'[j] = IF j = k THEN NewEntry(v) ELSE memCache[j]
    BY <1>0, <1>1, <2>1, AdmitCaches DEF Put, Intact
  <2>3. View' = [View EXCEPT ![k] = v]
    BY <1>1, <2>1, <2>2 DEF View, Put
  <2>4. UNCHANGED <<Durable, answer>>
    BY <1>1, <2>2 DEF Durable, Put
  <2>5. lock = "free" /\ (lock' # "free") \in BOOLEAN
    BY <1>1 DEF Put
  <2> QED
    BY <2>3, <2>4, <2>5 DEF Map!Put
<1>2. ASSUME NEW k \in Keys, GetFromMemory(k) PROVE Map!Get(k)
  <2>1. UNCHANGED <<View, Durable>>
    BY <1>0, <1>2, TouchKeeps DEF View, Durable, Intact, GetFromMemory
  <2>2. answer' = View[k]
    BY <1>2 DEF GetFromMemory, View
  <2>3. lock = "free" /\ (lock' # "free") \in BOOLEAN
    BY <1>2 DEF GetFromMemory
  <2> QED
    BY <2>1, <2>2, <2>3 DEF Map!Get
<1>3. ASSUME NEW k \in Keys, GetFromDisk(k) PROVE Map!Get(k)
  <2>1. Touched(file[k]) \in Held /\ Touched(file[k]).entry.val = file[k].val
    BY <1>0, <1>3, Proper, EntryTypes DEF GetFromDisk
  <2>2. /\ Cached' = Cached \cup {k} /\ Intact' = Intact
        /\ \A j \in Keys : memCache'[j] = IF j = k THEN Touched(file[k]) ELSE memCache[j]
    BY <1>0, <1>3, <2>1, AdmitCaches DEF GetFromDisk, Intact
  <2>3. UNCHANGED <<View, Durable>>
    BY <1>3, <2>1, <2>2 DEF View, Durable, GetFromDisk
  <2>4. answer' = View[k]
    BY <1>3 DEF GetFromDisk, View
  <2>5. lock = "free" /\ (lock' # "free") \in BOOLEAN
    BY <1>3 DEF GetFromDisk
  <2> QED
    BY <2>3, <2>4, <2>5 DEF Map!Get
<1>4. ASSUME NEW k \in Keys, GetNothing(k) PROVE Map!Get(k)
  <2>1. UNCHANGED <<View, Durable>>
    BY <1>4 DEF View, Durable, Cached, Intact, GetNothing
  <2>2. answer' = View[k]
    BY <1>4 DEF GetNothing, View
  <2>3. lock = "free" /\ (lock' # "free") \in BOOLEAN
    BY <1>4 DEF GetNothing
  <2> QED
    BY <2>1, <2>2, <2>3 DEF Map!Get
<1>5. ASSUME NEW k \in Keys, Delete(k) PROVE Map!Delete(k)
  <2>1. /\ Cached' = Cached \ {k} /\ diskIndex' = diskIndex \ {k}
        /\ \A j \in Keys \ {k} : memCache'[j] = memCache[j] /\ file'[j] = file[j]
        /\ Intact' \ {k} = Intact \ {k}
    BY <1>0, <1>5 DEF Delete, Cached, Intact, TypeOK
  <2>2. View' = [View EXCEPT ![k] = Absent]
    BY <2>1 DEF View
  <2>3. Durable' = Durable \/ Durable' = [Durable EXCEPT ![k] = Absent]
    <3>1. CASE file' = file
      BY <3>1 DEF Durable, Intact
    <3>2. CASE file' = [file EXCEPT ![k] = Absent]
      BY <1>0, <3>2 DEF Durable, Intact, TypeOK
    <3> QED
      BY <1>5, <3>1, <3>2 DEF Delete
  <2> QED
    BY <1>5, <2>2, <2>3 DEF Map!Delete, Delete
<1>6. ASSUME NEW k \in Keys, BeginWrite(k) PROVE Map!BeginPersist(k)
  <2>1. /\ Cached' = Cached /\ Intact' = Intact \ {k} /\ k \in Cached
        /\ \A j \in Keys \ {k} : file'[j] = file[j]
        /\ UNCHANGED <<memCache, diskIndex, answer, lock>> /\ lock # "free"
    BY <1>0, <1>6 DEF BeginWrite, Savable, Cold, Cached, Intact, TypeOK
  <2>2. View' = View
    BY <2>1 DEF View
  <2>3. Durable' = [Durable EXCEPT ![k] = Absent]
    BY <2>1 DEF Durable
  <2> QED
    BY <2>1, <2>2, <2>3 DEF Map!BeginPersist
<1>7. ASSUME NEW k \in Keys, EndWrite(k) PROVE Map!EndPersist(k)
  <2>1. /\ k \in Cached /\ lock # "free"
        /\ Intact' = Intact \cup {k} /\ diskIndex' = diskIndex \cup {k}
        /\ \A j \in Keys : file'[j] = IF j = k THEN memCache[k].entry ELSE file[j]
        /\ Cached' = IF lock = "evicting" THEN Cached \ {k} ELSE Cached
        /\ \A j \in Cached' : memCache'[j] = memCache[j]
    BY <1>0, <1>7, EndWriteStores DEF EngineInv
  <2>2. View' = View
    BY <2>1 DEF View
  <2>3. Durable' = [Durable EXCEPT ![k] = View[k]]
    BY <2>1 DEF Durable, View
  <2>4. UNCHANGED <<answer, lock>>
    BY <1>7 DEF EndWrite
  <2> QED
    BY <2>1, <2>2, <2>3, <2>4 DEF Map!EndPersist
<1>8. ASSUME NEW k \in Keys, OpenFails(k) \/ WriteFails(k) PROVE UNCHANGED Map!map
  BY <1>8 DEF OpenFails, WriteFails, Map!map, View, Durable, Cached, Intact
<1>9. ASSUME NEW k \in Keys, Age(k) PROVE UNCHANGED Map!map
  BY <1>0, <1>9, TouchKeeps DEF View, Durable, Intact, Age, Map!map
<1>10. CASE Release \/ Close
  <2>1. (lock' # "free") = ~(lock # "free")
    BY <1>10 DEF Release, Close
  <2>2. UNCHANGED <<View, Durable, answer>>
    BY <1>10 DEF Release, Close, View, Durable, Cached, Intact
  <2> QED
    BY <2>1, <2>2 DEF Map!BeginOrEndWork, Map!Next
<1>11. CASE Restart
  <2>1. Cached' = {} /\ Intact' = Intact /\ diskIndex' = Intact
    BY <1>11 DEF Restart, Cached, Intact
  <2>2. View' = Durable /\ Durable' = Durable
    BY <1>11, <2>1 DEF View, Durable, Restart
  <2> QED
    BY <1>11, <2>2 DEF Map!Next, Map!Restart, Restart
<1>12. CASE UNCHANGED vars
  BY <1>12 DEF vars, Map!map, View, Durable, Cached, Intact
<1> QED
  BY <1>1, <1>2, <1>3, <1>4, <1>5, <1>6, <1>7, <1>8, <1>9, <1>10, <1>11, <1>12
     DEF Next, Map!Next

(* The engine is a map in front of a disk: reads return the last value put,*)
(* wherever it is kept, and a restart the last one saved.                  *)
THEOREM EngineImplementsMap == Spec => ImplementsMap
<1>1. Init => Map!Init
  BY DEF Init, Map!Init, View, Durable, Cached, Intact
<1>2. EngineInv /\ [Next]_vars => [Map!Next]_Map!map
  BY MapStep
<1> QED
  BY <1>1, <1>2, EngineInvariant, PTL DEF Spec, Map!Spec, ImplementsMap
=============================================================================

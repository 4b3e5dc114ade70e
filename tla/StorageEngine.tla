--------------------------- MODULE StorageEngine ---------------------------
(***************************************************************************)
(* internal/storage/engine.go: the memory cache, the files, the index of   *)
(* the files, the eviction of cold entries, shutdown and recovery.         *)
(*                                                                         *)
(* Every operation runs under one lock; the lock is still a variable here  *)
(* because evictions and shutdown write files one after the other and the  *)
(* process may die between two of them or within one.                      *)
(*                                                                         *)
(* Abstractions.  The bytes of a value, its compression and the encoding   *)
(* of a file are left out: a file holds an entry, or is Torn (opened for   *)
(* writing, which truncates it, and not finished: it does not decode).     *)
(* Time is the flag "old": not touched for more than five minutes.         *)
(***************************************************************************)
EXTENDS Naturals, FiniteSets

CONSTANTS
  Keys, Values,
  MaxMemItems,   \* StorageEngine.maxMemItems
  HotCount,      \* accesses from which on an entry is never evicted (5)
  Absent, Torn   \* no entry or no file; a file that does not decode

ASSUME EngineAssumption ==
  /\ IsFiniteSet(Keys)
  /\ MaxMemItems \in Nat \ {0}  \* NewNode replaces smaller ones by 1000
  /\ HotCount \in Nat \ {0, 1}
  /\ Absent \notin Values
NoKey == Absent

(* AccessCount stops mattering at HotCount, and is counted up to there.    *)
Entry == [val : Values, count : 1..HotCount]
Held == [entry : Entry, old : BOOLEAN]

ASSUME MarkerAssumption ==
  /\ NoKey \notin Keys
  /\ Absent \notin Held \cup Entry /\ Torn \notin Entry

VARIABLES
  memCache,   \* memCache[k]: the entry of k in memory
  diskIndex,  \* the keys of diskIndex
  file,       \* file[k]: the file of k
  lock,       \* "free", or what the operation that holds mu is at
  toEvict,    \* how many entries the eviction still wants to move
  tried,      \* the keys the eviction or the shutdown has come by
  writing,    \* the key whose file is being written
  closed,     \* Close has returned
  answer,     \* what the last Get returned
  doubtful    \* history: keys a failed or late operation left different on disk

vars == <<memCache, diskIndex, file, lock, toEvict, tried, writing, closed,
          answer, doubtful>>

Cached == {k \in Keys : memCache[k] # Absent}
Intact == {k \in Keys : file[k] \notin {Absent, Torn}}

TypeOK ==
  /\ \A k \in Keys :
       /\ memCache[k] = Absent \/ memCache[k] \in Held
       /\ file[k] \in {Absent, Torn} \/ file[k] \in Entry
  /\ DOMAIN memCache = Keys /\ DOMAIN file = Keys
  /\ diskIndex \subseteq Keys /\ tried \subseteq Keys /\ doubtful \subseteq Keys
  /\ lock \in {"free", "evicting", "closing"}
  /\ toEvict \in Nat
  /\ writing \in Keys \cup {NoKey}
  /\ closed \in BOOLEAN
  /\ answer \in Values \cup {Absent}

Init ==
  /\ memCache = [k \in Keys |-> Absent]
  /\ diskIndex = {}
  /\ file = [k \in Keys |-> Absent]
  /\ lock = "free" /\ toEvict = 0 /\ tried = {} /\ writing = NoKey
  /\ closed = FALSE
  /\ answer = Absent
  /\ doubtful = {}

----------------------------------------------------------------------------
NewEntry(v) == [entry |-> [val |-> v, count |-> 1], old |-> FALSE]
Touched(e) ==
  [entry |-> [e EXCEPT !.count = IF @ < HotCount THEN @ + 1 ELSE @], old |-> FALSE]

(* The entry goes to memory; if that makes too many, evictColdData.        *)
Admit(k, e) ==
  LET size == Cardinality(Cached \cup {k}) IN
  /\ memCache' = [memCache EXCEPT ![k] = e]
  /\ IF size > MaxMemItems
     THEN lock' = "evicting" /\ toEvict' = size - MaxMemItems
     ELSE UNCHANGED <<lock, toEvict>>

Put(k, v) ==
  /\ lock = "free"
  /\ Admit(k, NewEntry(v))
  /\ doubtful' = IF closed THEN doubtful \cup {k} ELSE doubtful
  /\ UNCHANGED <<diskIndex, file, tried, writing, closed, answer>>

GetFromMemory(k) ==
  /\ lock = "free"
  /\ k \in Cached
  /\ memCache' = [memCache EXCEPT ![k] = Touched(@.entry)]
  /\ answer' = memCache[k].entry.val
  /\ UNCHANGED <<diskIndex, file, lock, toEvict, tried, writing, closed, doubtful>>

(* The file and the index entry stay when the entry moves to memory.       *)
GetFromDisk(k) ==
  /\ lock = "free"
  /\ k \in diskIndex \ Cached
  /\ k \in Intact
  /\ Admit(k, Touched(file[k]))
  /\ answer' = file[k].val
  /\ UNCHANGED <<diskIndex, file, tried, writing, closed, doubtful>>

GetNothing(k) ==
  /\ lock = "free"
  /\ k \notin Cached \cup diskIndex
  /\ answer' = Absent
  /\ UNCHANGED <<memCache, diskIndex, file, lock, toEvict, tried, writing, closed, doubtful>>

(* The error of os.Remove is ignored, and a file that is not indexed is    *)
(* not looked for.                                                         *)
Delete(k) ==
  /\ lock = "free"
  /\ memCache' = [memCache EXCEPT ![k] = Absent]
  /\ diskIndex' = diskIndex \ {k}
  /\ \/ k \in diskIndex
        /\ file' = [file EXCEPT ![k] = Absent]
        /\ doubtful' = doubtful \ {k}
     \/ k \in diskIndex
        /\ file' = file
        /\ doubtful' = doubtful \cup {k}
     \/ k \notin diskIndex
        /\ UNCHANGED <<file, doubtful>>
  /\ UNCHANGED <<lock, toEvict, tried, writing, closed, answer>>

----------------------------------------------------------------------------
(* evictColdData and Close save entries one by one, in the order of Go's   *)
(* map iteration, that is in any order.                                    *)

Cold(k) ==
  /\ k \in Cached
  /\ memCache[k].entry.count < HotCount
  /\ memCache[k].old

SavableStale(k) ==  \* mutant: shutdown skips what already has a file
  /\ writing = NoKey
  /\ k \notin tried
  /\ \/ lock = "evicting" /\ toEvict > 0 /\ Cold(k)
     \/ lock = "closing" /\ k \in Cached \ diskIndex

Savable(k) ==
  /\ writing = NoKey
  /\ k \notin tried
  /\ \/ lock = "evicting" /\ toEvict > 0 /\ Cold(k)
     \/ lock = "closing" /\ k \in Cached

(* os.WriteFile truncates the file, then writes it.                        *)
BeginWrite(k) ==
  /\ Savable(k)
  /\ writing' = k
  /\ tried' = tried \cup {k}
  /\ file' = [file EXCEPT ![k] = Torn]
  /\ UNCHANGED <<memCache, diskIndex, lock, toEvict, closed, answer, doubtful>>

EndWriteValueOnly(k) ==  \* mutant: the access count is not written
  /\ writing = k
  /\ file' = [file EXCEPT ![k] = memCache[k].entry.val]
  /\ diskIndex' = diskIndex \cup {k}
  /\ writing' = NoKey
  /\ doubtful' = doubtful \ {k}
  /\ IF lock = "evicting"
     THEN memCache' = [memCache EXCEPT ![k] = Absent] /\ toEvict' = toEvict - 1
     ELSE UNCHANGED <<memCache, toEvict>>
  /\ UNCHANGED <<lock, tried, closed, answer>>

EndWrite(k) ==
  /\ writing = k
  /\ file' = [file EXCEPT ![k] = memCache[k].entry]
  /\ diskIndex' = diskIndex \cup {k}
  /\ writing' = NoKey
  /\ doubtful' = doubtful \ {k}
  /\ IF lock = "evicting"
     THEN memCache' = [memCache EXCEPT ![k] = Absent] /\ toEvict' = toEvict - 1
     ELSE UNCHANGED <<memCache, toEvict>>
  /\ UNCHANGED <<lock, tried, closed, answer>>

(* The file cannot be opened, or cannot be written to the end.  The entry  *)
(* stays in memory and the error goes to the log.                          *)
OpenFails(k) ==
  /\ Savable(k)
  /\ tried' = tried \cup {k}
  /\ doubtful' = doubtful \cup {k}
  /\ UNCHANGED <<memCache, diskIndex, file, lock, toEvict, writing, closed, answer>>

WriteFailsForgets(k) ==  \* mutant: the entry leaves memory all the same
  /\ writing = k
  /\ writing' = NoKey
  /\ memCache' = [memCache EXCEPT ![k] = Absent]
  /\ doubtful' = doubtful \cup {k}
  /\ UNCHANGED <<diskIndex, file, lock, toEvict, tried, closed, answer>>

WriteFails(k) ==
  /\ writing = k
  /\ writing' = NoKey
  /\ doubtful' = doubtful \cup {k}
  /\ UNCHANGED <<memCache, diskIndex, file, lock, toEvict, tried, closed, answer>>

StopsShort ==  \* mutant: the loop is left with one entry too many
  /\ lock # "free"
  /\ writing = NoKey
  /\ toEvict <= 1 \/ ~\E k \in Keys : Savable(k)
  /\ lock' = "free" /\ tried' = {} /\ toEvict' = 0
  /\ closed' = (closed \/ lock = "closing")
  /\ UNCHANGED <<memCache, diskIndex, file, writing, answer, doubtful>>

Release ==
  /\ lock # "free"
  /\ writing = NoKey
  /\ ~\E k \in Keys : Savable(k)
  /\ lock' = "free" /\ tried' = {} /\ toEvict' = 0
  /\ closed' = (closed \/ lock = "closing")
  /\ UNCHANGED <<memCache, diskIndex, file, writing, answer, doubtful>>

Close ==
  /\ lock = "free"
  /\ ~closed
  /\ lock' = "closing"
  /\ UNCHANGED <<memCache, diskIndex, file, toEvict, tried, writing, closed, answer, doubtful>>

----------------------------------------------------------------------------
(* The process ends, in an orderly way or at any other moment, and         *)
(* NewStorageEngine loads the index from the files that decode.            *)
Restart ==
  /\ memCache' = [k \in Keys |-> Absent]
  /\ diskIndex' = Intact
  /\ lock' = "free" /\ toEvict' = 0 /\ tried' = {} /\ writing' = NoKey
  /\ closed' = FALSE
  /\ doubtful' = {}
  /\ UNCHANGED <<file, answer>>

(* Five minutes have passed since k was used; the operations are too short *)
(* for that to happen while one of them looks at k.                        *)
Age(k) ==
  /\ lock = "free"
  /\ k \in Cached /\ ~memCache[k].old
  /\ memCache' = [memCache EXCEPT ![k].old = TRUE]
  /\ UNCHANGED <<diskIndex, file, lock, toEvict, tried, writing, closed, answer, doubtful>>

Next ==
  \/ \E k \in Keys, v \in Values : Put(k, v)
  \/ \E k \in Keys :
       \/ GetFromMemory(k) \/ GetFromDisk(k) \/ GetNothing(k) \/ Delete(k)
       \/ BeginWrite(k) \/ EndWrite(k) \/ OpenFails(k) \/ WriteFails(k)
       \/ Age(k)
  \/ Release \/ Close \/ Restart

Spec == Init /\ [][Next]_vars

----------------------------------------------------------------------------
(* Properties.                                                             *)

View == [k \in Keys |->
  IF k \in Cached THEN memCache[k].entry.val
  ELSE IF k \in diskIndex \cap Intact THEN file[k].val ELSE Absent]
Durable == [k \in Keys |-> IF k \in Intact THEN file[k].val ELSE Absent]

(* Only clients and restarts change what readers get: evictions and the    *)
(* shutdown move entries without anyone noticing, whatever fails on the    *)
(* way, and no older file shows through.  A restart brings back what was   *)
(* last written to disk.                                                   *)
Map == INSTANCE DurableMap WITH
  view <- View, durable <- Durable, busy <- lock # "free"
ImplementsMap == Map!Spec

(* An index entry without a cached value leads to a file that can be read, *)
(* whatever failed or was cut short before.                                *)
IndexIsReadable == diskIndex \subseteq Cached \cup Intact

(* After an orderly shutdown the disk has what readers saw, but for keys   *)
(* whose saving or removal failed and those put after the shutdown.        *)
ShutdownKeepsData ==
  closed /\ lock = "free" => \A k \in Keys \ doubtful : Durable[k] = View[k]

(* An eviction leaves too many entries in memory only if all of them are   *)
(* hot, were used lately or could not be saved.                            *)
EvictionIsThorough ==
  [][lock = "evicting" /\ lock' = "free" /\ memCache' = memCache =>
       Cardinality(Cached) <= MaxMemItems \/ \A k \in Cached : ~Cold(k) \/ k \in tried]_vars

----------------------------------------------------------------------------
(* What the documents promise and the code does not keep.                  *)

(* "Automatic recovery from disk on restart": a restart brings back some    *)
(* version of every key that the index knows to be on disk and that        *)
(* readers still saw.  Its file is truncated before it is written again,   *)
(* so a crash, or an error, in between loses the older version too.        *)
DiskKeepsAVersion ==
  [][Restart => \A k \in diskIndex : View[k] # Absent => View'[k] # Absent]_vars
=============================================================================

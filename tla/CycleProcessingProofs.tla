---------------------- MODULE CycleProcessingProofs -----------------------
(***************************************************************************)
(* Proofs about CycleProcessing, for any set of records, senders, modes    *)
(* and limits.  Beside the types the induction needs: the counter the      *)
(* archiver is at bounds the counter of every record it applied, a call    *)
(* that is past its insert has its record written or refused, a counter's  *)
(* entries are for different records, and the cycles table is finite.      *)
(*                                                                         *)
(* Also about the cycles of DataSync, which processCycles and storeCycles  *)
(* put into the same table, for any limits of requests and any network.    *)
(***************************************************************************)
EXTENDS CycleProcessing, DataDownload, SequenceTheorems, FiniteSetTheorems, TLAPS

BoundedByCurrent == \A r \in Applied : Counter[r] <= currentCycleCounter

\* A call that is past its insert leaves its record behind when it ends.
PastInsert ==
  \A t \in tasks : t.pc \in {"global", "sleep", "clear"} =>
    t.record \in cyclesTable \cup failedWrites

Distinct(entries) ==
  \A i, j \in DOMAIN entries : entries[i].record = entries[j].record => i = j

IndInv ==
  /\ TypeOK
  /\ IsFiniteSet(cyclesTable)
  /\ BoundedByCurrent
  /\ PastInsert
  /\ \A c \in Counters : Distinct(receivedCycleTracker[c])
  /\ OneRecordPerCounter
  /\ OneCacheLoader

-----------------------------------------------------------------------------
(* What the operators on the tracker return *)

\* Voting keeps a sequence of entries a sequence of entries.
LEMMA VoteType ==
  ASSUME NEW entries \in Seq(Entry), NEW r \in Record, NEW s \in Sender
  PROVE  Vote(entries, r, s) \in Seq(Entry)
<1> DEFINE n == Len(entries)
<1>1. n \in Nat /\ DOMAIN entries = 1..n /\ entries \in [1..n -> Entry]
  BY LenProperties
<1>2. CASE \E i \in DOMAIN entries : entries[i].record = r
  <2>1. Vote(entries, r, s) \in [1..n -> Entry]
    BY <1>1, <1>2 DEF Vote, Entry
  <2> QED
    BY <1>1, <2>1, SeqDef
<1>3. CASE ~ \E i \in DOMAIN entries : entries[i].record = r
  <2>1. [record |-> r, senderNodes |-> {s}, saved |-> FALSE] \in Entry
    BY DEF Entry
  <2> QED
    BY <1>3, <2>1, AppendProperties DEF Vote
<1> QED
  BY <1>2, <1>3

\* Flagging confirmed entries keeps a sequence of entries a sequence of entries.
LEMMA MarkSavedType ==
  ASSUME NEW entries \in Seq(Entry), NEW r \in Record, NEW needed
  PROVE  /\ MarkSaved(entries, r, needed) \in Seq(Entry)
         /\ DOMAIN MarkSaved(entries, r, needed) = DOMAIN entries
<1> DEFINE n == Len(entries)
<1>1. n \in Nat /\ DOMAIN entries = 1..n /\ entries \in [1..n -> Entry]
  BY LenProperties
<1> DEFINE retract == AnySaved(entries) /\ Confirmed(entries, needed) # {}
           flag(i) == IF retract /\ entries[i].record = r
                        THEN FALSE
                        ELSE entries[i].saved \/ i \in Confirmed(entries, needed)
<1>2. MarkSaved(entries, r, needed) =
        [i \in 1..n |-> [entries[i] EXCEPT !.saved = flag(i)]]
  BY <1>1 DEF MarkSaved
<1>3. \A i \in 1..n : flag(i) \in BOOLEAN
  <2> TAKE i \in 1..n
  <2>1. entries[i].saved \in BOOLEAN
    BY <1>1 DEF Entry
  <2> QED
    BY <2>1
<1> HIDE DEF flag
<1>4. [i \in 1..n |-> [entries[i] EXCEPT !.saved = flag(i)]] \in [1..n -> Entry]
  BY <1>1, <1>3 DEF Entry
<1> DEFINE marked == MarkSaved(entries, r, needed)
<1>5. marked \in [1..n -> Entry]
  BY <1>2, <1>4
<1> HIDE DEF marked
<1>6. marked \in Seq(Entry) /\ DOMAIN marked = 1..n
  BY <1>1, <1>5, SeqDef
<1> QED
  BY <1>1, <1>6 DEF marked

\* The number of copies queued is a natural number.
LEMMA CopiesType ==
  ASSUME NEW entries \in Seq(Entry), NEW needed
  PROVE  Copies(entries, needed) \in Nat
<1>1. DOMAIN entries = 1..Len(entries) /\ Len(entries) \in Nat
  BY LenProperties
<1>2. IsFiniteSet(DOMAIN entries)
  BY <1>1, FS_Interval
<1>3. Confirmed(entries, needed) \in SUBSET DOMAIN entries
  BY DEF Confirmed, BeforeSaved
<1>4. Cardinality(Confirmed(entries, needed)) \in Nat
  BY <1>2, <1>3, FS_Subset, FS_CardinalityType
<1> QED
  BY <1>4 DEF Copies

\* Forgetting counters leaves a sequence of entries per counter.
LEMMA TrimType ==
  ASSUME NEW tracker \in [Counters -> Seq(Entry)], NEW current
  PROVE  Trim(tracker, current) \in [Counters -> Seq(Entry)]
<1>1. <<>> \in Seq(Entry)
  BY EmptySeq
<1> QED
  BY <1>1 DEF Trim

\* Putting copies of a record in front of a cache gives a sequence of records.
LEMMA CachedType ==
  ASSUME NEW cache \in Seq(Record), NEW r \in Record, NEW copies \in Nat
  PROVE  Cached(cache, r, copies) \in Seq(Record)
<1> DEFINE longer == [i \in 1..copies |-> r] \o cache
           m == IF Len(longer) < maxCachedCycles THEN Len(longer) ELSE maxCachedCycles
<1>1. [i \in 1..copies |-> r] \in Seq(Record)
  BY SeqDef
<1>2. longer \in Seq(Record)
  BY <1>1, ConcatProperties
<1>3. Len(longer) \in Nat /\ \A i \in 1..Len(longer) : longer[i] \in Record
  BY <1>2, LenProperties, ElementOfSeq
<1>4. m \in Int /\ \A i \in 1..m : longer[i] \in Record
  BY <1>3, ConfigAssumption
<1> HIDE DEF longer, m
<1>5. SubSeq(longer, 1, m) \in Seq(Record)
  BY <1>4, SubSeqProperties
<1> QED
  BY <1>5 DEF Cached, longer, m

\* The rows of a finite table in some order are a sequence of its records.
LEMMA NewestFirstType ==
  ASSUME NEW rows \in SUBSET Record, IsFiniteSet(rows), NEW seq \in NewestFirst(rows)
  PROVE  seq \in Seq(Record)
<1>1. Cardinality(rows) \in Nat
  BY FS_CardinalityType
<1>2. seq \in Seq(rows)
  BY <1>1, SeqDef DEF NewestFirst
<1> QED
  BY <1>2, SeqMonotonic

-----------------------------------------------------------------------------
(* The invariant holds initially *)

LEMMA InitInv == Init => IndInv
<1> SUFFICES ASSUME Init PROVE IndInv
  OBVIOUS
<1> USE RecordAssumption, StartAssumption DEF Init
<1>1. TypeOK
  <2>1. <<>> \in Seq(Entry) /\ <<>> \in Seq(Record)
    BY EmptySeq
  <2> QED
    BY <2>1, ConfigAssumption DEF TypeOK
<1>2. Applied = Stored
  BY DEF Applied
<1>3. BoundedByCurrent /\ OneRecordPerCounter
  BY <1>2 DEF BoundedByCurrent, OneRecordPerCounter
<1>4. PastInsert /\ OneCacheLoader
  BY DEF PastInsert, OneCacheLoader
<1>5. \A c \in Counters : Distinct(receivedCycleTracker[c])
  BY DEF Distinct
<1> QED
  BY <1>1, <1>3, <1>4, <1>5 DEF IndInv

-----------------------------------------------------------------------------
(* Applying a record keeps the invariant *)

\* What the synchronous part of processCycles does to the variables it may change.
LEMMA ProcessCycleInv ==
  ASSUME IndInv, NEW r \in Record, NEW copies \in Nat,
         ProcessCycle(r, copies), UNCHANGED dbVars
  PROVE  /\ currentCycleCounter' \in Int
         /\ activeList' \subseteq Nodes /\ byPublicKey' \subseteq Nodes
         /\ cycleRecordWithShutDownMode' \in Record \cup {NoRecord}
         /\ cachedCycleRecords' \in Seq(Record)
         /\ lastCacheUpdateFromDBRunning' \in BOOLEAN
         /\ tasks' \subseteq Task
         /\ BoundedByCurrent' /\ OneRecordPerCounter' /\ OneCacheLoader'
         /\ PastInsert'
         /\ Applied' = Applied \/ (Applied' = Applied \cup {r} /\ Archive!Accept(r))
<1> USE DEF dbVars, nodeListVars, modeVars, cacheVars
<1>1. CASE copies > 0 /\ NotProcessed(r)
  <2>1. PICK place \in {"load", "query"} :
          tasks' = tasks \cup {[record |-> r, copies |-> copies, pc |-> place]}
    BY <1>1 DEF ProcessCycle, AddToCache
  <2> DEFINE new == [record |-> r, copies |-> copies, pc |-> place]
  <2>2. Counter[r] \in Nat /\ currentCycleCounter' = Counter[r]
    BY <1>1, RecordAssumption DEF ProcessCycle
  <2>3. activeList' \subseteq Nodes /\ byPublicKey' \subseteq Nodes
    BY <1>1, RecordAssumption DEF ProcessCycle
  <2>4. cycleRecordWithShutDownMode' \in Record \cup {NoRecord}
    BY <1>1 DEF ProcessCycle, ChangeNetworkMode, IndInv, TypeOK
  <2>5. cachedCycleRecords' \in Seq(Record)
    BY <1>1, CachedType DEF ProcessCycle, AddToCache, IndInv, TypeOK
  <2>6. lastCacheUpdateFromDBRunning' \in BOOLEAN
    BY <1>1 DEF ProcessCycle, AddToCache, IndInv, TypeOK
  <2>7. new \in Task
    BY DEF Task, TaskPC
  <2>8. tasks' \subseteq Task
    BY <2>1, <2>7 DEF IndInv, TypeOK
  <2>9. Applied' = Applied \cup {r}
    <3>1. {t.record : t \in tasks'} = {t.record : t \in tasks} \cup {new.record}
      BY <2>1
    <3>2. new.record = r
      OBVIOUS
    <3> QED
      BY <3>1, <3>2 DEF Applied
  <2>10. Applied \subseteq Record
    BY DEF Applied, IndInv, TypeOK, Task
  <2>11. \A q \in Applied : Counter[q] \in Nat /\ Counter[q] < Counter[r]
    BY <1>1, <2>2, <2>10, RecordAssumption DEF NotProcessed, IndInv, TypeOK, BoundedByCurrent
  <2>12. BoundedByCurrent'
    BY <2>2, <2>9, <2>11 DEF BoundedByCurrent
  <2>13. OneRecordPerCounter'
    <3>1. \A p, q \in Applied : Counter[p] = Counter[q] => p = q
      BY DEF OneRecordPerCounter, IndInv
    <3>2. \A p, q \in Applied \cup {r} : Counter[p] = Counter[q] => p = q
      BY <2>2, <2>11, <3>1
    <3> QED
      BY <2>9, <3>2 DEF OneRecordPerCounter
  <2>14. OneCacheLoader'
    <3>1. CASE cachedCycleRecords = <<>> /\ ~ lastCacheUpdateFromDBRunning
      <4>1. /\ lastCacheUpdateFromDBRunning' = TRUE
            /\ tasks' = tasks \cup {[record |-> r, copies |-> copies, pc |-> "load"]}
            /\ [record |-> r, copies |-> copies, pc |-> "load"] \in tasks'
        BY <1>1, <3>1 DEF ProcessCycle, AddToCache
      <4>2. \A t \in tasks : t.pc # "load"
        BY <3>1 DEF IndInv, OneCacheLoader
      <4>3. \A t \in tasks' : t.pc = "load" =>
                t = [record |-> r, copies |-> copies, pc |-> "load"]
        BY <4>1, <4>2
      <4>4. \E t \in tasks' : t.pc = "load"
        <5> USE <4>1
        <5> WITNESS [record |-> r, copies |-> copies, pc |-> "load"] \in tasks'
        <5> QED
          OBVIOUS
      <4>5. \A s, t \in tasks' : s.pc = "load" /\ t.pc = "load" => s = t
        BY <4>3
      <4> QED
        BY <4>1, <4>4, <4>5 DEF OneCacheLoader
    <3>2. CASE ~ (cachedCycleRecords = <<>> /\ ~ lastCacheUpdateFromDBRunning)
      <4>1. /\ lastCacheUpdateFromDBRunning' = lastCacheUpdateFromDBRunning
            /\ tasks' = tasks \cup {[record |-> r, copies |-> copies, pc |-> "query"]}
        BY <1>1, <3>2 DEF ProcessCycle, AddToCache
      <4>2. \A t : t \in tasks' /\ t.pc = "load" <=> t \in tasks /\ t.pc = "load"
        BY <4>1
      <4>3. \A s, t \in tasks' : s.pc = "load" /\ t.pc = "load" => s = t
        BY <4>2 DEF IndInv, OneCacheLoader
      <4>4. lastCacheUpdateFromDBRunning' <=> \E t \in tasks' : t.pc = "load"
        BY <4>1, <4>2 DEF IndInv, OneCacheLoader
      <4> QED
        BY <4>3, <4>4 DEF OneCacheLoader
    <3> QED
      BY <3>1, <3>2
  <2>15. PastInsert'
    <3>1. \A t \in tasks' : t.pc \in {"global", "sleep", "clear"} => t \in tasks
      BY <2>1
    <3>2. cyclesTable' = cyclesTable /\ failedWrites' = failedWrites
      OBVIOUS
    <3> QED
      BY <3>1, <3>2 DEF PastInsert, IndInv
  <2>16. Archive!Accept(r)
    BY <2>9, <2>11 DEF Archive!Accept
  <2> QED
    BY <2>2, <2>3, <2>4, <2>5, <2>6, <2>8, <2>9, <2>12, <2>13, <2>14, <2>15, <2>16
<1>2. CASE ~ (copies > 0 /\ NotProcessed(r))
  <2>1. UNCHANGED <<currentCycleCounter, nodeListVars, modeVars, cacheVars, tasks>>
    BY <1>2 DEF ProcessCycle
  <2>2. Applied' = Applied
    BY <2>1 DEF Applied
  <2>3. BoundedByCurrent' /\ OneRecordPerCounter' /\ OneCacheLoader' /\ PastInsert'
    BY <2>1, <2>2 DEF IndInv, BoundedByCurrent, OneRecordPerCounter, OneCacheLoader,
                      PastInsert
  <2> QED
    BY <2>1, <2>2, <2>3 DEF IndInv, TypeOK
<1> QED
  BY <1>1, <1>2

-----------------------------------------------------------------------------
(* Collecting a record keeps the invariant *)

\* Voting keeps the entries of a counter for different records, and saved entries saved.
LEMMA VoteDistinct ==
  ASSUME NEW entries \in Seq(Entry), Distinct(entries), NEW r \in Record, NEW s \in Sender
  PROVE  /\ Distinct(Vote(entries, r, s))
         /\ AnySaved(entries) => AnySaved(Vote(entries, r, s))
<1> DEFINE n == Len(entries)
           entry == [record |-> r, senderNodes |-> {s}, saved |-> FALSE]
<1>1. n \in Nat /\ DOMAIN entries = 1..n /\ entries \in [1..n -> Entry]
  BY LenProperties
<1>2. CASE \E i \in DOMAIN entries : entries[i].record = r
  <2> DEFINE voted == Vote(entries, r, s)
  <2>1. voted = [i \in 1..n |-> IF entries[i].record = r
                      THEN [entries[i] EXCEPT !.senderNodes = @ \cup {s}]
                      ELSE entries[i]]
    BY <1>1, <1>2 DEF Vote
  <2>2. DOMAIN voted = 1..n
    BY <2>1
  <2>3. ASSUME NEW i \in 1..n
        PROVE  voted[i].record = entries[i].record /\ voted[i].saved = entries[i].saved
    BY <1>1, <2>1 DEF Entry
  <2> HIDE DEF voted
  <2> QED
    BY <1>1, <2>2, <2>3 DEF Distinct, AnySaved, voted
<1>3. CASE ~ \E i \in DOMAIN entries : entries[i].record = r
  <2> DEFINE voted == Append(entries, entry)
  <2>1. entry \in Entry /\ entry.record = r
    BY DEF Entry
  <2>2. /\ DOMAIN voted = 1..(n + 1)
        /\ \A i \in 1..n : voted[i] = entries[i]
        /\ voted[n + 1] = entry
    BY <1>1, <2>1, AppendProperties, LenProperties
  <2> HIDE DEF voted
  <2>3. \A i \in 1..n : voted[i].record # r
    BY <1>1, <1>3, <2>2
  <2>4. Distinct(voted)
    <3> SUFFICES ASSUME NEW i \in 1..(n + 1), NEW j \in 1..(n + 1),
                        voted[i].record = voted[j].record
                 PROVE  i = j
      BY <2>2 DEF Distinct
    <3>1. CASE i \in 1..n /\ j \in 1..n
      BY <1>1, <2>2, <3>1 DEF Distinct
    <3>2. CASE i = n + 1 \/ j = n + 1
      BY <1>1, <2>1, <2>2, <2>3, <3>2
    <3> QED
      BY <1>1, <3>1, <3>2
  <2>5. AnySaved(entries) => AnySaved(voted)
    BY <1>1, <2>2 DEF AnySaved
  <2> QED
    BY <1>3, <2>4, <2>5 DEF Vote, voted
<1> QED
  BY <1>2, <1>3

\* Flagging keeps entries for different records, and when an entry was flagged before, one
\* is afterwards: the record taken back and the confirmed one are different entries.
LEMMA MarkSavedKeeps ==
  ASSUME NEW entries \in Seq(Entry), Distinct(entries), NEW r \in Record, NEW needed
  PROVE  /\ Distinct(MarkSaved(entries, r, needed))
         /\ AnySaved(entries) => AnySaved(MarkSaved(entries, r, needed))
<1> DEFINE marked == MarkSaved(entries, r, needed)
           conf == Confirmed(entries, needed)
           retract == AnySaved(entries) /\ conf # {}
<1>1. /\ DOMAIN marked = DOMAIN entries
      /\ \A i \in DOMAIN entries : entries[i] \in Entry
  BY MarkSavedType, LenProperties, ElementOfSeq
<1>2. ASSUME NEW i \in DOMAIN entries
      PROVE  /\ marked[i].record = entries[i].record
             /\ marked[i].saved = IF retract /\ entries[i].record = r
                                    THEN FALSE
                                    ELSE entries[i].saved \/ i \in conf
  BY <1>1 DEF MarkSaved, Entry
<1>3. conf \subseteq DOMAIN entries /\ \A i \in conf : ~ entries[i].saved
  <2>1. DOMAIN entries = 1..Len(entries) /\ Len(entries) \in Nat
    BY LenProperties
  <2>2. \A i \in BeforeSaved(entries) : i \in DOMAIN entries /\ ~ entries[i].saved
    BY <2>1 DEF BeforeSaved
  <2> QED
    BY <2>2 DEF Confirmed
<1> HIDE DEF marked, conf
<1>4. Distinct(marked)
  BY <1>1, <1>2 DEF Distinct
<1>5. ASSUME AnySaved(entries) PROVE AnySaved(marked)
  <2>1. PICK i \in DOMAIN entries : entries[i].saved
    BY <1>5 DEF AnySaved
  <2>2. CASE ~ retract \/ entries[i].record # r
    BY <1>1, <1>2, <2>1, <2>2 DEF AnySaved
  <2>3. CASE retract /\ entries[i].record = r
    <3>1. PICK j \in conf : TRUE
      BY <2>3
    <3>2. j \in DOMAIN entries /\ entries[j].record # r
      BY <1>3, <2>1, <2>3, <3>1 DEF Distinct
    <3> QED
      BY <1>1, <1>2, <3>1, <3>2 DEF AnySaved
  <2> QED
    BY <2>2, <2>3
<1> QED
  BY <1>4, <1>5 DEF marked

LEMMA ReceiveCycleInv ==
  ASSUME IndInv, NEW s \in Sender, NEW r \in Record, ReceiveCycle(s, r)
  PROVE  /\ IndInv'
         /\ Applied' = Applied \/ Archive!Accept(r)
         /\ \A c \in Counters : AnySaved(receivedCycleTracker[c]) =>
              \/ AnySaved(receivedCycleTracker'[c])
              \/ receivedCycleTracker'[c] = <<>>
<1> DEFINE c == Counter[r]
           entries == Vote(receivedCycleTracker[c], r, s)
           needed == MinCycleConfirmations(c)
           copies == IF Authorised(s) THEN Copies(entries, needed) ELSE 0
           marked == MarkSaved(entries, r, needed)
           tracker == IF Authorised(s)
                        THEN [receivedCycleTracker EXCEPT ![c] = marked]
                        ELSE receivedCycleTracker
<1>1. c \in Counters /\ c \in Nat
  BY RecordAssumption DEF Counters
<1>2. receivedCycleTracker \in [Counters -> Seq(Entry)]
  BY DEF IndInv, TypeOK
<1>3. entries \in Seq(Entry) /\ marked \in Seq(Entry) /\ copies \in Nat
  BY <1>1, <1>2, VoteType, MarkSavedType, CopiesType
<1>4. /\ Distinct(marked)
      /\ AnySaved(receivedCycleTracker[c]) => AnySaved(marked)
  BY <1>1, <1>2, <1>3, VoteDistinct, MarkSavedKeeps DEF IndInv
<1>5. /\ ProcessCycle(r, copies)
      /\ receivedCycleTracker' = Trim(tracker, currentCycleCounter')
      /\ lastSent' = [lastSent EXCEPT ![s] = c]
      /\ UNCHANGED <<firstNodeVars, dbVars>>
  BY DEF ReceiveCycle
<1> HIDE DEF entries, needed, copies, marked
<1>6. tracker \in [Counters -> Seq(Entry)]
  BY <1>1, <1>2, <1>3
<1>7. \A d \in Counters : /\ Distinct(tracker[d])
                          /\ AnySaved(receivedCycleTracker[d]) => AnySaved(tracker[d])
  BY <1>1, <1>2, <1>4 DEF IndInv
<1> HIDE DEF tracker
<1>8. \A d \in Counters : \/ receivedCycleTracker'[d] = tracker[d]
                          \/ receivedCycleTracker'[d] = <<>>
  BY <1>5, <1>6 DEF Trim
<1>9. \A d \in Counters : Distinct(receivedCycleTracker'[d])
  BY <1>7, <1>8 DEF Distinct
<1>10. receivedCycleTracker' \in [Counters -> Seq(Entry)]
  BY <1>5, <1>6, TrimType
<1>11. lastSent' \in [Sender -> Nat \cup {-1}]
  BY <1>1, <1>5 DEF IndInv, TypeOK
<1>12. /\ TypeOK' /\ BoundedByCurrent' /\ PastInsert'
       /\ OneRecordPerCounter' /\ OneCacheLoader'
       /\ Applied' = Applied \/ (Applied' = Applied \cup {r} /\ Archive!Accept(r))
  BY <1>3, <1>5, <1>10, <1>11, ProcessCycleInv DEF IndInv, TypeOK, firstNodeVars, dbVars
<1>13. IsFiniteSet(cyclesTable')
  BY <1>5 DEF IndInv, dbVars
<1> QED
  BY <1>7, <1>8, <1>9, <1>12, <1>13 DEF IndInv

-----------------------------------------------------------------------------
(* The suspended calls keep the invariant *)

\* A call that goes on to its next await keeps its record.
LEMMA MoveToKeeps ==
  ASSUME NEW t \in tasks, tasks \subseteq Task, NEW place \in TaskPC, MoveTo(t, place)
  PROVE  /\ tasks' \subseteq Task
         /\ {u.record : u \in tasks'} = {u.record : u \in tasks}
         /\ \A u \in tasks' : u \in tasks \ {t} \/ (u.pc = place /\ u.record = t.record)
<1> DEFINE moved == [t EXCEPT !.pc = place]
<1>1. t \in Task /\ moved \in Task /\ moved.record = t.record /\ moved.pc = place
  BY DEF Task
<1>2. tasks' = (tasks \ {t}) \cup {moved}
  BY DEF MoveTo
<1> HIDE DEF moved
<1> QED
  BY <1>1, <1>2

\* A call that ends after its insert leaves its record written or refused.
LEMMA FinishKeeps ==
  ASSUME NEW t \in tasks, PastInsert, t.pc \in {"global", "sleep", "clear"}, Finish(t),
         cyclesTable \cup failedWrites \subseteq cyclesTable' \cup failedWrites'
  PROVE  /\ tasks' \subseteq tasks
         /\ Applied \subseteq {u.record : u \in tasks'} \cup cyclesTable' \cup failedWrites'
<1>1. t.record \in cyclesTable \cup failedWrites
  BY DEF PastInsert
<1> QED
  BY <1>1 DEF Finish, Applied

\* When a step applies nothing new and starts or ends no loading of the cache, the parts
\* of the invariant that relate the applied records and the loader are kept.
LEMMA SameRecordsKept ==
  ASSUME IndInv, Applied' = Applied, UNCHANGED currentCycleCounter
  PROVE  BoundedByCurrent' /\ OneRecordPerCounter'
BY DEF IndInv, BoundedByCurrent, OneRecordPerCounter

LEMMA SameLoaderKept ==
  ASSUME IndInv, UNCHANGED lastCacheUpdateFromDBRunning,
         \A u : u \in tasks' /\ u.pc = "load" <=> u \in tasks /\ u.pc = "load"
  PROVE  OneCacheLoader'
<1>1. \A u, v \in tasks' : u.pc = "load" /\ v.pc = "load" => u = v
  BY DEF IndInv, OneCacheLoader
<1>2. lastCacheUpdateFromDBRunning' <=> \E u \in tasks' : u.pc = "load"
  BY DEF IndInv, OneCacheLoader
<1> QED
  BY <1>1, <1>2 DEF OneCacheLoader

LEMMA CacheLoadedInv ==
  ASSUME IndInv, NEW t \in tasks, CacheLoaded(t)
  PROVE  IndInv' /\ Applied' = Applied /\ UNCHANGED <<trackerVars, dbVars>>
<1> USE DEF trackerVars, nodeListVars, modeVars, firstNodeVars, dbVars
<1>1. /\ t.pc = "load" /\ MoveTo(t, "query") /\ lastCacheUpdateFromDBRunning' = FALSE
      /\ UNCHANGED <<trackerVars, currentCycleCounter, nodeListVars, modeVars,
                     firstNodeVars, dbVars>>
  BY DEF CacheLoaded
<1>2. tasks \subseteq Task /\ "query" \in TaskPC
  BY DEF IndInv, TypeOK, TaskPC
<1>3. /\ tasks' \subseteq Task
      /\ {u.record : u \in tasks'} = {u.record : u \in tasks}
      /\ \A u \in tasks' : u \in tasks \ {t} \/ (u.pc = "query" /\ u.record = t.record)
  BY <1>1, <1>2, MoveToKeeps
<1>4. Applied' = Applied
  BY <1>1, <1>3 DEF Applied
<1>5. cachedCycleRecords' \in Seq(Record)
  <2>1. PICK rows \in NewestFirst(cyclesTable) \cup {<<>>} :
          cachedCycleRecords' = Cached(rows, t.record, t.copies)
    BY DEF CacheLoaded
  <2>2. rows \in Seq(Record)
    BY <2>1, NewestFirstType, EmptySeq DEF IndInv, TypeOK
  <2>3. t.record \in Record /\ t.copies \in Nat
    BY <1>2 DEF Task
  <2> QED
    BY <2>1, <2>2, <2>3, CachedType
<1>6. TypeOK'
  BY <1>1, <1>3, <1>5 DEF IndInv, TypeOK
<1>7. OneCacheLoader'
  <2>1. \A u \in tasks' : u.pc # "load"
    BY <1>1, <1>3 DEF IndInv, OneCacheLoader
  <2> QED
    BY <1>1, <2>1 DEF OneCacheLoader
<1>8. PastInsert'
  BY <1>1, <1>3 DEF IndInv, PastInsert
<1>9. BoundedByCurrent' /\ OneRecordPerCounter'
  BY <1>1, <1>4, SameRecordsKept
<1> QED
  BY <1>1, <1>4, <1>6, <1>7, <1>8, <1>9 DEF IndInv

LEMMA CycleQueriedInv ==
  ASSUME IndInv, NEW t \in tasks, CycleQueried(t)
  PROVE  IndInv' /\ Applied' = Applied /\ UNCHANGED <<trackerVars, dbVars>>
<1> USE DEF trackerVars, nodeListVars, modeVars, firstNodeVars, cacheVars, dbVars
<1> DEFINE place == IF t.record \in cyclesTable THEN "global" ELSE "insert"
<1>1. /\ t.pc = "query" /\ MoveTo(t, place)
      /\ UNCHANGED <<trackerVars, currentCycleCounter, nodeListVars, modeVars,
                     firstNodeVars, cacheVars, dbVars>>
  BY DEF CycleQueried
<1>2. tasks \subseteq Task /\ place \in TaskPC /\ place # "load"
  BY DEF IndInv, TypeOK, TaskPC
<1>3. place = "global" => t.record \in cyclesTable
  OBVIOUS
<1>4. place = "global" \/ place = "insert"
  OBVIOUS
<1> HIDE DEF place
<1>5. /\ tasks' \subseteq Task
      /\ {u.record : u \in tasks'} = {u.record : u \in tasks}
      /\ \A u \in tasks' : u \in tasks \ {t} \/ (u.pc = place /\ u.record = t.record)
  BY <1>1, <1>2, MoveToKeeps
<1>6. Applied' = Applied
  BY <1>1, <1>5 DEF Applied
<1>7. TypeOK'
  BY <1>1, <1>5 DEF IndInv, TypeOK
<1>8. OneCacheLoader'
  <2>1. \A u : u \in tasks' /\ u.pc = "load" <=> u \in tasks /\ u.pc = "load"
    BY <1>1, <1>2, <1>5 DEF MoveTo
  <2> QED
    BY <1>1, <2>1, SameLoaderKept
<1>9. PastInsert'
  BY <1>1, <1>3, <1>4, <1>5 DEF IndInv, PastInsert
<1>10. BoundedByCurrent' /\ OneRecordPerCounter'
  BY <1>1, <1>6, SameRecordsKept
<1> QED
  BY <1>1, <1>6, <1>7, <1>8, <1>9, <1>10 DEF IndInv

LEMMA CycleInsertedInv ==
  ASSUME IndInv, NEW t \in tasks, CycleInserted(t)
  PROVE  /\ IndInv' /\ Applied' = Applied /\ UNCHANGED trackerVars
         /\ Archive!Store(t.record) \/ Archive!Fail(t.record)
<1> USE DEF trackerVars, nodeListVars, modeVars, firstNodeVars, cacheVars
<1>1. /\ t.pc = "insert" /\ MoveTo(t, "global")
      /\ \/ cyclesTable' = cyclesTable \cup {t.record} /\ UNCHANGED failedWrites
         \/ failedWrites' = failedWrites \cup {t.record} /\ UNCHANGED cyclesTable
      /\ UNCHANGED <<trackerVars, currentCycleCounter, nodeListVars, modeVars,
                     firstNodeVars, cacheVars>>
  BY DEF CycleInserted
<1>2. tasks \subseteq Task /\ "global" \in TaskPC /\ t.record \in Record
  BY DEF IndInv, TypeOK, Task, TaskPC
<1>3. /\ tasks' \subseteq Task
      /\ {u.record : u \in tasks'} = {u.record : u \in tasks}
      /\ \A u \in tasks' : u \in tasks \ {t} \/ (u.pc = "global" /\ u.record = t.record)
  BY <1>1, <1>2, MoveToKeeps
<1>4. Applied' = Applied
  BY <1>1, <1>3 DEF Applied
<1>5. TypeOK'
  BY <1>1, <1>2, <1>3 DEF IndInv, TypeOK
<1>6. OneCacheLoader'
  <2>1. \A u : u \in tasks' /\ u.pc = "load" <=> u \in tasks /\ u.pc = "load"
    BY <1>1, <1>3 DEF MoveTo
  <2> QED
    BY <1>1, <2>1, SameLoaderKept
<1>7. PastInsert'
  BY <1>1, <1>3 DEF IndInv, PastInsert
<1>8. BoundedByCurrent' /\ OneRecordPerCounter'
  BY <1>1, <1>4, SameRecordsKept
<1>9. IsFiniteSet(cyclesTable')
  BY <1>1, FS_AddElement DEF IndInv
<1>10. t.record \in Applied
  BY DEF Applied
<1>11. Archive!Store(t.record) \/ Archive!Fail(t.record)
  BY <1>1, <1>4, <1>10 DEF Archive!Store, Archive!Fail
<1> QED
  BY <1>1, <1>4, <1>5, <1>6, <1>7, <1>8, <1>9, <1>11 DEF IndInv

LEMMA GlobalAccountUpdatedInv ==
  ASSUME IndInv, NEW t \in tasks, GlobalAccountUpdated(t)
  PROVE  IndInv' /\ Applied' = Applied /\ UNCHANGED <<trackerVars, dbVars>>
<1> USE DEF trackerVars, nodeListVars, modeVars, firstNodeVars, cacheVars, dbVars
<1>1. /\ t.pc = "global" /\ (MoveTo(t, "sleep") \/ Finish(t))
      /\ UNCHANGED <<trackerVars, currentCycleCounter, nodeListVars, modeVars,
                     firstNodeVars, cacheVars, dbVars>>
  BY DEF GlobalAccountUpdated
<1>2. tasks \subseteq Task /\ "sleep" \in TaskPC /\ PastInsert
  BY DEF IndInv, TypeOK, TaskPC
<1>3. t.record \in cyclesTable \cup failedWrites
  BY <1>1, <1>2 DEF PastInsert
<1>4. /\ tasks' \subseteq Task
      /\ Applied' = Applied
      /\ \A u \in tasks' : u \in tasks \ {t} \/ (u.pc = "sleep" /\ u.record = t.record)
  <2>1. CASE MoveTo(t, "sleep")
    BY <1>1, <1>2, <2>1, MoveToKeeps DEF Applied
  <2>2. CASE Finish(t)
    <3>1. /\ tasks' \subseteq tasks
          /\ Applied \subseteq {u.record : u \in tasks'} \cup cyclesTable' \cup failedWrites'
      BY <1>1, <1>2, <2>2, FinishKeeps
    <3> QED
      BY <1>1, <1>2, <2>2, <3>1 DEF Applied, Finish
  <2> QED
    BY <1>1, <2>1, <2>2
<1>5. TypeOK'
  BY <1>1, <1>4 DEF IndInv, TypeOK
<1>6. OneCacheLoader'
  <2>1. \A u : u \in tasks' /\ u.pc = "load" <=> u \in tasks /\ u.pc = "load"
    BY <1>1, <1>4 DEF MoveTo, Finish
  <2> QED
    BY <1>1, <2>1, SameLoaderKept
<1>7. PastInsert'
  BY <1>1, <1>2, <1>3, <1>4 DEF PastInsert
<1>8. BoundedByCurrent' /\ OneRecordPerCounter'
  BY <1>1, <1>4, SameRecordsKept
<1> QED
  BY <1>1, <1>4, <1>5, <1>6, <1>7, <1>8 DEF IndInv

LEMMA ShutdownSleptInv ==
  ASSUME IndInv, NEW t \in tasks, ShutdownSlept(t)
  PROVE  IndInv' /\ Applied' = Applied /\ UNCHANGED <<trackerVars, dbVars>>
<1> USE DEF trackerVars, modeVars, firstNodeVars, cacheVars, dbVars
<1>1. /\ t.pc = "sleep" /\ MoveTo(t, "clear") /\ byPublicKey' = {} /\ activeList' = {}
      /\ UNCHANGED <<trackerVars, currentCycleCounter, modeVars, firstNodeVars,
                     cacheVars, dbVars>>
  BY DEF ShutdownSlept
<1>2. tasks \subseteq Task /\ "clear" \in TaskPC
  BY DEF IndInv, TypeOK, TaskPC
<1>3. /\ tasks' \subseteq Task
      /\ {u.record : u \in tasks'} = {u.record : u \in tasks}
      /\ \A u \in tasks' : u \in tasks \ {t} \/ (u.pc = "clear" /\ u.record = t.record)
  BY <1>1, <1>2, MoveToKeeps
<1>4. Applied' = Applied
  BY <1>1, <1>3 DEF Applied
<1>5. TypeOK'
  BY <1>1, <1>3 DEF IndInv, TypeOK
<1>6. OneCacheLoader'
  <2>1. \A u : u \in tasks' /\ u.pc = "load" <=> u \in tasks /\ u.pc = "load"
    BY <1>1, <1>3 DEF MoveTo
  <2> QED
    BY <1>1, <2>1, SameLoaderKept
<1>7. PastInsert'
  BY <1>1, <1>3 DEF IndInv, PastInsert
<1>8. BoundedByCurrent' /\ OneRecordPerCounter'
  BY <1>1, <1>4, SameRecordsKept
<1> QED
  BY <1>1, <1>4, <1>5, <1>6, <1>7, <1>8 DEF IndInv

LEMMA DataSendersClearedInv ==
  ASSUME IndInv, NEW t \in tasks, DataSendersCleared(t)
  PROVE  IndInv' /\ Applied' = Applied /\ UNCHANGED <<trackerVars, dbVars>>
<1> USE DEF trackerVars, nodeListVars, cacheVars, dbVars
<1>1. /\ t.pc = "clear" /\ Finish(t)
      /\ cycleRecordWithShutDownMode' = t.record /\ foundFirstNode' = ~ foundFirstNode
      /\ UNCHANGED <<trackerVars, currentCycleCounter, nodeListVars, currentNetworkMode,
                     restartedFrom, cacheVars, dbVars>>
  BY DEF DataSendersCleared
<1>2. tasks \subseteq Task /\ PastInsert /\ t.record \in Record
  BY DEF IndInv, TypeOK, Task
<1>3. /\ tasks' \subseteq tasks
      /\ Applied \subseteq {u.record : u \in tasks'} \cup cyclesTable' \cup failedWrites'
  BY <1>1, <1>2, FinishKeeps
<1>4. Applied' = Applied
  BY <1>1, <1>3 DEF Applied
<1>5. TypeOK'
  BY <1>1, <1>2, <1>3 DEF IndInv, TypeOK
<1>6. OneCacheLoader'
  <2>1. \A u : u \in tasks' /\ u.pc = "load" <=> u \in tasks /\ u.pc = "load"
    BY <1>1 DEF Finish
  <2> QED
    BY <1>1, <2>1, SameLoaderKept
<1>7. PastInsert'
  BY <1>1, <1>2, <1>3 DEF PastInsert
<1>8. BoundedByCurrent' /\ OneRecordPerCounter'
  BY <1>1, <1>4, SameRecordsKept
<1> QED
  BY <1>1, <1>4, <1>5, <1>6, <1>7, <1>8 DEF IndInv

LEMMA TaskStepInv ==
  ASSUME IndInv, NEW t \in tasks, TaskStep(t)
  PROVE  /\ IndInv' /\ Applied' = Applied /\ UNCHANGED trackerVars
         /\ UNCHANGED dbVars \/ Archive!Store(t.record) \/ Archive!Fail(t.record)
<1>1. CASE CacheLoaded(t)
  BY <1>1, CacheLoadedInv
<1>2. CASE CycleQueried(t)
  BY <1>2, CycleQueriedInv
<1>3. CASE CycleInserted(t)
  BY <1>3, CycleInsertedInv
<1>4. CASE GlobalAccountUpdated(t)
  BY <1>4, GlobalAccountUpdatedInv
<1>5. CASE ShutdownSlept(t)
  BY <1>5, ShutdownSleptInv
<1>6. CASE DataSendersCleared(t)
  BY <1>6, DataSendersClearedInv
<1> QED
  BY <1>1, <1>2, <1>3, <1>4, <1>5, <1>6 DEF TaskStep

LEMMA PostNodeListInv ==
  ASSUME IndInv, NEW n \in Nodes, PostNodeList(n)
  PROVE  IndInv' /\ Applied' = Applied /\ UNCHANGED <<trackerVars, dbVars>>
<1> USE DEF trackerVars, modeVars, cacheVars, dbVars
<1>1. /\ foundFirstNode' = TRUE /\ byPublicKey' = {n}
      /\ restartedFrom' = restartedFrom \cup {cycleRecordWithShutDownMode}
      /\ UNCHANGED <<trackerVars, currentCycleCounter, activeList, modeVars, cacheVars,
                     dbVars, tasks>>
  BY DEF PostNodeList
<1>2. TypeOK'
  BY <1>1 DEF IndInv, TypeOK
<1>3. Applied' = Applied
  BY <1>1 DEF Applied
<1>4. BoundedByCurrent' /\ OneRecordPerCounter' /\ OneCacheLoader' /\ PastInsert'
  BY <1>1, <1>3 DEF IndInv, BoundedByCurrent, OneRecordPerCounter, OneCacheLoader, PastInsert
<1> QED
  BY <1>1, <1>2, <1>3, <1>4 DEF IndInv

\* Every step keeps the invariant, does what CycleArchive allows and loses no saved flag.
LEMMA StepInv ==
  ASSUME IndInv, [Next]_vars
  PROVE  /\ IndInv'
         /\ [Archive!Next]_(Archive!archiveVars)
         /\ \A c \in Counters : AnySaved(receivedCycleTracker[c]) =>
              \/ AnySaved(receivedCycleTracker'[c])
              \/ receivedCycleTracker'[c] = <<>>
<1>1. CASE \E s \in Sender, r \in Record : ReceiveCycle(s, r)
  <2>1. PICK s \in Sender, r \in Record : ReceiveCycle(s, r)
    BY <1>1
  <2>2. IndInv' /\ (Applied' = Applied \/ Archive!Accept(r)) /\ UNCHANGED dbVars
    BY <2>1, ReceiveCycleInv DEF ReceiveCycle
  <2> QED
    BY <2>1, <2>2, ReceiveCycleInv DEF Archive!Next, Archive!archiveVars, dbVars
<1>2. CASE \E t \in tasks : TaskStep(t)
  <2>1. PICK t \in tasks : TaskStep(t)
    BY <1>2
  <2>2. t.record \in Record
    BY DEF IndInv, TypeOK, Task
  <2>3. /\ IndInv' /\ Applied' = Applied /\ UNCHANGED trackerVars
        /\ UNCHANGED dbVars \/ Archive!Store(t.record) \/ Archive!Fail(t.record)
    BY <2>1, TaskStepInv
  <2> QED
    BY <2>2, <2>3 DEF Archive!Next, Archive!archiveVars, dbVars, trackerVars
<1>3. CASE \E n \in Nodes : PostNodeList(n)
  <2>1. PICK n \in Nodes : PostNodeList(n)
    BY <1>3
  <2>2. IndInv' /\ Applied' = Applied /\ UNCHANGED <<trackerVars, dbVars>>
    BY <2>1, PostNodeListInv
  <2> QED
    BY <2>2 DEF Archive!archiveVars, dbVars, trackerVars
<1>4. CASE UNCHANGED vars
  <2> USE <1>4 DEF vars, trackerVars, nodeListVars, modeVars, firstNodeVars, cacheVars, dbVars
  <2>1. Applied' = Applied
    BY DEF Applied
  <2>2. TypeOK' /\ OneCacheLoader' /\ PastInsert'
    BY DEF IndInv, TypeOK, OneCacheLoader, PastInsert
  <2>3. BoundedByCurrent' /\ OneRecordPerCounter'
    BY <2>1, SameRecordsKept
  <2> QED
    BY <2>1, <2>2, <2>3 DEF IndInv, Archive!archiveVars
<1> QED
  BY <1>1, <1>2, <1>3, <1>4 DEF Next

\* IndInv is an invariant of the specification.
LEMMA Invariance == Spec => []IndInv
<1>1. IndInv /\ [Next]_vars => IndInv'
  BY StepInv
<1> QED
  BY InitInv, <1>1, PTL DEF Spec

-----------------------------------------------------------------------------
(* Restarting the network.  The first archiver, whose calls do not overlap, holds the first *)
(* node's slot taken while it processes a cycle: a cycle exists only once a first node      *)
(* started the network, and one after a shutdown only once another restarted it.            *)

\* No first node has asked yet.
NotStarted ==
  /\ restartedFrom = {}
  /\ cycleRecordWithShutDownMode = NoRecord
  /\ currentNetworkMode # "shutdown"

\* The last cycle shut the network down, and no first node was told so yet.
ShutDown ==
  LET q == cycleRecordWithShutDownMode
  IN /\ q \in Record
     /\ Mode[q] = "shutdown"
     /\ Counter[q] = currentCycleCounter
     /\ q \notin restartedFrom

\* What holds while a call of processCycles is suspended.
LastCycle(t) ==
  /\ foundFirstNode
  /\ Counter[t.record] = currentCycleCounter
  /\ Mode[t.record] = currentNetworkMode
  /\ t.pc \in {"sleep", "clear"} => currentNetworkMode = "shutdown"
  /\ t.record \notin restartedFrom

RestartInv ==
  /\ \A s, t \in tasks : s = t
  /\ \A t \in tasks : LastCycle(t)
  /\ \A q \in restartedFrom : q = NoRecord \/ Counter[q] <= currentCycleCounter
  /\ ~foundFirstNode => NotStarted \/ ShutDown

\* The node list is empty from the end of a shutdown to its last step.
ListInv ==
  /\ \A t \in tasks : byPublicKey = {} <=> t.pc = "clear"
  /\ FirstNodeSlot

\* A new cycle finds no call suspended and the slot taken.
LEMMA NewCycle ==
  ASSUME IndInv, RestartInv, isFirst, Paced, NEW s \in Sender, NEW r \in Record,
         Deliverable(s, r), NotProcessed(r)
  PROVE  tasks = {} /\ foundFirstNode /\ r \notin restartedFrom
<1>1. Counter[r] \in Nat /\ currentCycleCounter \in Int /\ Counter[r] > currentCycleCounter
  BY RecordAssumption DEF IndInv, TypeOK, NotProcessed
<1>2. tasks = {} /\ restartedFrom # {}
  BY DEF Deliverable
<1>3. r \notin restartedFrom
  BY <1>1, RecordAssumption DEF RestartInv
<1>4. ~ ShutDown
  <2> DEFINE q == cycleRecordWithShutDownMode
  <2> SUFFICES ASSUME q \in Record, Mode[q] = "shutdown", Counter[q] = currentCycleCounter
               PROVE  q \in restartedFrom
    BY DEF ShutDown
  <2> QED
    BY <1>1 DEF Deliverable
<1> QED
  BY <1>2, <1>3, <1>4 DEF RestartInv, NotStarted

LEMMA ReceiveCycleRestart ==
  ASSUME IndInv, RestartInv, isFirst, Paced, NEW s \in Sender, NEW r \in Record,
         ReceiveCycle(s, r)
  PROVE  /\ RestartInv'
         /\ ListInv /\ (\A q \in Record : ListedAfter[q] # {}) => ListInv'
<1> DEFINE c == Counter[r]
           entries == Vote(receivedCycleTracker[c], r, s)
           copies == IF Authorised(s) THEN Copies(entries, MinCycleConfirmations(c)) ELSE 0
<1>1. /\ Deliverable(s, r) /\ ProcessCycle(r, copies)
      /\ UNCHANGED <<foundFirstNode, restartedFrom>>
  BY DEF ReceiveCycle, firstNodeVars
<1>2. CASE ~ (copies > 0 /\ NotProcessed(r))
  <2>1. UNCHANGED <<currentCycleCounter, byPublicKey, currentNetworkMode,
                    cycleRecordWithShutDownMode, tasks>>
    BY <1>1, <1>2 DEF ProcessCycle, nodeListVars, modeVars
  <2> QED
    BY <1>1, <2>1 DEF RestartInv, ListInv, LastCycle, NotStarted, ShutDown, FirstNodeSlot
<1>3. CASE copies > 0 /\ NotProcessed(r)
  <2>1. tasks = {} /\ foundFirstNode /\ r \notin restartedFrom
    BY <1>1, <1>3, NewCycle
  <2>2. /\ currentCycleCounter' = Counter[r] /\ byPublicKey' = ListedAfter[r]
        /\ currentNetworkMode' = Mode[r] /\ AddToCache(r, copies)
    BY <1>1, <1>3 DEF ProcessCycle, ChangeNetworkMode
  <2>3. PICK place \in {"load", "query"} : tasks' = {[record |-> r, copies |-> copies, pc |-> place]}
    BY <2>1, <2>2 DEF AddToCache
  <2>4. \A q \in restartedFrom' : q = NoRecord \/ Counter[q] <= currentCycleCounter'
    <3>1. Counter[r] \in Nat /\ currentCycleCounter \in Int /\ Counter[r] > currentCycleCounter
      BY <1>3, RecordAssumption DEF IndInv, TypeOK, NotProcessed
    <3>2. \A q \in restartedFrom \ {NoRecord} : Counter[q] \in Nat
      BY RecordAssumption DEF IndInv, TypeOK
    <3> QED
      BY <1>1, <2>2, <3>1, <3>2 DEF RestartInv
  <2> HIDE DEF copies
  <2>5. \A t \in tasks' : LastCycle(t)'
    BY <1>1, <2>1, <2>2, <2>3 DEF LastCycle
  <2>6. RestartInv'
    BY <1>1, <2>1, <2>3, <2>4, <2>5 DEF RestartInv
  <2>7. ASSUME \A q \in Record : ListedAfter[q] # {}
        PROVE  ListInv'
    <3>1. byPublicKey' # {} /\ tasks' # {} /\ \A t \in tasks' : t.pc = place
      BY <2>2, <2>3, <2>7
    <3> QED
      BY <3>1 DEF ListInv, FirstNodeSlot
  <2> QED
    BY <2>6, <2>7
<1> QED
  BY <1>2, <1>3

LEMMA TaskStepRestart ==
  ASSUME IndInv, RestartInv, isFirst, NEW t \in tasks, TaskStep(t)
  PROVE  RestartInv' /\ (ListInv => ListInv')
<1> USE DEF modeVars, nodeListVars, firstNodeVars
<1>1. /\ tasks = {t} /\ LastCycle(t)
      /\ t = [record |-> t.record, copies |-> t.copies, pc |-> t.pc] /\ t.record \in Record
  BY DEF RestartInv, IndInv, TypeOK, Task
<1>2. CASE ~ DataSendersCleared(t)
  <2>1. UNCHANGED <<currentCycleCounter, modeVars, foundFirstNode, restartedFrom>>
    BY <1>2 DEF TaskStep, CacheLoaded, CycleQueried, CycleInserted, GlobalAccountUpdated,
                ShutdownSlept
  <2>2. \/ tasks' = {}
        \/ \E place \in TaskPC :
             /\ tasks' = {[t EXCEPT !.pc = place]}
             /\ place \in {"sleep", "clear"} => currentNetworkMode = "shutdown"
    BY <1>1, <1>2 DEF TaskStep, CacheLoaded, CycleQueried, CycleInserted, GlobalAccountUpdated,
                      ShutdownSlept, MoveTo, Finish, TaskPC, LastCycle
  <2>3. RestartInv'
    BY <1>1, <2>1, <2>2 DEF RestartInv, LastCycle
  <2>4. CASE ShutdownSlept(t)
    <3>1. byPublicKey' = {} /\ tasks' = {[t EXCEPT !.pc = "clear"]}
      BY <1>1, <2>4 DEF ShutdownSlept, MoveTo
    <3> QED
      BY <1>1, <2>3, <3>1 DEF ListInv, FirstNodeSlot
  <2>5. CASE ~ ShutdownSlept(t)
    <3>1. /\ byPublicKey' = byPublicKey /\ t.pc # "clear"
          /\ tasks' = {} \/ \E place \in TaskPC \ {"clear"} : tasks' = {[t EXCEPT !.pc = place]}
      BY <1>1, <1>2, <2>5 DEF TaskStep, CacheLoaded, CycleQueried, CycleInserted,
                              GlobalAccountUpdated, MoveTo, Finish, TaskPC
    <3> QED
      BY <1>1, <2>1, <2>3, <3>1 DEF ListInv, FirstNodeSlot, LastCycle
  <2> QED
    BY <2>3, <2>4, <2>5
<1>3. CASE DataSendersCleared(t)
  <2>1. /\ t.pc = "clear" /\ cycleRecordWithShutDownMode' = t.record
        /\ ~ foundFirstNode' /\ tasks' = {}
        /\ UNCHANGED <<currentCycleCounter, nodeListVars, currentNetworkMode, restartedFrom>>
    BY <1>1, <1>3 DEF DataSendersCleared, Finish, LastCycle
  <2>2. ShutDown'
    BY <1>1, <2>1 DEF ShutDown, LastCycle
  <2> QED
    BY <1>1, <2>1, <2>2 DEF RestartInv, ListInv, FirstNodeSlot
<1> QED
  BY <1>2, <1>3

LEMMA PostNodeListRestart ==
  ASSUME IndInv, RestartInv, NEW n \in Nodes, PostNodeList(n)
  PROVE  RestartInv' /\ ListInv'
<1>1. /\ foundFirstNode' = TRUE /\ byPublicKey' = {n} /\ ~ foundFirstNode
      /\ restartedFrom' = restartedFrom \cup {cycleRecordWithShutDownMode}
      /\ UNCHANGED <<currentCycleCounter, tasks>>
  BY DEF PostNodeList
<1>2. tasks = {}
  BY <1>1 DEF RestartInv, LastCycle
<1>3. \A q \in restartedFrom' : q = NoRecord \/ Counter[q] <= currentCycleCounter'
  <2>1. currentCycleCounter \in Int
    BY DEF IndInv, TypeOK
  <2> QED
    BY <1>1, <2>1 DEF RestartInv, NotStarted, ShutDown
<1> QED
  BY <1>1, <1>2, <1>3 DEF RestartInv, ListInv, FirstNodeSlot

LEMMA RestartStep ==
  ASSUME IndInv, RestartInv, isFirst, Paced, [Next]_vars
  PROVE  /\ RestartInv'
         /\ ListInv /\ (\A q \in Record : ListedAfter[q] # {}) => ListInv'
<1>1. CASE \E s \in Sender, r \in Record : ReceiveCycle(s, r)
  BY <1>1, ReceiveCycleRestart
<1>2. CASE \E t \in tasks : TaskStep(t)
  BY <1>2, TaskStepRestart
<1>3. CASE \E n \in Nodes : PostNodeList(n)
  BY <1>3, PostNodeListRestart
<1>4. CASE UNCHANGED vars
  BY <1>4 DEF vars, nodeListVars, modeVars, firstNodeVars, RestartInv, ListInv, LastCycle,
              NotStarted, ShutDown, FirstNodeSlot
<1> QED
  BY <1>1, <1>2, <1>3, <1>4 DEF Next

LEMMA RestartInvariance ==
  ASSUME isFirst, Paced
  PROVE  Spec => []RestartInv
<1>1. Init => RestartInv
  BY DEF Init, RestartInv, NotStarted
<1>2. IndInv /\ RestartInv /\ [Next]_vars => RestartInv'
  BY RestartStep
<1> QED
  BY Invariance, <1>1, <1>2, PTL DEF Spec

-----------------------------------------------------------------------------
(* The cycles an archiver downloads when it starts (DataSync).  What was stored is compared *)
(* with the chain of another archiver, whose newest record is stored first and the others   *)
(* from there downwards, to what matched; then the records are counted.                     *)

\* The record the network has of cycle n; the records there may be.
Genuine(n) == [counter |-> n, forked |-> FALSE]
CycleRecords == [counter : Nat, forked : BOOLEAN]

\* The records of cycles m to n are stored.
HasCycles(m, n) == \A c \in m..n : Genuine(c) \in own.cycles

\* The phases of a synchronisation, by its awaits.
Comparing == {"compareCycles", "join", "compare", "genesisTotal", "genesis", "syncLists"}
Matched == {"join", "compare", "genesisTotal", "genesis", "syncLists"}
Filling ==
  {"total", "askTotal", "page", "askAgain",
   "byCycleTotal", "byCycle", "byCycleAsk", "count", "rangePage", "recount"}
Resting == {"restTotal", "restAsk", "rest", "serve"}
Serving == {"newest", "betweenCycles", "done", "stopped"}

\* Of what shape the state is in which cycles are downloaded.
TablesTyped ==
  /\ "cycles" \in DOMAIN own /\ IsFiniteSet(own.cycles)
  /\ own.cycles \subseteq CycleRecords
  /\ "cycle" \in DOMAIN remote /\ remote.cycle \in Nat
  /\ counter \in Int
  /\ "cycle" \in DOMAIN stored /\ stored.cycle \in Nat
  /\ pc = "oldCycles" => "end" \in DOMAIN loc /\ loc.end \in Int

\* The newest record that matched is stored, or nothing was stored before and no record is one
\* that was replaced; the counter is that of a record that is stored.
FromStored ==
  Genuine(stored.cycle) \in own.cycles \/ (stored.cycle = 0 /\ \A c \in own.cycles : ~c.forked)
ToNewest == counter \in Nat /\ Genuine(counter) \in own.cycles

\* What a synchronisation knows of the stored cycles, phase by phase, whatever gaps they have.
NotBegun == pc = "start" \/ pc \in Comparing => counter = -1 /\ ~active
StoredKept == pc \in Matched => FromStored
Downward ==
  pc = "oldCycles" =>
    /\ ~active /\ FromStored /\ ToNewest
    /\ HasCycles(loc.end + 1, counter) /\ counter <= remote.cycle
Complete ==
  pc \in Filling \cup {"check"} /\ ~final =>
    ~active /\ FromStored /\ ToNewest /\ HasCycles(stored.cycle + 1, counter)
Live ==
  /\ active => final \/ pc \in Serving
  /\ final => pc \in Filling \cup Serving
  /\ pc = "betweenCycles" => final

CyclesInv == TablesTyped /\ NotBegun /\ StoredKept /\ Downward /\ Complete /\ Live

-----------------------------------------------------------------------------
(* Finite sets of records *)

\* The operators of DataSync are those of FiniteSets and FiniteSetsExt.
LEMMA SameCardinality == \A T : Sync!Cardinality(T) = Cardinality(T)
BY DEF Sync!Cardinality, Cardinality

\* A finite set of numbers has a greatest: of the sets without one none is smallest.
HasGreatest(T) == \E m \in T : \A k \in T : k <= m
LEMMA Greatest ==
  ASSUME NEW T \in SUBSET Nat, IsFiniteSet(T), T # {}
  PROVE  HasGreatest(T)
<1> DEFINE R == StrictSubsetOrdering(Nat)
           U == {V \in FiniteSubsetsOf(Nat) : V # {} /\ ~HasGreatest(V)}
<1> SUFFICES ASSUME ~HasGreatest(T) PROVE FALSE
  OBVIOUS
<1>1. IsWellFoundedOn(R, FiniteSubsetsOf(Nat))
  BY FS_StrictSubsetOrderingWellFounded
<1>2. U \subseteq FiniteSubsetsOf(Nat) /\ T \in U
  BY DEF FiniteSubsetsOf
<1>3. PICK V \in U : \A W \in U : <<W, V>> \notin R
  <2> HIDE DEF U, R
  <2> QED
    BY <1>1, <1>2, WFMin
<1>4. V \subseteq Nat /\ IsFiniteSet(V) /\ V # {} /\ ~HasGreatest(V)
  BY DEF FiniteSubsetsOf
<1>5. PICK x \in V : TRUE
  BY <1>4
<1> DEFINE W == V \ {x}
<1>6. W \subseteq Nat /\ IsFiniteSet(W) /\ <<W, V>> \in R
  BY <1>4, <1>5, FS_RemoveElement DEF StrictSubsetOrdering
<1>7. W # {}
  BY <1>4, <1>5 DEF HasGreatest
<1>8. HasGreatest(W)
  BY <1>3, <1>6, <1>7 DEF FiniteSubsetsOf
<1>9. PICK y \in W : \A k \in W : k <= y
  BY <1>8 DEF HasGreatest
<1> DEFINE z == IF x <= y THEN y ELSE x
<1>10. z \in V /\ \A k \in V : k <= z
  BY <1>4, <1>5, <1>9
<1> QED
  BY <1>4, <1>10 DEF HasGreatest

\* The newest of some records: none is newer, and one is of it.
LEMMA LatestIs ==
  ASSUME NEW C \in SUBSET CycleRecords, IsFiniteSet(C), C # {}
  PROVE  /\ Sync!LatestOf(C) \in Nat
         /\ \A c \in C : c.counter <= Sync!LatestOf(C)
         /\ \E c \in C : c.counter = Sync!LatestOf(C)
<1> DEFINE T == {c.counter : c \in C}
<1>1. T \in SUBSET Nat /\ T # {}
  BY DEF CycleRecords
<1>2. IsFiniteSet(T)
  <2> DEFINE f == [c \in C |-> c.counter]
  <2>1. f \in [C -> T] /\ \A t \in T : \E c \in C : f[c] = t
    OBVIOUS
  <2> HIDE DEF f, T
  <2>2. f \in Surjection(C, T)
    BY <2>1 DEF Surjection
  <2> QED
    BY <2>2, FS_Surjection
<1>3. PICK m \in T : \A k \in T : k <= m
  BY <1>1, <1>2, Greatest DEF HasGreatest
<1>4. m \in T /\ \A k \in T : m >= k
  BY <1>1, <1>3
<1>5. Sync!Max(T) \in T /\ \A k \in T : Sync!Max(T) >= k
  BY <1>4 DEF Sync!Max
<1>6. Sync!LatestOf(C) = Sync!Max(T)
  BY DEF Sync!LatestOf
<1> HIDE DEF T
<1>7. Sync!LatestOf(C) \in T /\ \A k \in T : k <= Sync!LatestOf(C)
  BY <1>1, <1>5, <1>6
<1> QED
  BY <1>1, <1>7 DEF T

\* The chain up to a cycle is finite and has one record more than the cycle says.
LEMMA ChainCount ==
  ASSUME NEW n \in Nat
  PROVE  /\ Sync!Chain(n) \subseteq CycleRecords
         /\ IsFiniteSet(Sync!Chain(n)) /\ Cardinality(Sync!Chain(n)) = n + 1
<1> DEFINE f == [k \in 0..n |-> Genuine(k)]
<1>1. f \in Bijection(0..n, Sync!Chain(n))
  <2>1. f \in [0..n -> Sync!Chain(n)]
    BY DEF Sync!Chain, Genuine
  <2>2. \A j, k \in 0..n : f[j] = f[k] => j = k
    BY DEF Genuine
  <2>3. \A c \in Sync!Chain(n) : \E k \in 0..n : f[k] = c
    BY DEF Sync!Chain, Genuine
  <2> HIDE DEF f
  <2>4. f \in Injection(0..n, Sync!Chain(n))
    BY <2>1, <2>2 DEF Injection, IsInjective
  <2>5. f \in Surjection(0..n, Sync!Chain(n))
    BY <2>1, <2>3 DEF Surjection
  <2> QED
    BY <2>4, <2>5 DEF Bijection
<1>2. IsFiniteSet(0..n) /\ Cardinality(0..n) = n + 1
  BY FS_Interval
<1>3. ExistsBijection(0..n, Sync!Chain(n))
  BY <1>1 DEF ExistsBijection
<1>4. IsFiniteSet(Sync!Chain(n)) /\ Cardinality(Sync!Chain(n)) = n + 1
  <2>1. IsFiniteSet(Sync!Chain(n)) /\ Cardinality(Sync!Chain(n)) = Cardinality(0..n)
    BY <1>2, <1>3, FS_Bijection, Zenon
  <2> QED
    BY <1>2, <2>1, Zenon
<1>5. Sync!Chain(n) \subseteq CycleRecords
  <2>1. \A c \in 0..n : c \in Nat
    OBVIOUS
  <2>2. \A c \in Nat : [counter |-> c, forked |-> FALSE] \in CycleRecords
    BY DEF CycleRecords
  <2> QED
    BY <2>1, <2>2 DEF Sync!Chain
<1> QED
  BY <1>4, <1>5

\* Records of the chain that are as many as it has are the chain.
LEMMA CountedChain ==
  ASSUME NEW C \in SUBSET CycleRecords, IsFiniteSet(C), NEW n \in Nat,
         Cardinality(C) = n + 1, C \subseteq Sync!Chain(n)
  PROVE  C = Sync!Chain(n)
BY ChainCount, FS_Subset

-----------------------------------------------------------------------------
(* Answers, and records that are processed *)

\* The archivers answer with records of the network's chain, all of a range that is not too long.
LEMMA ReplyRows ==
  ASSUME NEW start, NEW end, remote.cycle \in Nat
  PROVE  /\ Sync!CyclesReply(start, end).success
              => Sync!CyclesReply(start, end).rows \subseteq Sync!Chain(remote.cycle)
         /\ start \in Nat /\ end \in Nat \ {0} /\ start <= end /\ end - start <= MaxPerRequest
              => /\ Sync!CyclesReply(start, end).success
                 /\ Sync!CyclesReply(start, end).rows
                      = {c \in Sync!Chain(remote.cycle) : start <= c.counter /\ c.counter <= end}
<1> DEFINE req == [start |-> start, end |-> end]
           range == Sync!ValidRange(req, "start", "end", MaxPerRequest)
           to == Sync!To(req, "start", "end")
           rows == {c \in Sync!Chain(remote.cycle) : start <= c.counter /\ c.counter <= to}
<1>1. ~Sync!Truthy(req, "count")
  BY DEF Sync!Truthy, Sync!Has
<1>2. Sync!CyclesReply(start, end) = IF range THEN [success |-> TRUE, rows |-> rows] ELSE [success |-> FALSE]
  BY <1>1 DEF Sync!CyclesReply, Sync!cycleinfoReply, Sync!Rows, Sync!Invalid,
              Sync!queryCycleRecordsBetween
<1>3. end \in Nat \ {0} => to = end
  BY DEF Sync!To, Sync!Truthy, Sync!Has
<1>4. start \in Nat /\ end \in Nat \ {0} /\ start <= end /\ end - start <= MaxPerRequest => range
  BY <1>3 DEF Sync!ValidRange
<1>5. rows \subseteq Sync!Chain(remote.cycle)
  OBVIOUS
<1> HIDE DEF range
<1>6. CASE range
  <2>1. Sync!CyclesReply(start, end).success /\ Sync!CyclesReply(start, end).rows = rows
    BY <1>2, <1>6
  <2> QED
    BY <2>1, <1>3, <1>5
<1>7. CASE ~range
  <2>1. ~Sync!CyclesReply(start, end).success
    BY <1>2, <1>7
  <2> QED
    BY <2>1, <1>4, <1>7
<1> QED
  BY <1>6, <1>7

\* More records are stored.
Stores(rows) ==
  /\ "cycles" \in DOMAIN own' /\ own'.cycles = own.cycles \cup rows
  /\ IsFiniteSet(own'.cycles) /\ own'.cycles \subseteq CycleRecords

LEMMA StoredCycles ==
  ASSUME TablesTyped, NEW rows, rows \subseteq Sync!Chain(remote.cycle), Sync!StoreCycles(rows)
  PROVE  Stores(rows)
<1>1. "cycles" \in DOMAIN own' /\ own'.cycles = own.cycles \cup rows
  BY DEF Sync!StoreCycles, TablesTyped
<1>2. IsFiniteSet(Sync!Chain(remote.cycle)) /\ Sync!Chain(remote.cycle) \subseteq CycleRecords
  BY ChainCount DEF TablesTyped
<1>3. IsFiniteSet(rows)
  BY <1>2, FS_Subset
<1>4. IsFiniteSet(own.cycles \cup rows)
  BY <1>3, FS_Union DEF TablesTyped
<1> QED
  BY <1>1, <1>2, <1>4 DEF Stores, TablesTyped

\* Records of the chain that are processed are stored, and the counter is a number.
LEMMA ProcessedCycles ==
  ASSUME TablesTyped, NEW rows, rows \subseteq Sync!Chain(remote.cycle), Sync!ProcessCycles(rows)
  PROVE  /\ "cycles" \in DOMAIN own' /\ IsFiniteSet(own'.cycles) /\ own'.cycles \subseteq CycleRecords
         /\ counter' \in Int
<1> DEFINE new == {c \in rows : c.counter > counter}
<1>1. Sync!StoreCycles(new) /\ counter' = IF new = {} THEN counter ELSE Sync!LatestOf(new)
  BY DEF Sync!ProcessCycles
<1>2. new \subseteq Sync!Chain(remote.cycle)
  OBVIOUS
<1> HIDE DEF new
<1>3. Stores(new)
  BY <1>1, <1>2, StoredCycles
<1>4. IsFiniteSet(Sync!Chain(remote.cycle)) /\ Sync!Chain(remote.cycle) \subseteq CycleRecords
  BY ChainCount DEF TablesTyped
<1>5. new \in SUBSET CycleRecords /\ IsFiniteSet(new)
  BY <1>2, <1>4, FS_Subset
<1>6. counter' \in Int
  BY <1>1, <1>5, LatestIs DEF TablesTyped
<1> QED
  BY <1>3, <1>6 DEF Stores

-----------------------------------------------------------------------------
(* What the steps of a synchronisation have in common *)

\* The stored cycles stay as they are, or at least records.
SameCycles == "cycles" \in DOMAIN own' /\ own'.cycles = own.cycles
CyclesTyped ==
  "cycles" \in DOMAIN own' /\ IsFiniteSet(own'.cycles) /\ own'.cycles \subseteq CycleRecords

\* Records that stay are records.
LEMMA SameTyped == TablesTyped /\ SameCycles => CyclesTyped
BY DEF TablesTyped, SameCycles, CyclesTyped

\* A row of another table is stored.
LEMMA OtherTable ==
  ASSUME TablesTyped, NEW k \in Sync!Tables, NEW rows, own' = [own EXCEPT ![k] = rows]
  PROVE  SameCycles
<1>1. k # "cycles"
  BY DEF Sync!Tables, Sync!Kinds
<1> QED
  BY <1>1 DEF TablesTyped, SameCycles

\* A step of the downloads of receipts and original transactions.
FillingMove ==
  /\ SameCycles
  /\ UNCHANGED <<remote, counter, active, final, stored>>
  /\ pc \in Filling
  /\ pc' \in Filling \cup {"stopped", IF final THEN "done" ELSE "check"}

\* It leaves the cycles alone, and what was known of them holds to the check.
LEMMA FillingKeeps == CyclesInv /\ FillingMove => CyclesInv'
<1> SUFFICES ASSUME CyclesInv, FillingMove PROVE CyclesInv'
  OBVIOUS
<1> USE DEF CyclesInv, FillingMove
<1>1. /\ pc' # "oldCycles" /\ pc' # "start" /\ pc' \notin Comparing /\ pc' \notin Matched
      /\ pc' # "betweenCycles"
  BY DEF Filling, Comparing, Matched
<1>2. TablesTyped'
  BY <1>1, SameTyped DEF TablesTyped, CyclesTyped
<1>3. NotBegun' /\ StoredKept' /\ Downward'
  BY <1>1 DEF NotBegun, StoredKept, Downward
<1>4. Live'
  BY <1>1 DEF Live, Filling, Serving
<1>5. Complete'
  BY DEF Complete, SameCycles, FromStored, ToNewest, HasCycles
<1> QED
  BY <1>2, <1>3, <1>4, <1>5

\* A step of the comparisons, of joining, and of the downloads before the lists.
MatchedMove ==
  /\ SameCycles
  /\ UNCHANGED <<remote, counter, active, final>>
  /\ "cycle" \in DOMAIN stored' /\ stored'.cycle = stored.cycle
  /\ pc \in Matched
  /\ pc' \in Matched \cup {"stopped"}

\* It leaves the cycles alone, and the count of what matched.
LEMMA MatchedKeeps == CyclesInv /\ MatchedMove => CyclesInv'
<1> SUFFICES ASSUME CyclesInv, MatchedMove PROVE CyclesInv'
  OBVIOUS
<1> USE DEF CyclesInv, MatchedMove
<1>1. /\ pc' # "oldCycles" /\ pc' # "start" /\ pc' \notin Filling \cup {"check"} /\ pc' # "betweenCycles"
      /\ pc' # "stopped" => pc' \in Matched /\ pc' \in Comparing
  BY DEF Filling, Comparing, Matched
<1>2. pc \in Comparing /\ pc \notin Filling /\ pc \notin Serving
  BY DEF Filling, Comparing, Matched, Serving
<1>3. TablesTyped'
  BY <1>1, SameTyped DEF TablesTyped, CyclesTyped
<1>4. NotBegun'
  BY <1>1, <1>2 DEF NotBegun, Comparing
<1>5. StoredKept'
  BY DEF StoredKept, SameCycles, FromStored, Matched
<1>6. Downward' /\ Complete'
  BY <1>1 DEF Downward, Complete
<1>7. Live'
  BY <1>1, <1>2 DEF Live
<1> QED
  BY <1>3, <1>4, <1>5, <1>6, <1>7

\* A step once the stored cycles were counted.
LateMove ==
  /\ CyclesTyped /\ counter' \in Int
  /\ "cycle" \in DOMAIN stored' /\ stored'.cycle \in Nat
  /\ UNCHANGED remote
  /\ pc' \in Resting \cup Serving \/ (final' /\ pc' \in Filling)

\* So only the types and the order of the phases are left to keep.
LEMMA LateKeeps == CyclesInv /\ LateMove /\ Live' => CyclesInv'
<1> SUFFICES ASSUME CyclesInv, LateMove, Live' PROVE CyclesInv'
  OBVIOUS
<1>1. /\ pc' # "oldCycles" /\ pc' # "start" /\ pc' \notin Comparing /\ pc' \notin Matched
      /\ pc' \in Filling \cup {"check"} => final'
  BY DEF LateMove, Filling, Comparing, Matched, Resting, Serving
<1>2. TablesTyped'
  BY <1>1 DEF CyclesInv, LateMove, TablesTyped, CyclesTyped
<1>3. NotBegun' /\ StoredKept' /\ Downward' /\ Complete'
  BY <1>1 DEF NotBegun, StoredKept, Downward, Complete
<1> QED
  BY <1>2, <1>3 DEF CyclesInv

\* A step of the network, after which the chain is as long or longer.
NetworkMove ==
  /\ SameCycles
  /\ UNCHANGED <<counter, active, pc, final, stored, loc>>
  /\ "cycle" \in DOMAIN remote' /\ remote'.cycle \in Nat /\ remote.cycle <= remote'.cycle

\* What is known of the stored cycles stays true of a longer chain.
LEMMA NetworkKeeps == CyclesInv /\ NetworkMove => CyclesInv'
<1> SUFFICES ASSUME CyclesInv, NetworkMove PROVE CyclesInv'
  OBVIOUS
<1> USE DEF CyclesInv, NetworkMove
<1>1. TablesTyped'
  BY SameTyped DEF TablesTyped, CyclesTyped
<1>2. NotBegun'
  BY DEF NotBegun
<1>3. StoredKept'
  BY DEF StoredKept, SameCycles, FromStored
<1>4. Downward'
  <2>1. ASSUME FromStored, ToNewest, HasCycles(loc.end + 1, counter), counter <= remote.cycle
        PROVE  FromStored' /\ ToNewest' /\ HasCycles(loc.end + 1, counter)' /\ counter' <= remote'.cycle
    BY <2>1 DEF FromStored, ToNewest, HasCycles, SameCycles, TablesTyped
  <2> QED
    BY <2>1 DEF Downward
<1>5. Complete'
  BY DEF Complete, SameCycles, FromStored, ToNewest, HasCycles
<1>6. Live'
  BY DEF Live
<1> QED
  BY <1>1, <1>2, <1>3, <1>4, <1>5, <1>6

-----------------------------------------------------------------------------
(* The synchronisation keeps the invariant *)

\* Where the parts of a download lead.
Onward(p) == p \in Filling \cup {"stopped", IF final THEN "done" ELSE "check"}

LEMMA AfterDownloadGoes == ASSUME NEW k, Sync!AfterDownload(k) PROVE Onward(pc')
BY DEF Sync!AfterDownload, Sync!Begin, Sync!GoTo, Onward, Filling

LEMMA LoopHeadGoes == ASSUME NEW l, Sync!LoopHead(l) PROVE Onward(pc')
BY DEF Sync!LoopHead, Onward, Filling

LEMMA NextRangeGoes == ASSUME NEW l, Sync!NextRange(l) PROVE Onward(pc')
BY AfterDownloadGoes DEF Sync!NextRange, Onward, Filling

LEMMA AfterRangeGoes == ASSUME NEW l, Sync!AfterRange(l) PROVE Onward(pc')
BY DEF Sync!AfterRange, Onward, Filling

LEMMA NextPageOfRangeGoes == ASSUME NEW l, NEW got, Sync!NextPageOfRange(l, got) PROVE Onward(pc')
BY AfterRangeGoes DEF Sync!NextPageOfRange, Onward, Filling

\* Where an exception leads.
LEMMA StopGoes ==
  ASSUME Sync!Stop PROVE pc' = "stopped" /\ UNCHANGED <<final, stored, loc>>
BY DEF Sync!Stop

\* syncReceipts and syncOriginalTxs (Data.ts).
LEMMA SyncAllMoves ==
  ASSUME TablesTyped, NEW k \in Sync!Kinds, Sync!SyncAll(k)
  PROVE  FillingMove
<1> SUFFICES /\ SameCycles /\ UNCHANGED <<remote, counter, active, final, stored>>
             /\ pc \in Filling /\ Onward(pc')
  BY DEF FillingMove, Onward
<1>0. k \in Sync!Tables /\ (UNCHANGED own => SameCycles)
  BY DEF Sync!Tables, SameCycles, TablesTyped
<1>1. CASE Sync!FirstTotal(k)
  <2>1. UNCHANGED <<own, remote, counter, active, final, stored>> /\ pc = "total"
    BY <1>1 DEF Sync!FirstTotal, Sync!tables
  <2>2. Onward(pc')
    <3>1. Sync!AfterDownload(k) \/ pc' \in {"stopped", "askTotal", "page"}
      BY <1>1 DEF Sync!FirstTotal
    <3> QED
      BY <3>1, AfterDownloadGoes DEF Onward, Filling
  <2> QED
    BY <2>1, <2>2, <1>0 DEF Filling
<1>2. CASE Sync!AskTotal(k)
  <2>1. UNCHANGED <<own, remote, counter, active, final, stored>> /\ pc = "askTotal" /\ pc' = "page"
    BY <1>2 DEF Sync!AskTotal, Sync!tables
  <2> QED
    BY <2>1, <1>0 DEF Filling, Onward
<1>3. CASE Sync!DownloadPage(k)
  <2>1. UNCHANGED <<remote, counter, active, final, stored>> /\ pc = "page"
    BY <1>3 DEF Sync!DownloadPage
  <2>2. UNCHANGED own \/ \E rows : own' = [own EXCEPT ![k] = rows]
    BY <1>3 DEF Sync!DownloadPage, Sync!Download
  <2>3. (\E l : Sync!LoopHead(l)) \/ pc' = "askAgain"
    BY <1>3 DEF Sync!DownloadPage
  <2>4. Onward(pc')
    BY <2>3, LoopHeadGoes DEF Onward, Filling
  <2> QED
    BY <2>1, <2>2, <2>4, <1>0, OtherTable DEF Filling
<1>4. CASE Sync!AskAgain(k)
  <2>1. UNCHANGED <<own, remote, counter, active, final, stored>> /\ pc = "askAgain"
    BY <1>4 DEF Sync!AskAgain, Sync!tables
  <2>2. Sync!AfterDownload(k) \/ \E l : Sync!LoopHead(l)
    BY <1>4 DEF Sync!AskAgain
  <2>3. Onward(pc')
    BY <2>2, LoopHeadGoes, AfterDownloadGoes
  <2> QED
    BY <2>1, <2>3, <1>0 DEF Filling
<1> QED
  BY <1>1, <1>2, <1>3, <1>4 DEF Sync!SyncAll

\* syncReceiptsByCycle and syncOriginalTxsByCycle (Data.ts).
LEMMA SyncByCycleMoves ==
  ASSUME TablesTyped, NEW k \in Sync!Kinds, Sync!SyncByCycle(k)
  PROVE  FillingMove
<1> SUFFICES /\ SameCycles /\ UNCHANGED <<remote, counter, active, final, stored>>
             /\ pc \in Filling /\ Onward(pc')
  BY DEF FillingMove, Onward
<1>0. k \in Sync!Tables /\ (UNCHANGED own => SameCycles)
  BY DEF Sync!Tables, SameCycles, TablesTyped
<1>1. CASE Sync!ByCycleTotal(k)
  <2>1. UNCHANGED <<own, remote, counter, active, final, stored>> /\ pc = "byCycleTotal"
    BY <1>1 DEF Sync!ByCycleTotal, Sync!tables
  <2>2. Sync!AfterDownload(k) \/ pc' = "byCycle"
    BY <1>1 DEF Sync!ByCycleTotal
  <2>3. Onward(pc')
    BY <2>2, AfterDownloadGoes DEF Onward, Filling
  <2> QED
    BY <2>1, <2>3, <1>0 DEF Filling
<1>2. CASE Sync!ByCycle(k)
  <2>1. UNCHANGED <<own, remote, counter, active, final, stored>> /\ pc = "byCycle"
    BY <1>2 DEF Sync!ByCycle, Sync!tables, Sync!history
  <2>2. Sync!AfterDownload(k) \/ pc' = "byCycleAsk" \/ \E l : Sync!NextRange(l)
    <3> DEFINE l == IF loc.end > loc.totalCycles
                      THEN [loc EXCEPT !.end = loc.totalCycles, !.totalSaved = Sync!Cardinality(own[k])]
                      ELSE loc
    <3>1. (CASE l.to > 0 /\ l.start > l.to -> Sync!AfterDownload(k)
             [] l.to = 0 /\ l.totalSaved >= l.total -> pc' = "byCycleAsk" /\ loc' = l /\ UNCHANGED kind
             [] OTHER -> Sync!NextRange(l))
      BY <1>2, Zenon DEF Sync!ByCycle
    <3> HIDE DEF l
    <3>2. Sync!AfterDownload(k) \/ pc' = "byCycleAsk" \/ Sync!NextRange(l)
      BY <3>1
    <3> QED
      BY <3>2, Zenon
  <2>3. Onward(pc')
    BY <2>2, AfterDownloadGoes, NextRangeGoes DEF Onward, Filling
  <2> QED
    BY <2>1, <2>3, <1>0 DEF Filling
<1>3. CASE Sync!ByCycleAsk(k)
  <2>1. UNCHANGED <<own, remote, counter, active, final, stored>> /\ pc = "byCycleAsk"
    BY <1>3 DEF Sync!ByCycleAsk, Sync!tables
  <2>2. Sync!AfterDownload(k) \/ \E l : Sync!NextRange(l)
    BY <1>3 DEF Sync!ByCycleAsk
  <2>3. Onward(pc')
    BY <2>2, AfterDownloadGoes, NextRangeGoes
  <2> QED
    BY <2>1, <2>3, <1>0 DEF Filling
<1>4. CASE Sync!CountOfRange(k)
  <2>1. UNCHANGED <<own, remote, counter, active>> /\ pc = "count"
    BY <1>4 DEF Sync!CountOfRange, Sync!tables
  <2>2. \/ Sync!Stop
        \/ UNCHANGED <<final, stored>> /\ (UNCHANGED pc \/ Sync!AfterRange(loc) \/ pc' = "rangePage")
    BY <1>4 DEF Sync!CountOfRange
  <2>3. Onward(pc') /\ UNCHANGED <<final, stored>>
    BY <2>1, <2>2, AfterRangeGoes, StopGoes DEF Onward, Filling
  <2> QED
    BY <2>1, <2>3, <1>0 DEF Filling
<1>5. CASE Sync!DownloadPageOfRange(k)
  <2>1. UNCHANGED <<remote, counter, active, final, stored>> /\ pc = "rangePage"
    BY <1>5 DEF Sync!DownloadPageOfRange
  <2>2. UNCHANGED own \/ \E rows : own' = [own EXCEPT ![k] = rows]
    BY <1>5 DEF Sync!DownloadPageOfRange, Sync!Download
  <2>3. UNCHANGED pc \/ pc' = "recount" \/ \E l, got : Sync!NextPageOfRange(l, got)
    BY <1>5 DEF Sync!DownloadPageOfRange
  <2>4. Onward(pc')
    BY <2>1, <2>3, NextPageOfRangeGoes DEF Onward, Filling
  <2> QED
    BY <2>1, <2>2, <2>4, <1>0, OtherTable DEF Filling
<1>6. CASE Sync!Recount(k)
  <2>1. UNCHANGED <<own, remote, counter, active, final, stored>> /\ pc = "recount"
    BY <1>6 DEF Sync!Recount, Sync!tables
  <2>2. pc' = "rangePage" \/ \E l, got : Sync!NextPageOfRange(l, got)
    BY <1>6 DEF Sync!Recount
  <2>3. Onward(pc')
    BY <2>2, NextPageOfRangeGoes DEF Onward, Filling
  <2> QED
    BY <2>1, <2>3, <1>0 DEF Filling
<1> QED
  BY <1>1, <1>2, <1>3, <1>4, <1>5, <1>6 DEF Sync!SyncByCycle

\* Joining, the comparisons of receipts and original transactions, genesis accounts and
\* transactions.
LEMMA EarlyMoves ==
  ASSUME TablesTyped,
         \/ Sync!JoinNetwork \/ Sync!CompareOldData
         \/ Sync!SyncGenesisAccountsFromArchiver \/ Sync!SyncGenesisTransactionsFromArchiver
  PROVE  MatchedMove
<1>0. UNCHANGED own => SameCycles
  BY DEF SameCycles, TablesTyped
<1>1. CASE Sync!JoinNetwork
  BY <1>0, <1>1 DEF Sync!JoinNetwork, Sync!GoTo, Sync!tables, Sync!history, MatchedMove, Matched, TablesTyped
<1>2. CASE Sync!CompareOldData
  <2>1. UNCHANGED <<own, remote, counter, active>> /\ pc = "compare"
    BY <1>2 DEF Sync!CompareOldData, Sync!tables
  <2>2. \/ Sync!Stop
        \/ /\ pc' \in {"compare", "genesisTotal"} /\ UNCHANGED final
           /\ UNCHANGED stored \/ \E k \in Sync!Kinds : \E n : stored' = [stored EXCEPT ![Sync!CycleField(k)] = n]
    <3>1. ASSUME NEW k \in Sync!Kinds, Sync!CompareOldTxs(k)
          PROVE  \/ Sync!Stop
                 \/ /\ pc' \in {pc, "genesisTotal"} /\ UNCHANGED final
                    /\ \E n : stored' = [stored EXCEPT ![Sync!CycleField(k)] = n]
      BY <3>1 DEF Sync!CompareOldTxs
    <3>2. \/ \E k \in Sync!Kinds : Sync!CompareOldTxs(k)
          \/ pc' \in {pc, "genesisTotal"} /\ UNCHANGED <<final, stored>>
      BY <1>2 DEF Sync!CompareOldData, Sync!CompareWithOldReceiptsData,
                  Sync!CompareWithOldOriginalTxsData, Sync!Kinds
    <3> QED
      BY <2>1, <3>1, <3>2
  <2>3. UNCHANGED final /\ "cycle" \in DOMAIN stored' /\ stored'.cycle = stored.cycle
    <3>1. \A k : Sync!CycleField(k) # "cycle"
      BY DEF Sync!CycleField
    <3> QED
      BY <2>2, <3>1, StopGoes DEF TablesTyped
  <2>4. pc' \in Matched \cup {"stopped"}
    BY <2>2, StopGoes DEF Matched
  <2> QED
    BY <1>0, <2>1, <2>3, <2>4 DEF MatchedMove, Matched
<1>3. ASSUME NEW t \in {"account", "transaction"}, Sync!GenesisTotal(t) PROVE MatchedMove
  <2>1. UNCHANGED <<own, remote, counter, active, final, stored>> /\ pc = "genesisTotal"
    BY <1>3 DEF Sync!GenesisTotal, Sync!tables
  <2>2. pc' \in {"genesisTotal", "genesis", "syncLists"}
    BY <1>3 DEF Sync!GenesisTotal, Sync!AfterGenesis, Sync!GoTo
  <2> QED
    BY <1>0, <2>1, <2>2 DEF MatchedMove, Matched, TablesTyped
<1>4. ASSUME NEW t \in {"account", "transaction"}, Sync!GenesisPage(t) PROVE MatchedMove
  <2>1. UNCHANGED <<remote, counter, active, final, stored>> /\ pc = "genesis"
    BY <1>4 DEF Sync!GenesisPage
  <2>2. UNCHANGED own \/ \E rows : own' = [own EXCEPT ![t] = rows]
    BY <1>4 DEF Sync!GenesisPage, Sync!Download
  <2>3. pc' \in {"genesisTotal", "genesis", "syncLists"}
    BY <1>4 DEF Sync!GenesisPage, Sync!AfterGenesis, Sync!GoTo
  <2>4. SameCycles
    BY <1>0, <2>2, OtherTable DEF Sync!Tables
  <2> QED
    BY <2>1, <2>3, <2>4 DEF MatchedMove, Matched, TablesTyped
<1> QED
  BY <1>1, <1>2, <1>3, <1>4 DEF Sync!SyncGenesisAccountsFromArchiver, Sync!SyncGenesisTransactionsFromArchiver

\* What was stored is counted.
LEMMA CountDataKeeps == CyclesInv /\ Sync!CountData => CyclesInv'
<1> SUFFICES ASSUME CyclesInv, Sync!CountData PROVE CyclesInv'
  OBVIOUS
<1>0. TablesTyped
  BY DEF CyclesInv
<1>1. UNCHANGED <<own, remote, counter, active>> /\ pc = "start"
  BY DEF Sync!CountData, Sync!tables
<1>2. SameCycles
  BY <1>0, <1>1 DEF TablesTyped, SameCycles
<1>3. CASE Sync!Stop
  <2>1. LateMove
    BY <1>0, <1>1, <1>2, <1>3, SameTyped DEF Sync!Stop, LateMove, Serving, TablesTyped
  <2>2. Live'
    BY <1>1, <1>3 DEF Sync!Stop, CyclesInv, NotBegun, Live, Filling, Serving
  <2> QED
    BY <2>1, <2>2, LateKeeps
<1>4. CASE ~Sync!Stop
  <2>1. /\ pc' = IF own.cycles = {} THEN "join" ELSE "compareCycles"
        /\ stored' = [stored EXCEPT !.cycle = Sync!Cardinality(own.cycles),
                                    !.receipt = Sync!Cardinality(own.receipt),
                                    !.originalTx = Sync!Cardinality(own.originalTx)]
        /\ UNCHANGED final
    BY <1>4 DEF Sync!CountData, Sync!GoTo
  <2>2. Cardinality(own.cycles) \in Nat
    BY <1>0, FS_CardinalityType DEF TablesTyped
  <2>3. "cycle" \in DOMAIN stored' /\ stored'.cycle = Cardinality(own.cycles)
    BY <1>0, <2>1, SameCardinality DEF TablesTyped
  <2>4. /\ pc' # "oldCycles" /\ pc' # "start" /\ pc' \notin Filling \cup {"check"} /\ pc' # "betweenCycles"
        /\ pc' \in Matched => own.cycles = {}
        /\ pc' \in Comparing
    BY <2>1 DEF Filling, Comparing, Matched
  <2>5. TablesTyped'
    BY <1>0, <1>1, <1>2, <2>2, <2>3, <2>4, SameTyped DEF TablesTyped, CyclesTyped
  <2>6. counter = -1 /\ ~active
    BY <1>1 DEF CyclesInv, NotBegun
  <2>7. ~final
    BY <1>1 DEF CyclesInv, Live, Filling, Serving
  <2>8. NotBegun'
    BY <1>1, <2>6 DEF NotBegun
  <2>9. StoredKept'
    <3>1. ASSUME own.cycles = {} PROVE FromStored'
      <4>1. stored'.cycle = 0
        BY <2>3, <3>1, FS_EmptySet
      <4> QED
        BY <1>1, <3>1, <4>1 DEF FromStored
    <3> QED
      BY <2>4, <3>1 DEF StoredKept
  <2>10. Downward' /\ Complete'
    BY <2>4 DEF Downward, Complete
  <2>11. Live'
    BY <1>1, <2>1, <2>4, <2>6, <2>7 DEF Live
  <2> QED
    BY <2>5, <2>8, <2>9, <2>10, <2>11 DEF CyclesInv
<1> QED
  BY <1>3, <1>4

\* The newest record that matches is stored.
LEMMA CompareKeeps == CyclesInv /\ Sync!CompareWithOldCyclesData => CyclesInv'
<1> SUFFICES ASSUME CyclesInv, Sync!CompareWithOldCyclesData PROVE CyclesInv'
  OBVIOUS
<1> DEFINE last == Sync!LatestOf(own.cycles)
           reply == Sync!CyclesReply(last - ComparedCycles, last)
           kept == Sync!queryCycleRecordsBetween(own.cycles, last - ComparedCycles, last)
           matched == Sync!MatchedCycles(reply.rows, kept)
<1>0. TablesTyped
  BY DEF CyclesInv
<1>1. UNCHANGED <<own, remote, counter, active>> /\ pc = "compareCycles"
  BY DEF Sync!CompareWithOldCyclesData, Sync!tables
<1>2. SameCycles
  BY <1>0, <1>1 DEF TablesTyped, SameCycles
<1>3. CASE Sync!Stop
  <2>1. LateMove
    BY <1>0, <1>1, <1>2, <1>3, SameTyped DEF Sync!Stop, LateMove, Serving, TablesTyped
  <2>2. Live'
    BY <1>1, <1>3 DEF Sync!Stop, CyclesInv, NotBegun, Live, Filling, Serving, Comparing
  <2> QED
    BY <2>1, <2>2, LateKeeps
<1>4. CASE ~Sync!Stop
  <2>1. /\ reply.success /\ matched # {} /\ pc' = "join" /\ UNCHANGED final
        /\ stored' = [stored EXCEPT !.cycle = Sync!LatestOf(matched)]
    BY <1>4 DEF Sync!CompareWithOldCyclesData, Sync!CyclesReply, Sync!GoTo
  <2>2. matched \subseteq Sync!Chain(remote.cycle) /\ matched \subseteq own.cycles
    <3>1. reply.rows \subseteq Sync!Chain(remote.cycle)
      BY <1>0, <2>1, ReplyRows DEF TablesTyped
    <3>2. matched \subseteq reply.rows
      BY DEF Sync!MatchedCycles
    <3>3. matched \subseteq own.cycles
      <4> SUFFICES ASSUME NEW c \in matched PROVE c \in own.cycles
        OBVIOUS
      <4>1. c \in Sync!Chain(remote.cycle) /\ c \in reply.rows
        BY <3>1, <3>2
      <4>2. c.counter <= c.counter
        BY <1>0, <4>1, ChainCount DEF TablesTyped, CycleRecords
      <4>3. c \in kept
        BY <4>1, <4>2 DEF Sync!MatchedCycles
      <4> QED
        BY <4>3 DEF Sync!queryCycleRecordsBetween
    <3> QED
      BY <3>1, <3>2, <3>3
  <2> HIDE DEF matched, reply, kept, last
  <2>3. matched \in SUBSET CycleRecords /\ IsFiniteSet(matched)
    BY <1>0, <2>2, FS_Subset DEF TablesTyped
  <2>4. PICK c \in matched : c.counter = Sync!LatestOf(matched)
    BY <2>1, <2>3, LatestIs
  <2>5. Sync!LatestOf(matched) \in Nat
    BY <2>1, <2>3, LatestIs
  <2>6. "cycle" \in DOMAIN stored' /\ stored'.cycle = c.counter /\ stored'.cycle \in Nat
    BY <1>0, <2>1, <2>4, <2>5 DEF TablesTyped
  <2>7. TablesTyped'
    BY <1>0, <1>1, <1>2, <2>1, <2>6, SameTyped DEF TablesTyped, CyclesTyped
  <2>8. counter = -1 /\ ~active /\ ~final
    BY <1>1 DEF CyclesInv, NotBegun, Live, Comparing, Filling, Serving
  <2>9. Genuine(c.counter) \in own.cycles
    <3>1. c \in own.cycles /\ ~c.forked
      BY <2>2 DEF Sync!Chain
    <3>2. c = Genuine(c.counter)
      BY <2>3, <3>1 DEF CycleRecords, Genuine
    <3> QED
      BY <3>1, <3>2
  <2>10. NotBegun'
    BY <1>1, <2>8 DEF NotBegun
  <2>11. StoredKept'
    BY <1>1, <2>6, <2>9 DEF StoredKept, FromStored
  <2>12. Downward' /\ Complete' /\ Live'
    BY <1>1, <2>1, <2>8 DEF Downward, Complete, Live, Filling
  <2> QED
    BY <2>7, <2>10, <2>11, <2>12 DEF CyclesInv
<1> QED
  BY <1>3, <1>4

\* The record syncV2 gives is of the chain.
LEMMA NewestOfChain ==
  ASSUME NEW n \in Nat PROVE {[counter |-> n, forked |-> FALSE]} \subseteq Sync!Chain(n)
<1>1. n \in 0..n
  OBVIOUS
<1> QED
  BY <1>1 DEF Sync!Chain

\* The newest record is stored first.
LEMMA SyncListsKeeps == CyclesInv /\ Sync!SyncCyclesAndNodeListV2 => CyclesInv'
<1> SUFFICES ASSUME CyclesInv, Sync!SyncCyclesAndNodeListV2 PROVE CyclesInv'
  OBVIOUS
<1> DEFINE newest == {[counter |-> remote.cycle, forked |-> FALSE]}
<1>0. TablesTyped
  BY DEF CyclesInv
<1>1. UNCHANGED <<remote, active>> /\ pc = "syncLists"
  BY DEF Sync!SyncCyclesAndNodeListV2
<1>2. counter = -1 /\ ~active /\ FromStored /\ ~final
  BY <1>1 DEF CyclesInv, NotBegun, StoredKept, Live, Comparing, Matched, Filling, Serving
<1>3. CASE Sync!Stop
  <2>1. UNCHANGED <<own, counter>> \/ Sync!GoTo("oldCycles")
    BY DEF Sync!SyncCyclesAndNodeListV2
  <2>2. UNCHANGED <<own, counter>>
    BY <1>3, <2>1 DEF Sync!Stop, Sync!GoTo
  <2>3. SameCycles
    BY <1>0, <2>2 DEF SameCycles, TablesTyped
  <2>4. LateMove
    BY <1>0, <1>1, <1>3, <2>2, <2>3, SameTyped DEF Sync!Stop, LateMove, Serving, TablesTyped
  <2>5. Live'
    BY <1>1, <1>2, <1>3 DEF Sync!Stop, Live, Serving
  <2> QED
    BY <2>4, <2>5, LateKeeps
<1>4. CASE ~Sync!Stop
  <2>1. /\ Sync!ProcessCycles(newest) /\ pc' = "oldCycles" /\ UNCHANGED <<final, stored>>
        /\ loc' = [Sync!NoLoop EXCEPT !.end = remote.cycle - 1]
    BY <1>4 DEF Sync!SyncCyclesAndNodeListV2, Sync!GoTo
  <2>2. "end" \in DOMAIN loc' /\ loc'.end = remote.cycle - 1
    BY <2>1 DEF Sync!NoLoop
  <2>3. newest \subseteq Sync!Chain(remote.cycle)
    BY <1>0, NewestOfChain DEF TablesTyped
  <2>4. CyclesTyped /\ counter' \in Int
    BY <1>0, <2>1, <2>3, ProcessedCycles DEF CyclesTyped
  <2>5. TablesTyped'
    BY <1>0, <1>1, <2>1, <2>2, <2>4 DEF TablesTyped, CyclesTyped
  <2> DEFINE new == {c \in newest : c.counter > counter}
  <2>6. new = newest
    BY <1>0, <1>2 DEF TablesTyped
  <2>7. Sync!StoreCycles(newest) /\ counter' = Sync!LatestOf(newest)
    BY <2>1, <2>6 DEF Sync!ProcessCycles
  <2>8. own'.cycles = own.cycles \cup newest
    BY <1>0, <2>7 DEF Sync!StoreCycles, TablesTyped
  <2>9. counter' = remote.cycle
    <3>1. newest \in SUBSET CycleRecords /\ newest # {}
      BY <1>0 DEF TablesTyped, CycleRecords
    <3>2. IsFiniteSet(newest)
      BY FS_Singleton
    <3>3. \E c \in newest : c.counter = Sync!LatestOf(newest)
      BY <3>1, <3>2, LatestIs
    <3> QED
      BY <2>7, <3>3
  <2>10. FromStored'
    BY <1>2, <2>1, <2>8 DEF FromStored
  <2>11. ToNewest'
    BY <1>0, <2>8, <2>9 DEF ToNewest, Genuine, TablesTyped
  <2>12. HasCycles(loc.end + 1, counter)'
    <3>1. \A c \in (loc'.end + 1)..counter' : c = remote.cycle
      BY <1>0, <2>2, <2>9 DEF TablesTyped
    <3>2. Genuine(remote.cycle) \in own'.cycles
      BY <2>8 DEF Genuine
    <3> QED
      BY <3>1, <3>2 DEF HasCycles
  <2>13. Downward'
    BY <1>0, <1>1, <1>2, <2>9, <2>10, <2>11, <2>12 DEF Downward, TablesTyped
  <2>14. NotBegun' /\ StoredKept' /\ Complete' /\ Live'
    BY <1>1, <1>2, <2>1
    DEF NotBegun, StoredKept, Complete, Live, Comparing, Matched, Filling, Serving
  <2> QED
    BY <2>5, <2>13, <2>14 DEF CyclesInv
<1> QED
  BY <1>3, <1>4

\* Cycles are stored from the newest downwards, to those that matched (downloadOldCycles).
LEMMA OldCyclesKeeps == CyclesInv /\ Sync!DownloadOldCycles => CyclesInv'
<1> SUFFICES ASSUME CyclesInv, Sync!DownloadOldCycles PROVE CyclesInv'
  OBVIOUS
<1> DEFINE start == Sync!Bigger(Sync!Bigger(loc.end - MaxPerRequest, 0), stored.cycle)
           reply == Sync!CyclesReply(start, loc.end)
<1>0. TablesTyped
  BY DEF CyclesInv
<1>1. UNCHANGED <<remote, counter, active>> /\ pc = "oldCycles"
  BY DEF Sync!DownloadOldCycles
<1>2. /\ ~active /\ FromStored /\ ToNewest /\ HasCycles(loc.end + 1, counter) /\ ~final
      /\ counter <= remote.cycle
  BY <1>1 DEF CyclesInv, Downward, Live, Filling, Serving
<1>3. loc.end \in Int /\ stored.cycle \in Nat /\ remote.cycle \in Nat
  BY <1>0, <1>1 DEF TablesTyped
<1>4. CASE loc.end <= stored.cycle
  <2>1. Sync!Begin("receipt", 0, 0) /\ UNCHANGED <<own, final, stored>>
    BY <1>3, <1>4 DEF Sync!DownloadOldCycles
  <2>2. pc' \in {"byCycle", "total", "byCycleTotal"}
    BY <2>1 DEF Sync!Begin
  <2>3. SameCycles
    BY <1>0, <2>1 DEF SameCycles, TablesTyped
  <2>4. TablesTyped'
    BY <1>0, <1>1, <2>1, <2>2, <2>3, SameTyped DEF TablesTyped, CyclesTyped
  <2>5. HasCycles(stored.cycle + 1, counter)
    BY <1>2, <1>3, <1>4 DEF HasCycles, ToNewest
  <2>6. Complete'
    BY <1>1, <1>2, <2>1, <2>5 DEF Complete, ToNewest, HasCycles, FromStored
  <2>7. NotBegun' /\ StoredKept' /\ Downward' /\ Live'
    BY <1>1, <1>2, <2>1, <2>2 DEF NotBegun, StoredKept, Downward, Live, Comparing, Matched
  <2> QED
    BY <2>4, <2>6, <2>7 DEF CyclesInv
<1>5. loc.end > stored.cycle =>
        \/ Sync!Stop /\ UNCHANGED own
        \/ loc' = [loc EXCEPT !.retries = @ + 1] /\ UNCHANGED <<own, pc, final, stored>>
        \/ /\ Sync!StoreCycles(reply.rows)
           /\ loc' = [loc EXCEPT !.end = start - 1] /\ UNCHANGED <<pc, final, stored>>
  BY DEF Sync!DownloadOldCycles
<1>6. CASE Sync!Stop /\ UNCHANGED own
  <2>1. SameCycles
    BY <1>0, <1>6 DEF SameCycles, TablesTyped
  <2>2. LateMove
    BY <1>0, <1>1, <1>6, <2>1, SameTyped DEF Sync!Stop, LateMove, Serving, TablesTyped
  <2>3. Live'
    BY <1>1, <1>2, <1>6 DEF Sync!Stop, Live, Serving
  <2> QED
    BY <2>2, <2>3, LateKeeps
<1>7. CASE loc' = [loc EXCEPT !.retries = @ + 1] /\ UNCHANGED <<own, pc, final, stored>>
  <2>1. "end" \in DOMAIN loc' /\ loc'.end = loc.end
    BY <1>0, <1>1, <1>7 DEF TablesTyped
  <2>2. TablesTyped'
    BY <1>0, <1>1, <1>7, <2>1 DEF TablesTyped
  <2>3. FromStored' /\ ToNewest' /\ HasCycles(loc.end + 1, counter)'
    BY <1>1, <1>2, <1>7, <2>1 DEF FromStored, ToNewest, HasCycles
  <2>4. Downward'
    BY <1>1, <1>2, <2>3 DEF Downward
  <2>5. NotBegun' /\ StoredKept' /\ Complete' /\ Live'
    BY <1>1, <1>2, <1>7 DEF NotBegun, StoredKept, Complete, Live, Comparing, Matched, Filling
  <2> QED
    BY <2>2, <2>4, <2>5 DEF CyclesInv
<1>8. CASE /\ loc.end > stored.cycle
           /\ Sync!StoreCycles(reply.rows)
           /\ loc' = [loc EXCEPT !.end = start - 1] /\ UNCHANGED <<pc, final, stored>>
  <2>1. MaxPerRequest \in Nat \ {0}
    BY DownloadAssumption DEF Sync!RequestLimits
  <2>2. start \in Nat /\ loc.end \in Nat \ {0} /\ start <= loc.end /\ loc.end - start <= MaxPerRequest
    BY <1>3, <1>8, <2>1 DEF Sync!Bigger
  <2> HIDE DEF start
  <2>3. reply.rows = {c \in Sync!Chain(remote.cycle) : start <= c.counter /\ c.counter <= loc.end}
    BY <1>3, <2>2, ReplyRows
  <2> HIDE DEF reply
  <2>4. Stores(reply.rows)
    <3>1. reply.rows \subseteq Sync!Chain(remote.cycle)
      BY <2>3
    <3> QED
      BY <1>0, <1>8, <3>1, StoredCycles
  <2>5. "end" \in DOMAIN loc' /\ loc'.end = start - 1
    BY <1>0, <1>1, <1>8 DEF TablesTyped
  <2>6. TablesTyped'
    BY <1>0, <1>1, <1>8, <2>2, <2>4, <2>5 DEF TablesTyped, Stores
  <2>7. own'.cycles = own.cycles \cup reply.rows /\ \A c \in reply.rows : ~c.forked
    BY <2>3, <2>4 DEF Stores, Sync!Chain
  <2>8. FromStored' /\ ToNewest'
    BY <1>1, <1>2, <1>8, <2>7 DEF FromStored, ToNewest
  <2>9. \A c \in start..counter : Genuine(c) \in own'.cycles
    <3> SUFFICES ASSUME NEW c \in start..counter PROVE Genuine(c) \in own'.cycles
      OBVIOUS
    <3>1. CASE c \in (loc.end + 1)..counter
      BY <1>2, <2>7, <3>1 DEF HasCycles
    <3>2. CASE c \notin (loc.end + 1)..counter
      <4>1. c \in 0..remote.cycle /\ start <= c /\ c <= loc.end
        BY <1>2, <1>3, <2>2, <3>2 DEF ToNewest
      <4>2. Genuine(c) \in Sync!Chain(remote.cycle)
        BY <4>1 DEF Genuine, Sync!Chain
      <4> QED
        BY <2>3, <2>7, <4>1, <4>2 DEF Genuine
    <3> QED
      BY <3>1, <3>2
  <2>10. Downward'
    <3>1. loc'.end + 1 = start
      BY <2>2, <2>5
    <3>2. HasCycles(loc.end + 1, counter)'
      BY <1>1, <2>9, <3>1 DEF HasCycles
    <3> QED
      BY <1>1, <1>2, <2>8, <3>2 DEF Downward
  <2>11. NotBegun' /\ StoredKept' /\ Complete' /\ Live'
    BY <1>1, <1>2, <1>8 DEF NotBegun, StoredKept, Complete, Live, Comparing, Matched, Filling
  <2> QED
    BY <2>6, <2>10, <2>11 DEF CyclesInv
<1> HIDE DEF start, reply
<1>9. loc.end <= stored.cycle \/ loc.end > stored.cycle
  BY <1>3
<1> QED
  BY <1>4, <1>5, <1>6, <1>7, <1>8, <1>9

\* After the check: syncCyclesAndTxsData, and what the archiver serves with.
LEMMA LaterKeeps ==
  ASSUME CyclesInv, Sync!CountAgain \/ Sync!SyncCyclesAndTxsData \/ Sync!Serve \/ Sync!Newest
  PROVE  CyclesInv'
<1>0. TablesTyped
  BY DEF CyclesInv
<1>1. UNCHANGED own => CyclesTyped
  BY <1>0 DEF TablesTyped, CyclesTyped
<1>2. Live /\ (pc = "check" => ~active)
  BY DEF CyclesInv, Live, Filling, Serving
<1>3. CASE Sync!CountAgain
  <2>1. UNCHANGED <<own, remote, counter, active, final>> /\ pc = "check"
    BY <1>3 DEF Sync!CountAgain, Sync!tables, Sync!history, Sync!Stop
  <2>2. pc' \in {"stopped", "restTotal"}
    BY <1>3 DEF Sync!CountAgain, Sync!Stop, Sync!GoTo
  <2>3. "cycle" \in DOMAIN stored' /\ stored'.cycle \in Nat
    <3>1. \/ UNCHANGED stored
          \/ stored' = [stored EXCEPT !.cycle = Sync!Cardinality(own.cycles),
                                      !.receipt = Sync!Cardinality(own.receipt),
                                      !.originalTx = Sync!Cardinality(own.originalTx)]
      BY <1>3 DEF Sync!CountAgain, Sync!Stop
    <3>2. Sync!Cardinality(own.cycles) \in Nat
      BY <1>0, SameCardinality, FS_CardinalityType DEF TablesTyped
    <3> QED
      BY <1>0, <3>1, <3>2 DEF TablesTyped
  <2>4. LateMove
    BY <1>0, <1>1, <2>1, <2>2, <2>3 DEF LateMove, TablesTyped, Resting, Serving
  <2>5. Live'
    BY <1>2, <2>1, <2>2 DEF Live, Filling, Serving
  <2> QED
    BY <2>4, <2>5, LateKeeps
<1>4. CASE Sync!SyncCyclesAndTxsData
  <2>1. UNCHANGED <<remote, active, final, stored>> /\ pc \in {"restTotal", "restAsk", "rest"}
    BY <1>4 DEF Sync!SyncCyclesAndTxsData, Sync!RestTotal, Sync!RestAsk, Sync!RestPage, Sync!tables
  <2>2. ASSUME NEW r, Sync!RestTop(r) PROVE pc' \in {"serve", "restAsk", "rest"}
    BY <2>2 DEF Sync!RestTop
  <2>3. ASSUME NEW k, NEW r, Sync!RestGoOn(k, r) PROVE pc' \in {"serve", "restAsk", "rest"}
    BY <2>2, <2>3 DEF Sync!RestGoOn
  <2>4. pc' \in Resting
    <3>1. CASE Sync!RestTotal
      BY <2>2, <3>1 DEF Sync!RestTotal, Sync!GoTo, Resting
    <3>2. CASE Sync!RestAsk
      BY <3>2 DEF Sync!RestAsk, Resting
    <3>3. ASSUME NEW k \in Sync!Synced, Sync!RestPage(k) PROVE pc' \in Resting
      <4>1. (\E r : Sync!RestTop(r)) \/ \E r : Sync!RestGoOn(k, r)
        BY <3>3 DEF Sync!RestPage
      <4> QED
        BY <2>2, <2>3, <4>1 DEF Resting
    <3> QED
      BY <1>4, <3>1, <3>2, <3>3 DEF Sync!SyncCyclesAndTxsData
  <2>5. CyclesTyped /\ counter' \in Int
    <3>1. CASE UNCHANGED <<own, counter>>
      BY <1>0, <1>1, <3>1 DEF TablesTyped
    <3>2. ASSUME NEW k \in Sync!Synced, Sync!RestPage(k), ~UNCHANGED <<own, counter>>
          PROVE  CyclesTyped /\ counter' \in Int
      <4>1. CASE k = "cycle"
        <5> DEFINE reply == Sync!CyclesReply(rest.start[k], rest.end[k])
        <5>1. reply.success /\ Sync!ProcessCycles(reply.rows)
          BY <3>2, <4>1 DEF Sync!RestPage, Sync!RestReply
        <5>2. reply.rows \subseteq Sync!Chain(remote.cycle)
          BY <1>0, <5>1, ReplyRows DEF TablesTyped
        <5> QED
          BY <1>0, <5>1, <5>2, ProcessedCycles DEF CyclesTyped
      <4>2. CASE k # "cycle"
        <5>1. k \in Sync!Tables
          BY <4>2 DEF Sync!Synced, Sync!Tables, Sync!Kinds
        <5>2. UNCHANGED counter /\ \E rows : own' = [own EXCEPT ![k] = rows]
          BY <3>2, <4>2 DEF Sync!RestPage, Sync!Download
        <5>3. SameCycles
          BY <1>0, <5>1, <5>2, OtherTable
        <5> QED
          BY <1>0, <5>2, <5>3, SameTyped DEF TablesTyped
      <4> QED
        BY <4>1, <4>2
    <3>3. UNCHANGED <<own, counter>> \/ \E k \in Sync!Synced : Sync!RestPage(k)
      BY <1>4 DEF Sync!SyncCyclesAndTxsData, Sync!RestTotal, Sync!RestAsk, Sync!tables
    <3> QED
      BY <3>1, <3>2, <3>3
  <2>6. LateMove
    BY <1>0, <2>1, <2>4, <2>5 DEF LateMove, TablesTyped
  <2>7. Live'
    BY <1>2, <2>1, <2>4 DEF Live, Filling, Serving, Resting
  <2> QED
    BY <2>6, <2>7, LateKeeps
<1>5. CASE Sync!Serve
  <2>1. UNCHANGED <<own, remote, counter, final, stored>> /\ pc = "serve" /\ pc' \in {"newest", "done"}
    BY <1>5 DEF Sync!Serve, Sync!GoTo, Sync!history
  <2>2. LateMove
    BY <1>0, <1>1, <2>1 DEF LateMove, TablesTyped, Serving
  <2>3. Live'
    BY <1>2, <2>1 DEF Live, Filling, Serving
  <2> QED
    BY <2>2, <2>3, LateKeeps
<1>6. CASE Sync!Newest
  <2>1. UNCHANGED <<own, remote, counter, active, stored>> /\ pc = "newest"
    BY <1>6 DEF Sync!Newest, Sync!tables, Sync!Stop
  <2>2. (pc' = "stopped" /\ UNCHANGED final) \/ (pc' = "betweenCycles" /\ final' = TRUE)
    BY <1>6 DEF Sync!Newest, Sync!Stop, Sync!GoTo
  <2>3. LateMove
    BY <1>0, <1>1, <2>1, <2>2 DEF LateMove, TablesTyped, Serving
  <2>4. Live'
    BY <1>2, <2>1, <2>2 DEF Live, Filling, Serving
  <2> QED
    BY <2>3, <2>4, LateKeeps
<1> QED
  BY <1>3, <1>4, <1>5, <1>6

\* syncCyclesBetweenCycles, while the archiver serves.
LEMMA BetweenKeeps ==
  ASSUME CyclesInv, Sync!SyncCyclesBetweenCycles
  PROVE  CyclesInv'
<1> DEFINE reply == Sync!CyclesReply(loc.start, IF loc.end > loc.to THEN loc.to ELSE loc.end)
<1>0. TablesTyped
  BY DEF CyclesInv
<1>1. UNCHANGED <<remote, active, final, stored>> /\ pc = "betweenCycles"
  BY DEF Sync!SyncCyclesBetweenCycles
<1>2. UNCHANGED <<own, counter>> \/ (reply.success /\ Sync!ProcessCycles(reply.rows))
  BY DEF Sync!SyncCyclesBetweenCycles
<1>3. CyclesTyped /\ counter' \in Int
  <2>1. CASE UNCHANGED <<own, counter>>
    BY <1>0, <2>1 DEF TablesTyped, CyclesTyped
  <2>2. CASE reply.success /\ Sync!ProcessCycles(reply.rows)
    <3>1. reply.rows \subseteq Sync!Chain(remote.cycle)
      BY <1>0, <2>2, ReplyRows DEF TablesTyped
    <3> QED
      BY <1>0, <2>2, <3>1, ProcessedCycles DEF CyclesTyped
  <2> QED
    BY <1>2, <2>1, <2>2
<1>4. UNCHANGED pc \/ Sync!Begin("receipt", loc.from, loc.to)
  BY DEF Sync!SyncCyclesBetweenCycles, Sync!AfterCyclesBetween
<1>5. pc' = "betweenCycles" \/ pc' \in Filling
  BY <1>1, <1>4 DEF Sync!Begin, Filling
<1>6. final
  BY <1>1 DEF CyclesInv, Live
<1>7. LateMove
  BY <1>0, <1>1, <1>3, <1>5, <1>6 DEF LateMove, TablesTyped, Serving
<1>8. Live'
  BY <1>1, <1>5, <1>6 DEF Live, Serving
<1> QED
  BY <1>7, <1>8, LateKeeps

\* What the network does meanwhile.
LEMMA NetworkStepKeeps ==
  ASSUME CyclesInv, Sync!Network
  PROVE  CyclesInv'
<1>0. TablesTyped
  BY DEF CyclesInv
<1>1. CASE Sync!NetworkCycle
  <2>1. UNCHANGED <<own, counter, active, pc, final, stored, loc>>
    BY <1>1 DEF Sync!NetworkCycle, Sync!control, Sync!history
  <2>2. remote' = [remote EXCEPT !.cycle = @ + 1]
    BY <1>1 DEF Sync!NetworkCycle
  <2>3. NetworkMove
    BY <1>0, <2>1, <2>2 DEF NetworkMove, SameCycles, TablesTyped
  <2> QED
    BY <2>3, NetworkKeeps
<1>2. ASSUME NEW k \in Sync!Kinds, Sync!RowArrives(k) PROVE CyclesInv'
  <2>1. UNCHANGED <<counter, active, pc, final, stored, loc>>
    BY <1>2 DEF Sync!RowArrives, Sync!control
  <2>2. /\ \E rows : remote' = [remote EXCEPT ![k] = rows]
        /\ (UNCHANGED own) \/ \E rows : own' = [own EXCEPT ![k] = rows]
    BY <1>2 DEF Sync!RowArrives
  <2>3. k # "cycle" /\ k \in Sync!Tables
    BY DEF Sync!Kinds, Sync!Tables
  <2>4. SameCycles
    BY <1>0, <2>2, <2>3, OtherTable DEF SameCycles, TablesTyped
  <2>5. NetworkMove
    BY <1>0, <2>1, <2>2, <2>3, <2>4 DEF NetworkMove, TablesTyped
  <2> QED
    BY <2>5, NetworkKeeps
<1>3. CASE Sync!AccountMoves
  <2>1. UNCHANGED <<own, counter, active, pc, final, stored, loc>>
    BY <1>3 DEF Sync!AccountMoves, Sync!control
  <2>2. \E rows : remote' = [remote EXCEPT !.account = rows]
    BY <1>3 DEF Sync!AccountMoves
  <2>3. NetworkMove
    BY <1>0, <2>1, <2>2 DEF NetworkMove, SameCycles, TablesTyped
  <2> QED
    BY <2>3, NetworkKeeps
<1>4. CASE Sync!LiveCycle
  <2> DEFINE newest == {[counter |-> remote.cycle, forked |-> FALSE]}
  <2>1. UNCHANGED <<remote, active, pc, final, stored, loc>> /\ active
    BY <1>4 DEF Sync!LiveCycle, Sync!control, Sync!history
  <2>2. Sync!ProcessCycles(newest)
    BY <1>4 DEF Sync!LiveCycle
  <2>3. newest \subseteq Sync!Chain(remote.cycle)
    BY <1>0, NewestOfChain DEF TablesTyped
  <2>4. CyclesTyped /\ counter' \in Int
    BY <1>0, <2>2, <2>3, ProcessedCycles DEF CyclesTyped
  <2>5. TablesTyped'
    BY <1>0, <2>1, <2>4 DEF TablesTyped, CyclesTyped
  <2>6. pc # "start" /\ pc \notin Comparing /\ pc # "oldCycles" /\ Live /\ (final \/ pc \notin Filling \cup {"check"})
    BY <2>1 DEF CyclesInv, NotBegun, Downward, Complete, Live
  <2>7. pc \notin Matched
    BY <2>6 DEF Matched, Comparing
  <2>8. NotBegun' /\ StoredKept' /\ Downward' /\ Complete' /\ Live'
    BY <2>1, <2>6, <2>7 DEF NotBegun, StoredKept, Downward, Complete, Live
  <2> QED
    BY <2>5, <2>8 DEF CyclesInv
<1> QED
  BY <1>1, <1>2, <1>3, <1>4 DEF Sync!Network

\* The archiver is started again with the tables it has.
LEMMA RestartKeeps ==
  ASSUME CyclesInv, Sync!Restart
  PROVE  CyclesInv'
<1>1. /\ UNCHANGED <<own, remote>>
      /\ counter' = -1 /\ active' = FALSE /\ pc' = "start" /\ final' = FALSE
  BY DEF Sync!Restart
<1>2. "cycle" \in DOMAIN stored' /\ stored'.cycle = 0
  BY DEF Sync!Restart, Sync!NothingStored
<1>3. TablesTyped'
  BY <1>1, <1>2 DEF CyclesInv, TablesTyped
<1>4. NotBegun' /\ StoredKept' /\ Downward' /\ Complete' /\ Live'
  BY <1>1 DEF NotBegun, StoredKept, Downward, Complete, Live, Matched, Filling
<1> QED
  BY <1>3, <1>4 DEF CyclesInv

\* Cycles are numbered from 0 to MaxCycle, so finitely many records may be stored.
LEMMA FinitelyManyRecords ==
  ASSUME NEW n \in Nat
  PROVE  IsFiniteSet([counter : 0..n, forked : BOOLEAN])
<1> DEFINE R == [counter : 0..n, forked : BOOLEAN]
           P == (0..n) \X BOOLEAN
           f == [p \in P |-> [counter |-> p[1], forked |-> p[2]]]
<1>1. f \in [P -> R]
  OBVIOUS
<1>2. \A r \in R : \E p \in P : f[p] = r
  <2> SUFFICES ASSUME NEW r \in R PROVE \E p \in P : f[p] = r
    OBVIOUS
  <2>1. <<r.counter, r.forked>> \in P
    OBVIOUS
  <2>2. f[<<r.counter, r.forked>>] = r
    OBVIOUS
  <2> QED
    BY <2>1, <2>2
<1>3. IsFiniteSet(P)
  <2>1. IsFiniteSet(0..n)
    BY FS_Interval
  <2>2. IsFiniteSet({TRUE} \cup {FALSE})
    BY FS_Singleton, FS_Union
  <2>3. BOOLEAN = {TRUE} \cup {FALSE}
    OBVIOUS
  <2> QED
    BY <2>1, <2>2, <2>3, FS_Product
<1> HIDE DEF f, P, R
<1>4. f \in Surjection(P, R)
  BY <1>1, <1>2 DEF Surjection
<1>5. IsFiniteSet(R)
  BY <1>3, <1>4, FS_Surjection
<1> QED
  BY <1>5 DEF R

\* What was stored before are records, however many of them are missing or were replaced.
LEMMA CyclesInit == Sync!Init => CyclesInv
<1> SUFFICES ASSUME Sync!Init PROVE CyclesInv
  OBVIOUS
<1>1. /\ own \in InitialOwn /\ counter = -1 /\ active = FALSE /\ pc = "start" /\ final = FALSE
  BY DEF Sync!Init
<1>2. "cycle" \in DOMAIN remote /\ remote.cycle = InitialRemote.cycle
  BY DEF Sync!Init
<1>3. "cycle" \in DOMAIN stored /\ stored.cycle = 0
  BY DEF Sync!Init, Sync!NothingStored
<1>4. MaxCycle \in Nat /\ remote.cycle \in Nat
  BY <1>2, DownloadAssumption DEF Sync!SyncAssumption
<1>5. "cycles" \in DOMAIN own /\ own.cycles \subseteq [counter : 0..MaxCycle, forked : BOOLEAN]
  BY <1>1, DownloadAssumption DEF Sync!StoredAssumption
<1>6. IsFiniteSet(own.cycles) /\ own.cycles \subseteq CycleRecords
  <2>1. [counter : 0..MaxCycle, forked : BOOLEAN] \subseteq CycleRecords
    BY <1>4 DEF CycleRecords
  <2> QED
    BY <1>4, <1>5, <2>1, FinitelyManyRecords, FS_Subset
<1>7. TablesTyped
  BY <1>1, <1>2, <1>3, <1>4, <1>5, <1>6 DEF TablesTyped
<1>8. NotBegun /\ StoredKept /\ Downward /\ Complete /\ Live
  BY <1>1 DEF NotBegun, StoredKept, Downward, Complete, Live, Comparing, Matched, Filling
<1> QED
  BY <1>7, <1>8 DEF CyclesInv

\* The invariant is inductive.
LEMMA CyclesNext == CyclesInv /\ [Sync!Next]_(Sync!vars) => CyclesInv'
<1> SUFFICES ASSUME CyclesInv, [Sync!Next]_(Sync!vars) PROVE CyclesInv'
  OBVIOUS
<1>0. TablesTyped
  BY DEF CyclesInv
<1>1. CASE Sync!Archiver
  <2>1. Sync!CountData => CyclesInv'
    BY CountDataKeeps
  <2>2. Sync!CompareWithOldCyclesData => CyclesInv'
    BY CompareKeeps
  <2>3. Sync!JoinNetwork \/ Sync!CompareOldData
        \/ Sync!SyncGenesisAccountsFromArchiver \/ Sync!SyncGenesisTransactionsFromArchiver => CyclesInv'
    BY <1>0, EarlyMoves, MatchedKeeps
  <2>4. Sync!SyncCyclesAndNodeListV2 => CyclesInv'
    BY SyncListsKeeps
  <2>5. Sync!DownloadOldCycles => CyclesInv'
    BY OldCyclesKeeps
  <2>6. Sync!SyncReceipts \/ Sync!SyncOriginalTxs => CyclesInv'
    BY <1>0, SyncAllMoves, FillingKeeps DEF Sync!SyncReceipts, Sync!SyncOriginalTxs, Sync!Kinds
  <2>7. Sync!SyncReceiptsByCycle \/ Sync!SyncOriginalTxsByCycle => CyclesInv'
    BY <1>0, SyncByCycleMoves, FillingKeeps
    DEF Sync!SyncReceiptsByCycle, Sync!SyncOriginalTxsByCycle, Sync!Kinds
  <2>8. Sync!CountAgain \/ Sync!SyncCyclesAndTxsData \/ Sync!Serve \/ Sync!Newest => CyclesInv'
    BY LaterKeeps
  <2>9. Sync!SyncCyclesBetweenCycles => CyclesInv'
    BY BetweenKeeps
  <2> QED
    BY <1>1, <2>1, <2>2, <2>3, <2>4, <2>5, <2>6, <2>7, <2>8, <2>9 DEF Sync!Archiver
<1>2. CASE Sync!Network
  BY <1>2, NetworkStepKeeps
<1>3. CASE Sync!Restart
  BY <1>3, RestartKeeps
<1>4. CASE UNCHANGED Sync!vars
  <2>1. NetworkMove
    BY <1>0, <1>4
    DEF Sync!vars, Sync!tables, Sync!control, Sync!history, NetworkMove, SameCycles, TablesTyped
  <2> QED
    BY <2>1, NetworkKeeps
<1> QED
  BY <1>1, <1>2, <1>3, <1>4 DEF Sync!Next

\* A count that agrees, when no record was replaced.
LEMMA CountAgrees ==
  ASSUME CyclesInv, Sync!CountAgain, pc' = "restTotal", Sync!Replaced = {}
  PROVE  own.cycles = Sync!Chain(Sync!LatestOf(own.cycles))
<1> DEFINE latest == Sync!LatestOf(own.cycles)
<1>0. TablesTyped
  BY DEF CyclesInv
<1>1. Cardinality(own.cycles) - 1 = latest
  BY SameCardinality DEF Sync!CountAgain, Sync!Stop
<1>2. CASE own.cycles = {}
  <2>1. latest = -1
    BY <1>1, <1>2, FS_EmptySet
  <2>2. \A c : c \notin 0..(-1)
    OBVIOUS
  <2> HIDE DEF latest
  <2>3. Sync!Chain(latest) = {}
    <3>1. Sync!Chain(-1) = {}
      BY <2>2 DEF Sync!Chain
    <3> QED
      BY <2>1, <3>1
  <2> QED
    BY <1>2, <2>3 DEF latest
<1>3. CASE own.cycles # {}
  <2>1. own.cycles \in SUBSET CycleRecords /\ IsFiniteSet(own.cycles)
    BY <1>0 DEF TablesTyped
  <2>2. latest \in Nat /\ \A c \in own.cycles : c.counter <= latest
    BY <1>3, <2>1, LatestIs
  <2>3. Cardinality(own.cycles) = latest + 1
    <3>1. Cardinality(own.cycles) \in Nat
      BY <2>1, FS_CardinalityType
    <3> QED
      BY <1>1, <2>2, <3>1
  <2> HIDE DEF latest
  <2>4. own.cycles \subseteq Sync!Chain(latest)
    <3> SUFFICES ASSUME NEW c \in own.cycles PROVE c \in Sync!Chain(latest)
      OBVIOUS
    <3>1. ~c.forked
      BY DEF Sync!Replaced
    <3>2. c = [counter |-> c.counter, forked |-> FALSE] /\ c.counter \in 0..latest
      BY <2>1, <2>2, <3>1 DEF CycleRecords
    <3> QED
      BY <3>2 DEF Sync!Chain
  <2>5. own.cycles = Sync!Chain(latest)
    BY <2>1, <2>2, <2>3, <2>4, CountedChain
  <2> QED
    BY <2>5 DEF latest
<1> QED
  BY <1>2, <1>3

\* The records from the one that matched to the newest, then.
LEMMA CountedFromMatch ==
  ASSUME CyclesInv, Sync!CountAgain, pc' = "restTotal", NEW c \in stored.cycle..counter
  PROVE  Genuine(c) \in own.cycles
<1>0. TablesTyped
  BY DEF CyclesInv
<1>1. FromStored /\ ToNewest /\ HasCycles(stored.cycle + 1, counter)
  BY DEF Sync!CountAgain, CyclesInv, Complete, Live, Filling, Serving
<1>2. stored.cycle \in Nat /\ counter \in Nat
  BY <1>0, <1>1 DEF TablesTyped, ToNewest
<1>3. CASE c # stored.cycle
  <2>1. c \in (stored.cycle + 1)..counter
    BY <1>2, <1>3
  <2> QED
    BY <1>1, <2>1 DEF HasCycles
<1>4. CASE c = stored.cycle /\ Genuine(stored.cycle) \in own.cycles
  BY <1>4
<1>5. CASE c = 0 /\ \A d \in own.cycles : ~d.forked
  <2> DEFINE latest == Sync!LatestOf(own.cycles)
  <2>1. Sync!Replaced = {}
    BY <1>5 DEF Sync!Replaced
  <2>2. own.cycles = Sync!Chain(latest)
    BY <2>1, CountAgrees
  <2>3. latest \in Nat
    BY <1>0, <1>1, LatestIs DEF ToNewest, TablesTyped
  <2> HIDE DEF latest
  <2>4. 0 \in 0..latest
    BY <2>3
  <2>5. Genuine(0) \in Sync!Chain(latest)
    BY <2>4 DEF Sync!Chain, Genuine
  <2> QED
    BY <1>5, <2>2, <2>5
<1> QED
  BY <1>1, <1>3, <1>4, <1>5 DEF FromStored

\* Only the check leads from the end of the downloads to syncCyclesAndTxsData.
LEMMA CheckedStep ==
  ASSUME CyclesInv, [Sync!Next]_(Sync!vars), pc = "check", pc' = "restTotal"
  PROVE  Sync!CountAgain
<1>1. ~Sync!Network /\ ~Sync!Restart /\ ~UNCHANGED Sync!vars
  BY DEF Sync!Network, Sync!NetworkCycle, Sync!RowArrives, Sync!AccountMoves, Sync!LiveCycle,
         Sync!Restart, Sync!vars, Sync!control
<1>2. ~Sync!CountData /\ ~Sync!CompareWithOldCyclesData /\ ~Sync!JoinNetwork /\ ~Sync!CompareOldData
  BY DEF Sync!CountData, Sync!CompareWithOldCyclesData, Sync!JoinNetwork, Sync!CompareOldData
<1>3. ~Sync!SyncGenesisAccountsFromArchiver /\ ~Sync!SyncGenesisTransactionsFromArchiver
  BY DEF Sync!SyncGenesisAccountsFromArchiver, Sync!SyncGenesisTransactionsFromArchiver,
         Sync!GenesisTotal, Sync!GenesisPage
<1>4. ~Sync!SyncCyclesAndNodeListV2 /\ ~Sync!DownloadOldCycles
  BY DEF Sync!SyncCyclesAndNodeListV2, Sync!DownloadOldCycles
<1>5. ~Sync!SyncReceipts /\ ~Sync!SyncOriginalTxs
  BY DEF Sync!SyncReceipts, Sync!SyncOriginalTxs, Sync!SyncAll, Sync!FirstTotal, Sync!AskTotal,
         Sync!DownloadPage, Sync!AskAgain
<1>6. ~Sync!SyncReceiptsByCycle /\ ~Sync!SyncOriginalTxsByCycle
  BY DEF Sync!SyncReceiptsByCycle, Sync!SyncOriginalTxsByCycle, Sync!SyncByCycle,
         Sync!ByCycleTotal, Sync!ByCycle, Sync!ByCycleAsk, Sync!CountOfRange, Sync!DownloadPageOfRange, Sync!Recount
<1>7. ~Sync!SyncCyclesAndTxsData /\ ~Sync!Serve /\ ~Sync!Newest /\ ~Sync!SyncCyclesBetweenCycles
  BY DEF Sync!SyncCyclesAndTxsData, Sync!RestTotal, Sync!RestAsk, Sync!RestPage, Sync!Serve,
         Sync!Newest, Sync!SyncCyclesBetweenCycles
<1> QED
  BY <1>1, <1>2, <1>3, <1>4, <1>5, <1>6, <1>7 DEF Sync!Next, Sync!Archiver

-----------------------------------------------------------------------------
(* The results *)

\* Every variable keeps its type, whatever cycles arrive in whatever order from whom.
THEOREM TypeCorrect == Spec => []TypeOK
<1>1. IndInv => TypeOK
  BY DEF IndInv
<1> QED
  BY Invariance, <1>1, PTL

\* processCycles applies and stores at most one record per cycle number, although its
\* calls overlap and competing records may both be confirmed.
THEOREM OneRecordPerCounterHolds == Spec => []OneRecordPerCounter
<1>1. IndInv => OneRecordPerCounter
  BY DEF IndInv
<1> QED
  BY Invariance, <1>1, PTL

\* addCyclesToCache lets one caller at a time fill the cache from the database.
THEOREM OneCacheLoaderHolds == Spec => []OneCacheLoader
<1>1. IndInv => OneCacheLoader
  BY DEF IndInv
<1> QED
  BY Invariance, <1>1, PTL

\* Collecting and processing cycles implements CycleArchive: cycles are accepted in
\* ascending order and only accepted cycles reach the cycles table.
THEOREM ImplementsArchive == Spec => ArchiveSpec
<1>1. Init => Archive!Init
  BY DEF Init, Archive!Init, Applied
<1>2. IndInv /\ [Next]_vars => [Archive!Next]_(Archive!archiveVars)
  BY StepInv
<1> QED
  BY Invariance, <1>1, <1>2, PTL DEF Spec, ArchiveSpec, Archive!Spec

\* collectCycleData never loses the flag that keeps it from handing over a counter a
\* second time, except when it forgets the counter.
THEOREM SavedFlagKept == Spec => SavedFlagSurvives
<1>1. IndInv /\ [Next]_vars =>
        [\A c \in Counters : AnySaved(receivedCycleTracker[c]) =>
           AnySaved(receivedCycleTracker'[c]) \/ receivedCycleTracker'[c] = <<>>]_vars
  BY StepInv
<1> QED
  BY Invariance, <1>1, PTL DEF Spec, SavedFlagSurvives

\* Where a cycle is processed before the next one arrives (Paced), a first node that asks is
\* told to restart from the last cycle, which shut the network down, or to form a network.
THEOREM RestartsFromShutdown ==
  ASSUME Paced
  PROVE  Spec => RestartFromShutdown
<1> DEFINE RightCycle ==
      (\E n \in Nodes : PostNodeList(n)) =>
        LET q == cycleRecordWithShutDownMode
        IN IF q = NoRecord THEN currentNetworkMode # "shutdown"
           ELSE Mode[q] = "shutdown" /\ Counter[q] = currentCycleCounter
<1>1. CASE isFirst
  <2>1. RestartInv => [RightCycle]_vars
    BY RecordAssumption DEF RestartInv, NotStarted, ShutDown, PostNodeList
  <2> QED
    BY <1>1, RestartInvariance, <2>1, PTL DEF RestartFromShutdown
<1>2. CASE ~isFirst
  <2>1. [RightCycle]_vars
    BY <1>2 DEF PostNodeList
  <2> QED
    BY <2>1, PTL DEF RestartFromShutdown
<1> QED
  BY <1>1, <1>2

\* There, if every cycle lists a node, the first archiver waits for a first node between two
\* cycles exactly when it lists none: no network is started next to a running one, and the
\* slot of one that was shut down is free again.
THEOREM SlotMatchesList ==
  ASSUME isFirst, Paced, \A r \in Record : ListedAfter[r] # {}
  PROVE  Spec => []FirstNodeSlot
<1>1. Init => ListInv
  BY DEF Init, ListInv, FirstNodeSlot
<1>2. IndInv /\ RestartInv /\ ListInv /\ [Next]_vars => ListInv'
  BY RestartStep
<1>3. ListInv => FirstNodeSlot
  BY DEF ListInv
<1>4. Spec => []RestartInv
  BY RestartInvariance
<1> QED
  BY Invariance, <1>1, <1>2, <1>3, <1>4, PTL DEF Spec

\* When the count of the stored cycles agrees (server.ts), the archiver has every record from
\* the last one that matched to the newest, and the whole chain unless it has a record that was
\* replaced, whatever was stored, lost or interrupted before.
THEOREM CheckedChainHolds == SyncSpec => CheckedChain
<1>1. ASSUME CyclesInv, [Sync!Next]_(Sync!vars), pc = "check", pc' = "restTotal"
      PROVE  /\ \A c \in stored.cycle..counter : [counter |-> c, forked |-> FALSE] \in own.cycles
             /\ Sync!Replaced = {} => own.cycles = Sync!Chain(Sync!LatestOf(own.cycles))
  <2>1. Sync!CountAgain
    BY <1>1, CheckedStep
  <2>2. \A c \in stored.cycle..counter : Genuine(c) \in own.cycles
    BY <1>1, <2>1, CountedFromMatch
  <2>3. Sync!Replaced = {} => own.cycles = Sync!Chain(Sync!LatestOf(own.cycles))
    BY <1>1, <2>1, CountAgrees
  <2> QED
    BY <2>2, <2>3 DEF Genuine
<1>2. CyclesInv /\ [Sync!Next]_(Sync!vars)
        => [pc = "check" /\ pc' = "restTotal"
              => /\ \A c \in stored.cycle..counter : [counter |-> c, forked |-> FALSE] \in own.cycles
                 /\ Sync!Replaced = {} => own.cycles = Sync!Chain(Sync!LatestOf(own.cycles))]_(Sync!vars)
  BY <1>1
<1> QED
  BY <1>2, CyclesInit, CyclesNext, PTL DEF SyncSpec, Sync!Spec, CheckedChain, Sync!CheckedChain
=============================================================================

--------------------------- MODULE FollowerProofs ---------------------------
(***************************************************************************)
(* Proofs about two parts that follow what others write.  TxDigester: the  *)
(* types, that every digest is complete, and that the table implements     *)
(* DigestChain, for every number of runs that overlap and of failures.     *)
(* NetworkAccount, as the part Network of Services: that the account has   *)
(* the validators' values once it has what they had, whatever the order    *)
(* of receipts, records and changes.                                       *)
(***************************************************************************)
EXTENDS TxDigester, Services, FiniteSetTheorems, TLAPS

S == INSTANCE NodeListSorting WITH NoId <- -1

(***************************************************************************)
(* The invariant.  What a run carries across its awaits, what waits to be  *)
(* inserted and what is in the table all speak of ranges that are settled: *)
(* so old that no transaction is written into them any more.               *)
(***************************************************************************)
SettledBy(k, latest) == RangeEnd(k) <= latest - syncDelay

\* Before the archiver is active nothing is read or written.
InactiveOK ==
  ~isActive =>
    /\ txDigests = <<>> /\ inserting = {} /\ lastProcessedTxDigest = -1
    /\ \A r \in Runs : run[r].pc \in {"idle", "status"}

\* Ranges are digested one after the other, and each digest is complete.
TableOK ==
  /\ \E n \in Nat : DOMAIN txDigests = {RangeEnd(k) : k \in 1..n}
  /\ \A k \in Nat \ {0} :
       RangeEnd(k) \in DOMAIN txDigests =>
         SettledBy(k, latestCycle) /\ txDigests[RangeEnd(k)] = Digest(k)

\* A digest that waits to be inserted is complete, and its predecessor is in the table.
InsertingOK ==
  \A row \in inserting :
    \E k \in Nat \ {0} :
      /\ row.cycleEnd = RangeEnd(k) /\ row.hash = Digest(k)
      /\ SettledBy(k, latestCycle)
      /\ k > 1 => RangeEnd(k - 1) \in DOMAIN txDigests

LastOK == \E k \in Nat : lastProcessedTxDigest = RangeEnd(k)

\* A run begins a digest where a range begins, in a settled range, with its transactions.
RunOK(r) ==
  /\ run[r].pc \in {"assign", "latest", "txIds", "hash"} =>
       \E k \in Nat : run[r].currentCycle = RangeEnd(k) + 1
  /\ run[r].pc \in {"txIds", "hash"} =>
       EndCycle(r) <= run[r].latest - syncDelay /\ run[r].latest <= latestCycle
  /\ run[r].pc = "hash" => run[r].txIds = TxIdsBetween(run[r].currentCycle, EndCycle(r))

IInv ==
  /\ TypeOK
  /\ InactiveOK
  /\ TableOK
  /\ InsertingOK
  /\ LastOK
  /\ \A r \in Runs : RunOK(r)

-----------------------------------------------------------------------------
(* Arithmetic of the ranges *)

\* The ranges of cycles follow one another: each is cycleDiff cycles long.
LEMMA RangeEndType ==
  /\ RangeEnd(0) = -1
  /\ \A k \in Nat : RangeEnd(k) \in Int /\ RangeEnd(k) >= k - 1
  /\ \A k \in Nat : RangeEnd(k + 1) = RangeEnd(k) + cycleDiff
<1>1. ASSUME NEW k \in Nat
      PROVE  k * cycleDiff \in Nat /\ k * cycleDiff >= k /\ (k + 1) * cycleDiff = k * cycleDiff + cycleDiff
  BY DigestAssumption
<1>2. QED BY <1>1, DigestAssumption DEF RangeEnd

\* A later range ends later.
LEMMA RangeEndMonotone ==
  ASSUME NEW j \in Nat, NEW k \in Nat, j < k
  PROVE  RangeEnd(j) + cycleDiff <= RangeEnd(k)
<1>1. PICK d \in Nat : k = j + 1 + d
  <2>1. k - j - 1 \in Nat OBVIOUS
  <2>2. QED BY <2>1
<1>2. (j + 1 + d) * cycleDiff = j * cycleDiff + cycleDiff + d * cycleDiff
  BY DigestAssumption
<1>3. d * cycleDiff \in Nat /\ j * cycleDiff \in Nat
  BY DigestAssumption
<1>4. QED BY <1>1, <1>2, <1>3, DigestAssumption DEF RangeEnd

\* So a range is known by its end.
LEMMA RangeEndInjective ==
  ASSUME NEW j \in Nat, NEW k \in Nat, RangeEnd(j) = RangeEnd(k)
  PROVE  j = k
<1>1. ~(j < k)
  BY RangeEndMonotone, RangeEndType, DigestAssumption
<1>2. ~(k < j)
  BY RangeEndMonotone, RangeEndType, DigestAssumption
<1>3. QED BY <1>1, <1>2

-----------------------------------------------------------------------------
(* Digests *)

\* A digest appends the transactions of its range to the digest of its predecessor.
LEMMA DigestAppend ==
  ASSUME NEW k \in Nat
  PROVE  /\ Digest(0) = <<>>
         /\ Digest(k) \in Seq(SUBSET Tx)
         /\ Digest(k + 1) = Append(Digest(k), TxIdsBetween(RangeEnd(k) + 1, RangeEnd(k + 1)))
<1>1. \A i : TxIdsBetween(RangeEnd(i - 1) + 1, RangeEnd(i)) \in SUBSET Tx
  BY DEF TxIdsBetween
<1>2. Digest(0) = <<>>
  BY DEF Digest
<1>3. Digest(k) \in [1..k -> SUBSET Tx]
  BY <1>1 DEF Digest
<1>4. Digest(k) \in Seq(SUBSET Tx) /\ Len(Digest(k)) = k
  BY <1>3
<1>5. Append(Digest(k), TxIdsBetween(RangeEnd(k) + 1, RangeEnd(k + 1)))
        = [i \in 1..k + 1 |-> IF i <= k THEN Digest(k)[i]
                              ELSE TxIdsBetween(RangeEnd(k) + 1, RangeEnd(k + 1))]
  BY <1>4
<1>6. \A i \in 1..k + 1 :
        TxIdsBetween(RangeEnd(i - 1) + 1, RangeEnd(i))
          = IF i <= k THEN Digest(k)[i] ELSE TxIdsBetween(RangeEnd(k) + 1, RangeEnd(k + 1))
  <2> SUFFICES ASSUME NEW i \in 1..k + 1, i > k
               PROVE  TxIdsBetween(RangeEnd(i - 1) + 1, RangeEnd(i))
                        = TxIdsBetween(RangeEnd(k) + 1, RangeEnd(k + 1))
    BY DEF Digest
  <2>1. i = k + 1 /\ i - 1 = k OBVIOUS
  <2>2. QED BY <2>1
<1>7. QED BY <1>2, <1>4, <1>5, <1>6 DEF Digest

\* What no transaction is written into keeps its digest.
LEMMA DigestSame ==
  ASSUME UNCHANGED cycleOf
  PROVE  /\ \A first, last : TxIdsBetween(first, last)' = TxIdsBetween(first, last)
         /\ \A k \in Nat : Digest(k)' = Digest(k)
BY DEF TxIdsBetween, Digest

\* A transaction that is written keeps out of the ranges that are settled.
LEMMA SettledSame ==
  ASSUME TypeOK, isActive,
         NEW t \in Tx, NEW c \in Cycles, TxProcessed(t, c)
  PROVE  /\ \A first, last \in Int :
              first >= 0 /\ last <= latestCycle - syncDelay =>
                TxIdsBetween(first, last)' = TxIdsBetween(first, last)
         /\ \A k \in Nat : SettledBy(k, latestCycle) => Digest(k)' = Digest(k)
<1>1. ASSUME NEW first \in Int, NEW last \in Int, first >= 0, last <= latestCycle - syncDelay
      PROVE  TxIdsBetween(first, last)' = TxIdsBetween(first, last)
  <2>1. cycleOf'[t] = c /\ cycleOf[t] = -1 /\ c > last
    BY <1>1, DigestAssumption DEF TxProcessed, TypeOK, Cycles
  <2>2. \A u \in Tx : u # t => cycleOf'[u] = cycleOf[u]
    BY DEF TxProcessed, TypeOK
  <2>3. \A u \in Tx : cycleOf'[u] \in first..last <=> cycleOf[u] \in first..last
    BY <1>1, <2>1, <2>2 DEF Cycles
  <2>4. QED BY <2>3 DEF TxIdsBetween
<1>2. ASSUME NEW k \in Nat, SettledBy(k, latestCycle)
      PROVE  Digest(k)' = Digest(k)
  <2>1. ASSUME NEW i \in 1..k
        PROVE  TxIdsBetween(RangeEnd(i - 1) + 1, RangeEnd(i))'
                 = TxIdsBetween(RangeEnd(i - 1) + 1, RangeEnd(i))
    <3>1. i \in Nat /\ i - 1 \in Nat OBVIOUS
    <3>2. RangeEnd(i) <= RangeEnd(k)
      BY <3>1, RangeEndMonotone, RangeEndType, DigestAssumption
    <3>3. RangeEnd(i) <= latestCycle - syncDelay
      BY <1>2, <3>1, <3>2, RangeEndType, DigestAssumption DEF SettledBy, TypeOK
    <3>4. RangeEnd(i - 1) + 1 \in Int /\ RangeEnd(i - 1) + 1 >= 0 /\ RangeEnd(i) \in Int
      BY <3>1, RangeEndType
    <3>5. (RangeEnd(i - 1) + 1)' = RangeEnd(i - 1) + 1 /\ RangeEnd(i)' = RangeEnd(i)
      BY DEF RangeEnd
    <3>6. QED BY <1>1, <3>3, <3>4, <3>5
  <2>2. QED BY <2>1 DEF Digest
<1>3. QED BY <1>1, <1>2

-----------------------------------------------------------------------------
(* The steps *)

LEMMA InitInv == Init => IInv
<1> SUFFICES ASSUME Init PROVE IInv
  OBVIOUS
<1> USE DigestAssumption DEF Init
<1>1. TypeOK
  <2>1. Idle \in RunState
    BY DEF Idle, RunState
  <2>2. DOMAIN txDigests = {} /\ -1 \in -1 .. MaxCycle
    OBVIOUS
  <2>3. QED BY <2>1, <2>2 DEF TypeOK
<1>2. InactiveOK
  BY DEF InactiveOK, Idle
<1>3. TableOK
  <2>1. DOMAIN txDigests = {RangeEnd(k) : k \in 1..0} OBVIOUS
  <2>2. QED BY <2>1 DEF TableOK
<1>4. LastOK
  BY RangeEndType DEF LastOK
<1>5. InsertingOK /\ \A r \in Runs : RunOK(r)
  BY DEF InsertingOK, RunOK, Idle
<1>6. QED BY <1>1, <1>2, <1>3, <1>4, <1>5 DEF IInv

\* The archiver's own steps.
LEMMA ArchiverStep ==
  ASSUME IInv,
         (\E t \in Tx, c \in Cycles : TxProcessed(t, c)) \/ CycleStored \/ BecomeActive
  PROVE  IInv'
<1> USE DEF IInv
<1>1. ASSUME NEW t \in Tx, NEW c \in Cycles, TxProcessed(t, c)
      PROVE  IInv'
  <2>1. TypeOK'
    <3>1. c \in -1 .. MaxCycle
      BY DigestAssumption DEF Cycles
    <3>2. cycleOf' \in [Tx -> -1 .. MaxCycle]
      BY <1>1, <3>1 DEF TxProcessed, TypeOK
    <3>3. QED BY <1>1, <3>2 DEF TxProcessed, TypeOK, digesterVars
  <2>2. CASE ~isActive
    <3>1. UNCHANGED <<isActive, txDigests, inserting, lastProcessedTxDigest, run, latestCycle>>
      BY <1>1 DEF TxProcessed, digesterVars
    <3>2. InactiveOK' /\ LastOK' /\ InsertingOK'
      BY <2>2, <3>1 DEF InactiveOK, LastOK, InsertingOK, RangeEnd
    <3>3. TableOK'
      BY <2>2, <3>1 DEF InactiveOK, TableOK, RangeEnd
    <3>4. \A r \in Runs : RunOK(r)'
      BY <2>2, <3>1 DEF InactiveOK, RunOK
    <3>5. QED BY <2>1, <3>2, <3>3, <3>4
  <2>3. CASE isActive
    <3>1. \A k \in Nat : SettledBy(k, latestCycle) => Digest(k)' = Digest(k)
      BY <1>1, <2>3, SettledSame
    <3>2. InactiveOK' /\ LastOK'
      BY <1>1, <2>3 DEF TxProcessed, InactiveOK, LastOK, digesterVars, RangeEnd
    <3>3. TableOK'
      BY <1>1, <3>1 DEF TxProcessed, TableOK, digesterVars, RangeEnd, SettledBy
    <3>4. InsertingOK'
      BY <1>1, <3>1 DEF TxProcessed, InsertingOK, digesterVars, RangeEnd, SettledBy
    <3>5. ASSUME NEW r \in Runs PROVE RunOK(r)'
      <4>1. UNCHANGED <<run, latestCycle>>
        BY <1>1 DEF TxProcessed, digesterVars
      <4>2. EndCycle(r)' = EndCycle(r)
        BY <4>1 DEF EndCycle
      <4>3. run[r].currentCycle \in Nat /\ run[r].latest \in Int /\ EndCycle(r) \in Int
        BY DigestAssumption DEF TypeOK, RunState, EndCycle
      <4>4. ASSUME run[r].pc = "hash"
            PROVE  TxIdsBetween(run[r].currentCycle, EndCycle(r))'
                     = TxIdsBetween(run[r].currentCycle, EndCycle(r))
        <5>1. EndCycle(r) <= latestCycle - syncDelay
          BY <4>3, <4>4, DigestAssumption DEF RunOK, TypeOK
        <5>2. QED BY <1>1, <2>3, <4>1, <4>2, <4>3, <5>1, SettledSame
      <4>5. QED BY <4>1, <4>2, <4>4 DEF RunOK, RangeEnd
    <3>6. QED BY <2>1, <3>2, <3>3, <3>4, <3>5
  <2>4. QED BY <2>2, <2>3
<1>2. CASE CycleStored
  <2> USE <1>2
  <2>1. TypeOK'
    BY DigestAssumption DEF CycleStored, TypeOK, digesterVars
  <2>2. latestCycle' = latestCycle + 1 /\ latestCycle \in Int
    BY DEF CycleStored, TypeOK
  <2>3. \A k \in Nat : SettledBy(k, latestCycle) => SettledBy(k, latestCycle)'
    BY <2>2, RangeEndType, DigestAssumption DEF SettledBy, RangeEnd
  <2>4. UNCHANGED <<cycleOf, isActive, digesterVars>>
    BY DEF CycleStored
  <2>5. \A k \in Nat : Digest(k)' = Digest(k)
    BY <2>4, DigestSame
  <2>6. InactiveOK' /\ LastOK'
    BY <2>4 DEF InactiveOK, LastOK, digesterVars, RangeEnd
  <2>7. TableOK'
    BY <2>3, <2>4, <2>5 DEF TableOK, digesterVars, RangeEnd
  <2>8. InsertingOK'
    BY <2>3, <2>4, <2>5 DEF InsertingOK, digesterVars, RangeEnd
  <2>9. ASSUME NEW r \in Runs PROVE RunOK(r)'
    <3>1. run[r].latest \in Int
      BY DEF TypeOK, RunState
    <3>2. TxIdsBetween(run[r].currentCycle, EndCycle(r))'
            = TxIdsBetween(run[r].currentCycle, EndCycle(r))
      BY <2>4 DEF TxIdsBetween, EndCycle, digesterVars
    <3>3. QED BY <2>2, <2>4, <3>1, <3>2 DEF RunOK, digesterVars, RangeEnd, EndCycle
  <2>10. QED BY <2>1, <2>6, <2>7, <2>8, <2>9
<1>3. CASE BecomeActive
  <2>1. UNCHANGED <<cycleOf, latestCycle, digesterVars, failures>> /\ isActive'
    BY <1>3 DEF BecomeActive
  <2>2. TypeOK'
    BY <2>1 DEF TypeOK, digesterVars
  <2>3. \A k \in Nat : Digest(k)' = Digest(k)
    BY <2>1, DigestSame
  <2>4. InactiveOK' /\ LastOK'
    BY <2>1 DEF InactiveOK, LastOK, digesterVars, RangeEnd
  <2>5. TableOK'
    BY <2>1, <2>3 DEF TableOK, digesterVars, RangeEnd, SettledBy
  <2>6. InsertingOK'
    BY <2>1, <2>3 DEF InsertingOK, digesterVars, RangeEnd, SettledBy
  <2>7. \A r \in Runs : RunOK(r)'
    BY <2>1 DEF RunOK, digesterVars, EndCycle, RangeEnd, TxIdsBetween
  <2>8. QED BY <2>2, <2>4, <2>5, <2>6, <2>7
<1>4. QED BY <1>1, <1>2, <1>3

\* A step of a run leaves the other runs and the table alone.
LEMMA RunMoves ==
  ASSUME IInv, NEW r \in Runs, NEW state \in RunState,
         GoTo(r, state), RunOK(r)', isActive,
         UNCHANGED <<archiverVars, txDigests>>,
         inserting' \subseteq [cycleEnd : Nat, hash : Hash], InsertingOK',
         lastProcessedTxDigest' \in Nat \cup {-1}, LastOK',
         failures' \in Nat
  PROVE  IInv'
<1> USE DEF IInv
<1>1. TypeOK'
  BY DEF TypeOK, GoTo, archiverVars
<1>2. InactiveOK'
  BY DEF InactiveOK, archiverVars
<1>3. \A k \in Nat : Digest(k)' = Digest(k)
  BY DigestSame DEF archiverVars
<1>4. TableOK'
  BY <1>3 DEF TableOK, archiverVars, RangeEnd, SettledBy
<1>5. ASSUME NEW q \in Runs, q # r PROVE RunOK(q)'
  <2>1. run'[q] = run[q]
    BY <1>5 DEF GoTo, TypeOK
  <2>2. QED BY <2>1 DEF RunOK, EndCycle, RangeEnd, TxIdsBetween, archiverVars
<1>6. QED BY <1>1, <1>2, <1>4, <1>5

LEMMA InsertingSame ==
  ASSUME InsertingOK, UNCHANGED <<archiverVars, txDigests, inserting>>
  PROVE  InsertingOK'
<1>1. \A k \in Nat : Digest(k)' = Digest(k)
  BY DigestSame DEF archiverVars
<1>2. QED BY <1>1 DEF InsertingOK, archiverVars, RangeEnd, SettledBy

\* Before a run knows that the archiver is active, and when it ends, it reads nothing.
LEMMA IdleType == Idle \in RunState /\ Idle.pc = "idle"
BY DigestAssumption DEF Idle, RunState

LEMMA RunBegins ==
  ASSUME IInv, NEW r \in Runs, NEW state \in RunState,
         GoTo(r, state), state.pc \in {"idle", "status"},
         UNCHANGED <<archiverVars, txDigests, inserting, lastProcessedTxDigest>>,
         failures' \in Nat
  PROVE  IInv'
<1> USE DEF IInv
<1>1. run'[r] = state
  BY DEF GoTo, TypeOK
<1>2. RunOK(r)'
  BY <1>1 DEF RunOK
<1>3. InsertingOK' /\ LastOK'
  BY InsertingSame DEF LastOK, RangeEnd
<1>4. CASE isActive
  BY <1>2, <1>3, <1>4, RunMoves DEF TypeOK
<1>5. CASE ~isActive
  <2>1. TypeOK'
    BY DEF TypeOK, GoTo, archiverVars
  <2>2. InactiveOK'
    BY <1>5 DEF InactiveOK, TypeOK, GoTo, archiverVars
  <2>3. TableOK'
    BY <1>5 DEF InactiveOK, TableOK, archiverVars, RangeEnd, SettledBy
  <2>4. ASSUME NEW q \in Runs PROVE RunOK(q)'
    BY <1>1, <1>5 DEF InactiveOK, GoTo, TypeOK, RunOK
  <2>5. QED BY <1>3, <2>1, <2>2, <2>3, <2>4
<1>6. QED BY <1>4, <1>5

LEMMA RunEnds ==
  ASSUME IInv, NEW r \in Runs, GoTo(r, Idle),
         UNCHANGED <<archiverVars, txDigests, inserting, lastProcessedTxDigest>>,
         failures' \in Nat
  PROVE  IInv'
BY IdleType, RunBegins

\* The status, the last digest and the last cycle.
LEMMA RunChecks ==
  ASSUME IInv, NEW r \in Runs,
         \/ Start(r) \/ StatusReceived(r) \/ ReadFailed(r) \/ LatestRead(r)
         \/ LastReadWell(r) \/ LastReadFailed(r) \/ LastAssigned(r)
  PROVE  IInv'
<1> USE DEF IInv
<1>0. failures \in Nat /\ failures + 1 \in Nat /\ run[r] \in RunState
  BY DEF TypeOK
<1>1. CASE Start(r)
  <2>1. [Idle EXCEPT !.pc = "status"] \in RunState
    BY IdleType DEF RunState
  <2>2. [Idle EXCEPT !.pc = "status"].pc = "status"
    BY DEF Idle
  <2>3. QED BY <1>0, <1>1, <2>1, <2>2, RunBegins DEF Start
<1>2. CASE StatusReceived(r)
  <2>1. CASE ~isActive
    BY <1>0, <1>2, <2>1, RunEnds DEF StatusReceived
  <2>2. CASE isActive /\ lastProcessedTxDigest = -1
    <3> DEFINE state == [run[r] EXCEPT !.pc = "last"]
    <3>1. state \in RunState /\ state.pc = "last"
      BY <1>0 DEF RunState
    <3>2. GoTo(r, state)
      BY <1>2, <2>2 DEF StatusReceived
    <3>3. run'[r] = state
      BY <3>2 DEF GoTo, TypeOK
    <3>4. RunOK(r)'
      BY <3>1, <3>3 DEF RunOK
    <3>5. UNCHANGED <<archiverVars, txDigests, inserting, lastProcessedTxDigest, failures>>
      BY <1>2 DEF StatusReceived
    <3>6. InsertingOK' /\ LastOK'
      BY <3>5, InsertingSame DEF LastOK, RangeEnd
    <3>7. QED BY <1>0, <2>2, <3>1, <3>2, <3>4, <3>5, <3>6, RunMoves DEF TypeOK
  <2>3. CASE isActive /\ lastProcessedTxDigest # -1
    <3> DEFINE state == [run[r] EXCEPT !.pc = "latest", !.currentCycle = lastProcessedTxDigest + 1]
    <3>1. lastProcessedTxDigest + 1 \in Nat
      BY <2>3 DEF TypeOK
    <3>2. state \in RunState /\ state.pc = "latest"
          /\ state.currentCycle = lastProcessedTxDigest + 1
      BY <1>0, <3>1 DEF RunState
    <3>3. GoTo(r, state)
      BY <1>2, <2>3 DEF StatusReceived
    <3>4. run'[r] = state
      BY <3>3 DEF GoTo, TypeOK
    <3>5. PICK k \in Nat : lastProcessedTxDigest = RangeEnd(k)
      BY DEF LastOK
    <3>6. RunOK(r)'
      BY <3>2, <3>4, <3>5 DEF RunOK, RangeEnd
    <3>7. UNCHANGED <<archiverVars, txDigests, inserting, lastProcessedTxDigest, failures>>
      BY <1>2 DEF StatusReceived
    <3>8. InsertingOK' /\ LastOK'
      BY <3>7, InsertingSame DEF LastOK, RangeEnd
    <3>9. QED BY <1>0, <2>3, <3>2, <3>3, <3>6, <3>7, <3>8, RunMoves DEF TypeOK
  <2>4. QED BY <2>1, <2>2, <2>3
<1>3. CASE ReadFailed(r)
  BY <1>0, <1>3, RunEnds DEF ReadFailed, Fail
<1>4. CASE LatestRead(r)
  <2>1. UNCHANGED <<archiverVars, txDigests, inserting, lastProcessedTxDigest, failures>>
        /\ At(r, "latest") /\ isActive
    BY <1>4 DEF LatestRead, InactiveOK, At
  <2>2. CASE ~Due(latestCycle, run[r].currentCycle)
    BY <1>0, <1>4, <2>1, <2>2, RunEnds DEF LatestRead
  <2>3. CASE Due(latestCycle, run[r].currentCycle)
    <3> DEFINE state == [run[r] EXCEPT !.pc = "txIds", !.latest = latestCycle]
    <3>1. state \in RunState /\ state.pc = "txIds" /\ state.latest = latestCycle
          /\ state.currentCycle = run[r].currentCycle
      BY <1>0 DEF RunState, TypeOK
    <3>2. GoTo(r, state)
      BY <1>4, <2>3 DEF LatestRead
    <3>3. run'[r] = state
      BY <3>2 DEF GoTo, TypeOK
    <3>4. PICK k \in Nat : run[r].currentCycle = RangeEnd(k) + 1
      BY <2>1 DEF RunOK, At
    <3>5. run[r].currentCycle \in Nat /\ latestCycle \in Int
      BY <1>0, DigestAssumption DEF RunState, TypeOK
    <3>6. run[r].currentCycle + cycleDiff - 1 <= latestCycle - syncDelay
      BY <2>3, <3>5, DigestAssumption DEF Due
    <3>7. RunOK(r)'
      BY <2>1, <3>1, <3>3, <3>4, <3>5, <3>6 DEF RunOK, RangeEnd, EndCycle, archiverVars
    <3>8. InsertingOK' /\ LastOK'
      BY <2>1, InsertingSame DEF LastOK, RangeEnd
    <3>9. QED BY <1>0, <2>1, <3>1, <3>2, <3>7, <3>8, RunMoves DEF TypeOK
  <2>4. QED BY <2>2, <2>3
<1>5. ASSUME NEW last, LastRead(r, last), failures' \in Nat, last \in Nat \cup {-1},
             \E k \in Nat : last = RangeEnd(k)
      PROVE  IInv'
  <2> DEFINE state == [run[r] EXCEPT !.pc = "assign", !.currentCycle = last + 1]
  <2>1. UNCHANGED <<archiverVars, txDigests, inserting, lastProcessedTxDigest>> /\ isActive
        /\ GoTo(r, state)
    BY <1>5 DEF LastRead, InactiveOK, At
  <2>2. last + 1 \in Nat
    BY <1>5
  <2>3. state \in RunState /\ state.pc = "assign" /\ state.currentCycle = last + 1
    BY <1>0, <2>2 DEF RunState
  <2>4. run'[r] = state
    BY <2>1 DEF GoTo, TypeOK
  <2>5. RunOK(r)'
    BY <1>5, <2>3, <2>4 DEF RunOK, RangeEnd
  <2>6. InsertingOK' /\ LastOK'
    BY <2>1, InsertingSame DEF LastOK, RangeEnd
  <2>7. QED BY <1>5, <2>1, <2>3, <2>5, <2>6, RunMoves DEF TypeOK
<1>6. CASE LastReadFailed(r)
  <2>1. LastRead(r, -1) /\ failures' \in Nat
    BY <1>0, <1>6 DEF LastReadFailed
  <2>2. \E k \in Nat : -1 = RangeEnd(k)
    BY RangeEndType
  <2>3. QED BY <1>5, <2>1, <2>2
<1>7. CASE LastReadWell(r)
  <2> DEFINE last == LastOf(DOMAIN txDigests)
  <2>1. last \in Nat \cup {-1} /\ \E k \in Nat : last = RangeEnd(k)
    <3>1. CASE DOMAIN txDigests = {}
      BY <3>1, RangeEndType DEF LastOf
    <3>2. CASE DOMAIN txDigests # {}
      <4>1. PICK n \in Nat : DOMAIN txDigests = {RangeEnd(k) : k \in 1..n}
        BY DEF TableOK
      <4>2. n \in 1..n /\ RangeEnd(n) \in DOMAIN txDigests
        BY <3>2, <4>1
      <4>3. \A d \in DOMAIN txDigests : d <= RangeEnd(n)
        <5>1. ASSUME NEW k \in 1..n PROVE RangeEnd(k) <= RangeEnd(n)
          BY RangeEndMonotone, RangeEndType, DigestAssumption
        <5>2. QED BY <4>1, <5>1
      <4>4. last \in DOMAIN txDigests
        BY <3>2, <4>2, <4>3 DEF LastOf
      <4>5. last \in Nat
        BY <4>4 DEF TypeOK
      <4>6. PICK k \in 1..n : last = RangeEnd(k)
        BY <4>1, <4>4
      <4>7. QED BY <4>5, <4>6
    <3>3. QED BY <3>1, <3>2
  <2>2. LastRead(r, last) /\ failures' \in Nat
    BY <1>0, <1>7 DEF LastReadWell
  <2>3. QED BY <1>5, <2>1, <2>2
<1>8. CASE LastAssigned(r)
  <2> DEFINE state == [run[r] EXCEPT !.pc = "latest"]
  <2>1. UNCHANGED <<archiverVars, txDigests, inserting, failures>> /\ isActive
        /\ GoTo(r, state) /\ lastProcessedTxDigest' = run[r].currentCycle - 1
    BY <1>8 DEF LastAssigned, InactiveOK, At
  <2>2. PICK k \in Nat : run[r].currentCycle = RangeEnd(k) + 1
    BY <1>8 DEF LastAssigned, At, RunOK
  <2>3. lastProcessedTxDigest' = RangeEnd(k) /\ RangeEnd(k)' = RangeEnd(k)
    BY <2>1, <2>2, RangeEndType DEF RangeEnd
  <2>4. run[r].currentCycle \in Nat
    BY <1>0 DEF RunState
  <2>5. lastProcessedTxDigest' \in Nat \cup {-1}
    BY <2>1, <2>4
  <2>6. LastOK'
    BY <2>3 DEF LastOK
  <2>7. state \in RunState /\ state.pc = "latest" /\ state.currentCycle = run[r].currentCycle
    BY <1>0 DEF RunState
  <2>8. run'[r] = state
    BY <2>1 DEF GoTo, TypeOK
  <2>9. RunOK(r)'
    BY <2>2, <2>7, <2>8 DEF RunOK, RangeEnd
  <2>10. QED BY <1>0, <2>1, <2>5, <2>6, <2>7, <2>9, InsertingSame, RunMoves DEF TypeOK
<1>9. QED BY <1>1, <1>2, <1>3, <1>4, <1>6, <1>7, <1>8

\* The range a run is at, when it has one to digest.
LEMMA RunRange ==
  ASSUME IInv, NEW r \in Runs, run[r].pc \in {"txIds", "hash"}
  PROVE  /\ isActive
         /\ run[r] \in RunState
         /\ EndCycle(r) <= run[r].latest - syncDelay /\ run[r].latest <= latestCycle
         /\ \E k \in Nat :
              /\ run[r].currentCycle = RangeEnd(k) + 1
              /\ EndCycle(r) = RangeEnd(k + 1)
              /\ SettledBy(k + 1, latestCycle)
<1> USE DEF IInv
<1>1. isActive /\ run[r] \in RunState
  BY DEF InactiveOK, TypeOK
<1>2. EndCycle(r) <= run[r].latest - syncDelay /\ run[r].latest <= latestCycle
  BY DEF RunOK
<1>3. PICK k \in Nat : run[r].currentCycle = RangeEnd(k) + 1
  BY DEF RunOK
<1>4. EndCycle(r) = RangeEnd(k + 1)
  BY <1>3, RangeEndType, DigestAssumption DEF EndCycle
<1>5. SettledBy(k + 1, latestCycle)
  BY <1>1, <1>2, <1>4, RangeEndType, DigestAssumption DEF SettledBy, RunState, TypeOK
<1>6. QED BY <1>1, <1>2, <1>3, <1>4, <1>5

LEMMA TxIdsReadStep ==
  ASSUME IInv, NEW r \in Runs, TxIdsRead(r)
  PROVE  IInv'
<1> DEFINE ids == TxIdsBetween(run[r].currentCycle, EndCycle(r))
           state == [run[r] EXCEPT !.pc = "hash", !.txIds = ids]
<1>1. run[r].pc = "txIds"
      /\ UNCHANGED <<archiverVars, txDigests, inserting, lastProcessedTxDigest, failures>>
      /\ GoTo(r, state)
  BY DEF TxIdsRead, At
<1>2. ids \in SUBSET Tx
  BY DEF TxIdsBetween
<1>3. isActive /\ run[r] \in RunState
      /\ EndCycle(r) <= run[r].latest - syncDelay /\ run[r].latest <= latestCycle
  BY <1>1, RunRange
<1>4. state \in RunState /\ state.pc = "hash" /\ state.txIds = ids
      /\ state.currentCycle = run[r].currentCycle /\ state.latest = run[r].latest
  BY <1>2, <1>3 DEF RunState
<1>5. run'[r] = state
  BY <1>1 DEF GoTo, IInv, TypeOK
<1>6. EndCycle(r)' = EndCycle(r)
  BY <1>4, <1>5 DEF EndCycle
<1>7. ids' = ids
  BY <1>1, <1>4, <1>5, <1>6 DEF TxIdsBetween, archiverVars
<1>8. PICK k \in Nat : run[r].currentCycle = RangeEnd(k) + 1
  BY <1>1, RunRange
<1>9. RunOK(r)'
  BY <1>1, <1>3, <1>4, <1>5, <1>6, <1>7, <1>8 DEF RunOK, RangeEnd, archiverVars
<1>10. InsertingOK' /\ LastOK'
  BY <1>1, InsertingSame DEF IInv, LastOK, RangeEnd
<1>11. QED BY <1>1, <1>3, <1>4, <1>9, <1>10, RunMoves DEF IInv, TypeOK

\* A digest is computed from that of its predecessor, which is complete.
LEMMA HashReadStep ==
  ASSUME IInv, NEW r \in Runs, HashRead(r)
  PROVE  IInv'
<1> USE DEF IInv
<1>1. run[r].pc = "hash" /\ UNCHANGED <<archiverVars, txDigests, failures>>
  BY DEF HashRead, At
<1>2. isActive /\ run[r] \in RunState
      /\ EndCycle(r) <= run[r].latest - syncDelay /\ run[r].latest <= latestCycle
  BY <1>1, RunRange
<1>3. CASE ~HasPrevHash(run[r].currentCycle)
  <2>1. GoTo(r, Idle) /\ UNCHANGED <<inserting, lastProcessedTxDigest>>
    BY <1>3 DEF HashRead
  <2>2. QED BY <1>1, <2>1, RunEnds DEF TypeOK
<1>4. CASE HasPrevHash(run[r].currentCycle)
  <2> DEFINE row == [cycleEnd |-> EndCycle(r),
                     hash |-> Append(PrevHash(run[r].currentCycle), run[r].txIds)]
             next == EndCycle(r) + 1
             onward == [run[r] EXCEPT !.pc = "txIds", !.currentCycle = next, !.txIds = {}]
  <2>1. PICK k \in Nat : /\ run[r].currentCycle = RangeEnd(k) + 1
                         /\ EndCycle(r) = RangeEnd(k + 1)
                         /\ SettledBy(k + 1, latestCycle)
    BY <1>1, RunRange
  <2>2. RangeEnd(k) \in Int /\ RangeEnd(k + 1) \in Nat /\ k + 1 \in Nat \ {0} /\ k + 1 - 1 = k
    BY RangeEndType
  <2>3. inserting' = inserting \cup {row} /\ lastProcessedTxDigest' = EndCycle(r)
    BY <1>4 DEF HashRead
  <2>4. PrevHash(run[r].currentCycle) = Digest(k) /\ (k > 0 => RangeEnd(k) \in DOMAIN txDigests)
    <3>1. run[r].currentCycle - 1 = RangeEnd(k)
      BY <2>1, <2>2
    <3>2. CASE k = 0
      <4>1. RangeEnd(k) \notin DOMAIN txDigests
        BY <3>2, RangeEndType DEF TypeOK
      <4>2. Digest(k) = <<>>
        BY <3>2, DigestAppend
      <4>3. PrevHash(run[r].currentCycle) = <<>>
        BY <3>1, <4>1 DEF PrevHash
      <4>4. QED BY <3>2, <4>2, <4>3
    <3>3. CASE k # 0
      <4>1. run[r].currentCycle # 0
        BY <2>1, <2>2, <3>3, RangeEndType
      <4>2. RangeEnd(k) \in DOMAIN txDigests
        BY <1>4, <3>1, <4>1 DEF HasPrevHash
      <4>3. txDigests[RangeEnd(k)] = Digest(k)
        BY <3>3, <4>2 DEF TableOK
      <4>4. QED BY <3>1, <4>2, <4>3 DEF PrevHash
    <3>4. QED BY <3>2, <3>3
  <2>5. run[r].txIds = TxIdsBetween(RangeEnd(k) + 1, RangeEnd(k + 1))
    BY <1>1, <2>1 DEF RunOK
  <2>6. row.cycleEnd = RangeEnd(k + 1) /\ row.hash = Digest(k + 1)
        /\ row \in [cycleEnd : Nat, hash : Hash]
    <3>1. Digest(k + 1) = Append(Digest(k), run[r].txIds)
      BY <2>5, DigestAppend
    <3>2. Digest(k + 1) \in Hash
      BY <2>2, DigestAppend DEF Hash
    <3>3. QED BY <2>1, <2>2, <2>4, <3>1, <3>2
  <2>7. \A j \in Nat : Digest(j)' = Digest(j) /\ RangeEnd(j)' = RangeEnd(j)
    BY <1>1, DigestSame DEF archiverVars, RangeEnd
  <2>8. InsertingOK'
    <3> SUFFICES ASSUME NEW i \in inserting'
                 PROVE  \E j \in Nat \ {0} :
                          /\ i.cycleEnd = RangeEnd(j) /\ i.hash = Digest(j)'
                          /\ SettledBy(j, latestCycle)
                          /\ j > 1 => RangeEnd(j - 1) \in DOMAIN txDigests
      BY <1>1, <2>7 DEF InsertingOK, SettledBy, RangeEnd, archiverVars
    <3>1. CASE i \in inserting
      BY <2>7, <3>1 DEF InsertingOK
    <3>2. CASE i = row
      <4>1. i.cycleEnd = RangeEnd(k + 1) /\ i.hash = Digest(k + 1)'
        BY <2>2, <2>6, <2>7, <3>2
      <4>2. k + 1 > 1 => RangeEnd(k + 1 - 1) \in DOMAIN txDigests
        BY <2>2, <2>4
      <4>3. QED BY <2>1, <2>2, <4>1, <4>2
    <3>3. QED BY <2>3, <3>1, <3>2
  <2>9. lastProcessedTxDigest' \in Nat /\ LastOK'
    BY <2>1, <2>2, <2>3, <2>7 DEF LastOK
  <2>10. inserting' \subseteq [cycleEnd : Nat, hash : Hash] /\ failures' \in Nat
    BY <1>1, <2>3, <2>6 DEF TypeOK
  <2>11. CASE next + cycleDiff - 1 <= run[r].latest - syncDelay
    <3>1. GoTo(r, onward)
      BY <1>4, <2>11 DEF HashRead
    <3>2. next \in Nat /\ next = RangeEnd(k + 1) + 1
      BY <2>1, <2>2
    <3>3. onward \in RunState /\ onward.pc = "txIds" /\ onward.currentCycle = next
          /\ onward.latest = run[r].latest
      BY <1>2, <3>2 DEF RunState
    <3>4. run'[r] = onward
      BY <3>1 DEF GoTo, TypeOK
    <3>5. RunOK(r)'
      BY <1>1, <1>2, <2>2, <2>7, <2>11, <3>2, <3>3, <3>4 DEF RunOK, EndCycle, archiverVars
    <3>6. QED BY <1>1, <1>2, <2>8, <2>9, <2>10, <3>1, <3>3, <3>5, RunMoves
  <2>12. CASE ~(next + cycleDiff - 1 <= run[r].latest - syncDelay)
    <3>1. GoTo(r, Idle)
      BY <1>4, <2>12 DEF HashRead
    <3>2. run'[r] = Idle
      BY <3>1 DEF GoTo, TypeOK
    <3>3. RunOK(r)'
      BY <3>2, IdleType DEF RunOK
    <3>4. QED BY <1>1, <1>2, <2>8, <2>9, <2>10, <3>1, <3>3, IdleType, RunMoves
  <2>13. QED BY <2>11, <2>12
<1>5. QED BY <1>3, <1>4

\* The row that is executed follows the table, or is in it already.
LEMMA InsertStep ==
  ASSUME IInv, NEW row \in inserting, InsertExecuted(row)
  PROVE  /\ IInv'
         /\ \E k \in Nat \ {0} :
              /\ row.cycleEnd = RangeEnd(k) /\ row.hash = Digest(k)
              /\ SettledBy(k, latestCycle)
              /\ k > 1 => RangeEnd(k - 1) \in DOMAIN txDigests
<1> USE DEF IInv
<1>1. UNCHANGED <<archiverVars, lastProcessedTxDigest, run, failures>>
      /\ inserting' = inserting \ {row}
      /\ DOMAIN txDigests' = DOMAIN txDigests \cup {row.cycleEnd}
      /\ txDigests'[row.cycleEnd] = row.hash
      /\ \A e \in DOMAIN txDigests : e # row.cycleEnd => txDigests'[e] = txDigests[e]
  BY DEF InsertExecuted
<1>2. PICK k \in Nat \ {0} : /\ row.cycleEnd = RangeEnd(k) /\ row.hash = Digest(k)
                             /\ SettledBy(k, latestCycle)
                             /\ k > 1 => RangeEnd(k - 1) \in DOMAIN txDigests
  BY DEF InsertingOK
<1>3. row.cycleEnd \in Nat /\ row.hash \in Hash
  BY DEF TypeOK
<1>4. isActive
  BY DEF InactiveOK
<1>5. \A j \in Nat : Digest(j)' = Digest(j) /\ RangeEnd(j)' = RangeEnd(j)
  BY <1>1, DigestSame DEF archiverVars, RangeEnd
<1>6. TypeOK'
  <2>1. DOMAIN txDigests' \subseteq Nat /\ \A e \in DOMAIN txDigests' : txDigests'[e] \in Hash
    BY <1>1, <1>3 DEF TypeOK
  <2>2. QED BY <1>1, <2>1 DEF TypeOK, archiverVars
<1>7. TableOK'
  <2>1. PICK n \in Nat : DOMAIN txDigests = {RangeEnd(j) : j \in 1..n}
    BY DEF TableOK
  <2>2. \E m \in Nat : DOMAIN txDigests' = {RangeEnd(j) : j \in 1..m}
    <3>1. CASE k <= n
      <4>1. RangeEnd(k) \in DOMAIN txDigests
        BY <2>1, <3>1
      <4>2. DOMAIN txDigests' = DOMAIN txDigests
        BY <1>1, <1>2, <4>1
      <4>3. DOMAIN txDigests' = {RangeEnd(j) : j \in 1..n}
        BY <2>1, <4>2
      <4>4. n \in Nat OBVIOUS
      <4>5. QED BY <4>3, <4>4
    <3>2. CASE ~(k <= n)
      <4>1. k = n + 1
        <5>1. CASE k > 1
          <6>1. PICK j \in 1..n : RangeEnd(j) = RangeEnd(k - 1)
            BY <1>2, <2>1, <5>1
          <6>2. j = k - 1
            BY <6>1, <5>1, RangeEndInjective
          <6>3. QED BY <3>2, <6>2
        <5>2. CASE k = 1
          BY <3>2, <5>2
        <5>3. QED BY <5>1, <5>2
      <4>2. {RangeEnd(j) : j \in 1..n + 1} = {RangeEnd(j) : j \in 1..n} \cup {RangeEnd(n + 1)}
        <5>1. 1..n + 1 = (1..n) \cup {n + 1}
          OBVIOUS
        <5>2. QED BY <5>1
      <4>3. DOMAIN txDigests' = {RangeEnd(j) : j \in 1..n + 1}
        BY <1>1, <1>2, <2>1, <4>1, <4>2
      <4>4. n + 1 \in Nat OBVIOUS
      <4>5. QED BY <4>3, <4>4
    <3>3. QED BY <3>1, <3>2
  <2>3. ASSUME NEW j \in Nat \ {0}, RangeEnd(j) \in DOMAIN txDigests'
        PROVE  SettledBy(j, latestCycle) /\ txDigests'[RangeEnd(j)] = Digest(j)
    <3>1. CASE RangeEnd(j) = RangeEnd(k)
      BY <1>1, <1>2, <3>1, RangeEndInjective
    <3>2. CASE RangeEnd(j) # RangeEnd(k)
      BY <1>1, <1>2, <2>3, <3>2 DEF TableOK
    <3>3. QED BY <3>1, <3>2
  <2>4. QED BY <1>1, <1>5, <2>2, <2>3 DEF TableOK, SettledBy, archiverVars
<1>8. InsertingOK'
  BY <1>1, <1>5 DEF InsertingOK, SettledBy, archiverVars
<1>9. InactiveOK' /\ LastOK'
  BY <1>1, <1>4 DEF InactiveOK, LastOK, archiverVars, RangeEnd
<1>10. ASSUME NEW r \in Runs PROVE RunOK(r)'
  BY <1>1 DEF RunOK, EndCycle, RangeEnd, TxIdsBetween, archiverVars
<1>11. QED BY <1>2, <1>6, <1>7, <1>8, <1>9, <1>10

LEMMA CrashStep ==
  ASSUME IInv, Crash
  PROVE  IInv'
<1> USE DEF IInv
<1>1. UNCHANGED <<archiverVars, txDigests>> /\ inserting' = {} /\ lastProcessedTxDigest' = -1
      /\ run' = [r \in Runs |-> Idle] /\ failures' = failures + 1
  BY DEF Crash
<1>2. TypeOK'
  BY <1>1, IdleType DEF TypeOK, archiverVars
<1>3. InactiveOK'
  BY <1>1, IdleType DEF InactiveOK, archiverVars
<1>4. \A k \in Nat : Digest(k)' = Digest(k)
  BY <1>1, DigestSame DEF archiverVars
<1>5. TableOK'
  BY <1>1, <1>4 DEF TableOK, archiverVars, RangeEnd, SettledBy
<1>6. InsertingOK'
  BY <1>1 DEF InsertingOK
<1>7. LastOK'
  BY <1>1, RangeEndType DEF LastOK, RangeEnd
<1>8. \A r \in Runs : RunOK(r)'
  BY <1>1, IdleType DEF RunOK
<1>9. QED BY <1>2, <1>3, <1>5, <1>6, <1>7, <1>8

LEMMA UnchangedStep ==
  ASSUME IInv, UNCHANGED vars
  PROVE  IInv'
<1> USE DEF IInv
<1>1. UNCHANGED <<archiverVars, digesterVars, failures>>
  BY DEF vars
<1>2. TypeOK' /\ InactiveOK' /\ LastOK'
  BY <1>1 DEF TypeOK, InactiveOK, LastOK, RangeEnd, archiverVars, digesterVars
<1>3. InsertingOK'
  BY <1>1, InsertingSame DEF digesterVars
<1>4. \A k \in Nat : Digest(k)' = Digest(k)
  BY <1>1, DigestSame DEF archiverVars
<1>5. TableOK'
  BY <1>1, <1>4 DEF TableOK, RangeEnd, SettledBy, archiverVars, digesterVars
<1>6. \A r \in Runs : RunOK(r)'
  BY <1>1 DEF RunOK, EndCycle, RangeEnd, TxIdsBetween, archiverVars, digesterVars
<1>7. QED BY <1>2, <1>3, <1>5, <1>6

-----------------------------------------------------------------------------
\* Every step preserves the invariant.
LEMMA StepInv == IInv /\ [Next]_vars => IInv'
<1> SUFFICES ASSUME IInv, [Next]_vars PROVE IInv'
  OBVIOUS
<1>1. CASE (\E t \in Tx, c \in Cycles : TxProcessed(t, c)) \/ CycleStored \/ BecomeActive
  BY <1>1, ArchiverStep
<1>2. ASSUME NEW r \in Runs, RunStep(r) \/ LastReadFailed(r) \/ ReadFailed(r)
      PROVE  IInv'
  BY <1>2, RunChecks, TxIdsReadStep, HashReadStep DEF RunStep
<1>3. ASSUME NEW row \in inserting, InsertExecuted(row)
      PROVE  IInv'
  BY <1>3, InsertStep
<1>4. CASE Crash
  BY <1>4, CrashStep
<1>5. CASE UNCHANGED vars
  BY <1>5, UnchangedStep
<1>6. QED BY <1>1, <1>2, <1>3, <1>4, <1>5 DEF Next

LEMMA Invariance == Spec => []IInv
BY InitInv, StepInv, PTL DEF Spec

\* A range that is settled is one of Ranges.
LEMMA SettledInRanges ==
  ASSUME TypeOK, NEW k \in Nat \ {0}, SettledBy(k, latestCycle)
  PROVE  k \in Ranges
BY RangeEndType, DigestAssumption DEF SettledBy, TypeOK, Ranges

\* The variables keep their types: the tables, and what the runs carry across their awaits
\* (txDigester.ts, txDigestFunctions.ts).
THEOREM TypeCorrect == Spec => []TypeOK
BY Invariance, PTL DEF IInv

\* Every row of the table is the digest of all transactions of its range and of those
\* before, however runs overlap, whatever fails and wherever the process crashes
\* (processAndInsertTxDigests).
THEOREM Complete == Spec => []DigestsComplete
<1>1. ASSUME IInv PROVE DigestsComplete
  <2> SUFFICES ASSUME NEW e \in DOMAIN txDigests
               PROVE  \E k \in Ranges : e = RangeEnd(k) /\ txDigests[e] = Digest(k)
    BY DEF DigestsComplete
  <2>1. PICK k \in Nat \ {0} : e = RangeEnd(k)
    <3>1. PICK n \in Nat : DOMAIN txDigests = {RangeEnd(k) : k \in 1..n}
      BY <1>1 DEF IInv, TableOK
    <3>2. QED BY <3>1
  <2>3. SettledBy(k, latestCycle) /\ txDigests[e] = Digest(k)
    BY <1>1, <2>1 DEF IInv, TableOK
  <2>4. QED BY <1>1, <2>1, <2>3, SettledInRanges DEF IInv
<1>2. QED BY <1>1, Invariance, PTL

-----------------------------------------------------------------------------
(* The table implements DigestChain *)

\* The ranges that are published are the first ones.
LEMMA PublishedPrefix ==
  ASSUME IInv, NEW n \in Nat, DOMAIN txDigests = {RangeEnd(k) : k \in 1..n}
  PROVE  Published = 1..n
<1>1. ASSUME NEW k \in 1..n PROVE k \in Published
  <2>1. k \in Nat \ {0} /\ RangeEnd(k) \in DOMAIN txDigests
    OBVIOUS
  <2>2. k \in Ranges
    BY <2>1, SettledInRanges DEF IInv, TableOK
  <2>3. QED BY <2>1, <2>2 DEF Published
<1>2. ASSUME NEW k \in Published PROVE k \in 1..n
  <2>1. k \in Nat /\ RangeEnd(k) \in DOMAIN txDigests
    BY DigestAssumption DEF Published, Ranges
  <2>2. PICK j \in 1..n : RangeEnd(j) = RangeEnd(k)
    BY <2>1
  <2>3. QED BY <2>1, <2>2, RangeEndInjective
<1>3. QED BY <1>1, <1>2

\* The chain is the sequence of the digests of its ranges.
LEMMA ChainOfDigests ==
  ASSUME IInv, NEW n \in Nat, DOMAIN txDigests = {RangeEnd(k) : k \in 1..n}
  PROVE  TableChain = [k \in 1..n |-> Digest(k)]
<1>1. Published = 1..n
  BY PublishedPrefix
<1>2. ASSUME NEW k \in 1..n PROVE txDigests[RangeEnd(k)] = Digest(k)
  BY DEF IInv, TableOK
<1>3. QED BY <1>1, <1>2 DEF TableChain

\* The step that inserts the next range publishes its digest; to insert a range again
\* changes nothing.
LEMMA InsertPublishes ==
  ASSUME IInv, NEW row \in inserting, InsertExecuted(row)
  PROVE  [Chain!Next]_TableChain
<1>1. PICK n \in Nat : DOMAIN txDigests = {RangeEnd(k) : k \in 1..n}
  BY DEF IInv, TableOK
<1>2. PICK m \in Nat : DOMAIN txDigests' = {RangeEnd(k) : k \in 1..m}
  <2>1. TableOK'
    BY InsertStep DEF IInv
  <2>2. \A k : RangeEnd(k)' = RangeEnd(k)
    BY DEF RangeEnd
  <2>3. QED BY <2>1, <2>2 DEF TableOK
<1>3. TableChain = [k \in 1..n |-> Digest(k)]
  BY <1>1, ChainOfDigests
<1>4. TableChain' = [k \in 1..m |-> Digest(k)]
  <2>1. \A k \in Nat : Digest(k)' = Digest(k)
    BY DigestSame DEF InsertExecuted, archiverVars
  <2>2. \A k \in 1..m : k \in Nat /\ Digest(k)' = Digest(k)
    BY <2>1
  <2>3. IInv'
    BY InsertStep
  <2>4. Published' = 1..m /\ \A k \in 1..m : txDigests'[RangeEnd(k)] = Digest(k)'
    <3>1. \A k : RangeEnd(k)' = RangeEnd(k)
      BY DEF RangeEnd
    <3>2. \A k \in Nat \ {0} : RangeEnd(k) \in DOMAIN txDigests' => txDigests'[RangeEnd(k)] = Digest(k)'
      BY <2>3, <3>1 DEF IInv, TableOK
    <3>3. \A k \in Nat \ {0} : RangeEnd(k) \in DOMAIN txDigests' => k \in Ranges
      <4>1. TypeOK' /\ \A k \in Nat \ {0} :
              RangeEnd(k) \in DOMAIN txDigests' => RangeEnd(k) <= latestCycle' - syncDelay
        BY <2>3, <3>1 DEF IInv, TableOK, SettledBy
      <4>2. QED BY <4>1, RangeEndType, DigestAssumption DEF TypeOK, Ranges
    <3>4. 1..m \subseteq Published'
      BY <1>2, <3>1, <3>3 DEF Published
    <3>5. ASSUME NEW k \in Published' PROVE k \in 1..m
      <4>1. k \in Nat /\ RangeEnd(k) \in DOMAIN txDigests'
        BY <3>1, DigestAssumption DEF Published, Ranges
      <4>2. PICK j \in 1..m : RangeEnd(j) = RangeEnd(k)
        BY <1>2, <4>1
      <4>3. QED BY <4>1, <4>2, RangeEndInjective
    <3>6. \A k \in 1..m : k \in Nat \ {0} /\ RangeEnd(k) \in DOMAIN txDigests'
      BY <1>2
    <3>7. QED BY <3>2, <3>4, <3>5, <3>6
  <2>5. \A k : RangeEnd(k)' = RangeEnd(k)
    BY DEF RangeEnd
  <2>6. QED BY <2>2, <2>4, <2>5 DEF TableChain
<1>5. PICK j \in Nat \ {0} : /\ row.cycleEnd = RangeEnd(j)
                             /\ j > 1 => RangeEnd(j - 1) \in DOMAIN txDigests
  BY InsertStep
<1>6. {RangeEnd(k) : k \in 1..m} = {RangeEnd(k) : k \in 1..n} \cup {RangeEnd(j)}
  BY <1>1, <1>2, <1>5 DEF InsertExecuted
<1>7. 1..m = (1..n) \cup {j}
  <2>1. ASSUME NEW k \in Nat \ {0}
        PROVE  /\ k \in 1..m <=> RangeEnd(k) \in {RangeEnd(i) : i \in 1..m}
               /\ k \in 1..n <=> RangeEnd(k) \in {RangeEnd(i) : i \in 1..n}
    BY RangeEndInjective
  <2>2. ASSUME NEW k \in Nat \ {0} PROVE k = j <=> RangeEnd(k) = RangeEnd(j)
    BY RangeEndInjective
  <2>3. \A k \in Nat \ {0} : k \in 1..m <=> k \in 1..n \/ k = j
    BY <1>6, <2>1, <2>2
  <2>4. QED BY <2>3
<1>8. m = n \/ m = n + 1
  <2>1. CASE j <= n
    BY <1>7, <2>1
  <2>2. CASE j > n
    <3>1. j \in 1..m
      BY <1>7
    <3>2. n + 1 \in 1..m
      BY <2>2, <3>1
    <3>3. n + 1 \notin 1..n
      OBVIOUS
    <3>4. n + 1 = j
      BY <1>7, <3>2, <3>3
    <3>5. m \in 1..m
      BY <3>1
    <3>6. m \in 1..n \/ m = j
      BY <1>7, <3>5
    <3>7. QED BY <3>1, <3>4, <3>6
  <2>3. QED BY <2>1, <2>2
<1>9. CASE m = n
  BY <1>3, <1>4, <1>9
<1>10. CASE m = n + 1
  <2> DEFINE ids == TxIdsBetween(RangeEnd(n) + 1, RangeEnd(n + 1))
  <2>1. TableChain \in Seq(Seq(SUBSET Tx)) /\ Len(TableChain) = n
    <3>1. \A k \in 1..n : Digest(k) \in Seq(SUBSET Tx)
      <4>1. \A k \in 1..n : k \in Nat
        OBVIOUS
      <4>2. QED BY <4>1, DigestAppend
    <3>2. [k \in 1..n |-> Digest(k)] \in [1..n -> Seq(SUBSET Tx)]
      BY <3>1
    <3>3. QED BY <1>3, <3>2
  <2>2. Chain!PrevHash = Digest(n)
    <3>1. CASE n = 0
      <4>1. TableChain = <<>> /\ Digest(n) = <<>>
        BY <1>3, <2>1, <3>1, DigestAppend
      <4>2. QED BY <4>1 DEF Chain!PrevHash
    <3>2. CASE n # 0
      <4>1. TableChain[n] = Digest(n)
        <5>1. n \in 1..n
          BY <3>2
        <5>2. QED BY <1>3, <5>1
      <4>2. TableChain # <<>>
        BY <2>1, <3>2
      <4>3. QED BY <2>1, <4>1, <4>2 DEF Chain!PrevHash
    <3>3. QED BY <3>1, <3>2
  <2>3. Digest(n + 1) = Append(Digest(n), ids)
    BY DigestAppend
  <2>4. Append(TableChain, Digest(n + 1))
          = [k \in 1..n + 1 |-> IF k <= n THEN TableChain[k] ELSE Digest(n + 1)]
    BY <2>1
  <2>5. \A k \in 1..n + 1 : Digest(k) = IF k <= n THEN TableChain[k] ELSE Digest(n + 1)
    <3>1. \A k \in 1..n : TableChain[k] = Digest(k)
      BY <1>3
    <3>2. \A k \in 1..n + 1 : k \in 1..n \/ k = n + 1
      OBVIOUS
    <3>3. QED BY <3>1, <3>2
  <2>6. TableChain' = Append(TableChain, Append(Chain!PrevHash, ids))
    <3>1. TableChain' = [k \in 1..n + 1 |-> Digest(k)]
      BY <1>4, <1>10
    <3>2. Append(TableChain, Digest(n + 1)) = [k \in 1..n + 1 |-> Digest(k)]
      BY <2>4, <2>5
    <3>3. QED BY <2>2, <2>3, <3>1, <3>2
  <2>7. ids \in SUBSET Tx
    BY DEF TxIdsBetween
  <2>8. QED BY <2>6, <2>7 DEF Chain!Next, Chain!Publish
<1>11. QED BY <1>8, <1>9, <1>10

\* The digester implements DigestChain: the table is a chain without gaps, and what was
\* published never changes (insertTransactionDigest, getHash).
THEOREM ChainImplemented == Spec => ChainSpec
<1>1. Init => Chain!Init
  <2> SUFFICES ASSUME Init PROVE TableChain = <<>>
    BY DEF Chain!Init
  <2>1. DOMAIN txDigests = {}
    BY DEF Init
  <2>2. QED BY <2>1 DEF TableChain, Published
<1>2. ASSUME IInv, [Next]_vars PROVE [Chain!Next]_TableChain
  <2>1. CASE \E row \in inserting : InsertExecuted(row)
    BY <1>2, <2>1, InsertPublishes
  <2>2. CASE UNCHANGED txDigests
    BY <2>2 DEF TableChain, Published, RangeEnd
  <2>3. (\E row \in inserting : InsertExecuted(row)) \/ UNCHANGED txDigests
    BY <1>2 DEF Next, vars, TxProcessed, CycleStored, BecomeActive, RunStep, Start,
       StatusReceived, LastReadWell, LastReadFailed, LastRead, LastAssigned, LatestRead, TxIdsRead, HashRead, ReadFailed, Fail, Crash,
       digesterVars
  <2>4. QED BY <2>1, <2>2, <2>3
<1>3. QED BY <1>1, <1>2, Invariance, PTL DEF Spec, ChainSpec, Chain!Spec

-----------------------------------------------------------------------------
(* The global network account *)

\* The validators' account n in their cycle: it is younger than its changes and its values, lists the
\* changes by cycle, and no value is of a change that is not due or of a later one.
Elements(list) == {list[i] : i \in DOMAIN list}
Consistent(n, cycle) ==
  /\ n.timestamp > 0
  /\ \A c \in Elements(n.changes) : c.id < n.timestamp
  /\ \A s \in Settings : n.current[s] < n.timestamp
  /\ \A i, j \in DOMAIN n.changes : i < j => n.changes[i].cycle <= n.changes[j].cycle
  /\ \A c \in Elements(n.changes) :
       c.cycle > cycle => \A s \in Settings : n.current[s] < c.id

\* An account made when n was, with the changes that were handled: no due change is newer than the
\* value in force, which the account has or gets from a change that is not handled yet, and the
\* changes not due are those of n.
Increasing(list) == \A i, j \in DOMAIN list : i < j => list[i].id < list[j].id
LaterChanges(list, cycle) == {c \in Elements(list) : c.cycle > cycle}
Related(acc, handled, n, cycle) ==
  acc.timestamp = n.timestamp =>
    /\ Increasing(acc.changes)
    /\ \A c \in Elements(acc.changes) : c.initShutdown => c.set = {}
    /\ \A c \in Elements(acc.changes) : \A s \in c.set : c.cycle <= cycle => c.id <= n.current[s]
    /\ \A s \in Settings : \/ n.current[s] = acc.current[s]
                           \/ \E c \in Elements(acc.changes) \ handled : c.id = n.current[s]
    /\ \A c \in Elements(acc.changes), s \in Settings :
         c.id = n.current[s] => s \in c.set /\ c.cycle <= cycle
    /\ LaterChanges(acc.changes, cycle) = LaterChanges(n.changes, cycle)

\* The accounts the archiver has or has been sent, and those of updates under way.
Accounts == {account, stored} \cup receipts \cup {updates[c].account : c \in DOMAIN updates}
FollowInv ==
  /\ Network!TypeOK
  /\ \A c \in DOMAIN updates : updates[c].account \in Network!Account /\ updates[c].at \in Nat
  /\ \A acc \in Accounts : acc.timestamp <= net.timestamp
  /\ \A c \in applied : c.cycle <= done
  /\ Consistent(net, netCycle) /\ Related(net, {}, net, netCycle)
  /\ \A acc \in receipts : Related(acc, {}, net, netCycle)
  /\ ~disturbed =>
       /\ updates = <<>> => Related(account, applied, net, netCycle)
       /\ \A c \in DOMAIN updates :
            c = done /\ Related(updates[c].account, applied, net, netCycle)

\* The changes of a list that pruning keeps have the places 1, 2, ... in their order.
Rank(kept, i) == Network!Cardinality({j \in kept : j <= i})
Placed(kept, k) == CHOOSE i \in kept : Rank(kept, i) = k
Ranked(kept) ==
  /\ Cardinality(kept) \in Nat
  /\ \A k \in 1..Cardinality(kept) : Placed(kept, k) \in kept /\ Rank(kept, Placed(kept, k)) = k
  /\ \A i \in kept : Rank(kept, i) \in 1..Cardinality(kept)
  /\ \A i, j \in kept : i < j => Rank(kept, i) < Rank(kept, j)

\* The instance counts as FiniteSets does.
LEMMA SameCardinality == \A T : Network!Cardinality(T) = Cardinality(T)
BY DEF Network!Cardinality, Cardinality

\* Places in a list that are kept have ranks 1, 2, ... without a gap.
LEMMA Ranks ==
  ASSUME NEW n \in Nat, NEW kept \in SUBSET (1..n)
  PROVE  Ranked(kept)
<1> DEFINE upTo(i) == {j \in kept : j <= i}
           m == Cardinality(kept)
<1>0. \A i \in kept : i \in Nat
  OBVIOUS
<1>1. IsFiniteSet(kept)
  <2>1. IsFiniteSet(1..n)
    BY FS_Interval
  <2> QED
    BY <2>1, FS_Subset
<1>2. m \in Nat
  BY <1>1, FS_CardinalityType
<1>3. \A i \in kept : /\ IsFiniteSet(upTo(i)) /\ Rank(kept, i) \in Nat
                      /\ Rank(kept, i) <= m
  <2> TAKE i \in kept
  <2>1. upTo(i) \in SUBSET kept
    OBVIOUS
  <2>2. IsFiniteSet(upTo(i)) /\ Cardinality(upTo(i)) <= m
    BY <1>1, <2>1, FS_Subset
  <2>3. Cardinality(upTo(i)) \in Nat
    BY <2>2, FS_CardinalityType
  <2> QED
    BY <2>2, <2>3, SameCardinality DEF Rank
<1>4. \A i \in kept : Rank(kept, i) >= 1
  <2> TAKE i \in kept
  <2>1. upTo(i) # {}
    OBVIOUS
  <2>2. Cardinality(upTo(i)) # 0
    BY <1>3, <2>1, FS_EmptySet
  <2> QED
    BY <1>3, <2>2, SameCardinality DEF Rank
<1>5. \A i, j \in kept : i < j => Rank(kept, i) < Rank(kept, j)
  <2> SUFFICES ASSUME NEW i \in kept, NEW j \in kept, i < j
               PROVE  Rank(kept, i) < Rank(kept, j)
    OBVIOUS
  <2>1. upTo(i) \in SUBSET upTo(j) /\ j \in upTo(j) /\ j \notin upTo(i)
    <3>1. i \in Nat /\ j \in Nat
      BY <1>0
    <3>2. \A e \in kept : e \in Nat /\ (e <= i => e <= j)
      BY <1>0, <3>1
    <3>3. ~(j <= i) /\ j <= j
      BY <3>1
    <3> QED
      BY <3>2, <3>3
  <2>2. upTo(i) # upTo(j)
    BY <2>1
  <2> HIDE DEF upTo
  <2>3. Cardinality(upTo(i)) <= Cardinality(upTo(j)) /\ Cardinality(upTo(i)) # Cardinality(upTo(j))
    BY <1>3, <2>1, <2>2, FS_Subset
  <2>4. Rank(kept, i) = Cardinality(upTo(i)) /\ Rank(kept, j) = Cardinality(upTo(j))
    BY SameCardinality DEF Rank, upTo
  <2> QED
    BY <1>3, <2>3, <2>4
<1> HIDE DEF upTo
<1>6. ASSUME NEW k \in 1..m
      PROVE  \E i \in kept : Rank(kept, i) = k
  <2> SUFFICES ASSUME \A i \in kept : Rank(kept, i) # k PROVE FALSE
    OBVIOUS
  <2> DEFINE others == (1..m) \ {k}
             f == [i \in kept |-> Rank(kept, i)]
  <2>1. IsFiniteSet(others) /\ Cardinality(others) = m - 1
    <3>1. IsFiniteSet(1..m) /\ Cardinality(1..m) = m
      BY <1>2, FS_Interval
    <3> QED
      BY <3>1, FS_RemoveElement
  <2>2. f \in [kept -> others]
    BY <1>2, <1>3, <1>4
  <2> HIDE DEF others, f
  <2>3. \E x, y \in kept : x # y /\ f[x] = f[y]
    <3>1. Cardinality(others) < m
      BY <1>2, <2>1
    <3> QED
      BY <1>1, <2>1, <2>2, <3>1, FS_PigeonHole
  <2>4. PICK x \in kept, y \in kept : x # y /\ Rank(kept, x) = Rank(kept, y)
    BY <2>3 DEF f
  <2>5. x < y \/ y < x
    BY <2>4
  <2> QED
    BY <1>3, <1>5, <2>4, <2>5
<1> HIDE DEF m
<1>7. \A k \in 1..m : Placed(kept, k) \in kept /\ Rank(kept, Placed(kept, k)) = k
  BY <1>6 DEF Placed
<1>8. \A i \in kept : Rank(kept, i) \in 1..m
  BY <1>2, <1>3, <1>4
<1> QED
  BY <1>2, <1>5, <1>7, <1>8 DEF Ranked, m

\* A list with some of the changes of another, in its order, among them those of the cycle and of
\* later ones.
Selected(list, changes, cycle) ==
  /\ list \in Seq(Network!Change)
  /\ Elements(list) \subseteq Elements(changes)
  /\ \A c \in Elements(changes) : c.cycle >= cycle => c \in Elements(list)
  /\ \A k, l \in DOMAIN list : k < l =>
       \E i, j \in DOMAIN changes : i < j /\ list[k] = changes[i] /\ list[l] = changes[j]

\* The assumption of Services, as the part uses it.
LEMMA Constants ==
  /\ CyclesToKeep \in Nat /\ ChangesToKeep \in Nat \ {0}
  /\ MaxConfigChanges \in Nat /\ MaxNetworkCycle \in Nat /\ MaxRestarts \in Nat /\ Lag \in Nat
BY PartsAssumption DEF Network!AccountAssumption

\* pruneNetworkChangeQueue leaves such a list, and all changes if the list is not shorter.
LEMMA Pruned ==
  ASSUME NEW changes \in Seq(Network!Change), NEW cycle \in Nat
  PROVE  LET list == Network!pruneNetworkChangeQueue(changes, cycle)
         IN /\ Selected(list, changes, cycle)
            /\ ~(Len(list) < Len(changes)) => Elements(list) = Elements(changes)
<1> DEFINE kept == {i \in DOMAIN changes : Network!KeepAlive(changes, i, cycle)}
           m == Cardinality(kept)
           list == [k \in 1..m |-> changes[Placed(kept, k)]]
<1>1. Network!pruneNetworkChangeQueue(changes, cycle) = list
  <2>1. Network!pruneNetworkChangeQueue(changes, cycle) =
          [k \in 1..Network!Cardinality(kept) |-> changes[Placed(kept, k)]]
    BY Zenon DEF Network!pruneNetworkChangeQueue, Placed, Rank
  <2> QED
    BY <2>1, SameCardinality
<1>2. /\ Len(changes) \in Nat /\ DOMAIN changes = 1..Len(changes)
      /\ \A i \in DOMAIN changes : changes[i] \in Network!Change
  OBVIOUS
<1>3. \A i \in DOMAIN changes : changes[i].cycle >= cycle => i \in kept
  <2> SUFFICES ASSUME NEW i \in DOMAIN changes, changes[i].cycle >= cycle
               PROVE  Network!KeepAlive(changes, i, cycle)
    OBVIOUS
  <2>1. changes[i].cycle \in Nat
    BY <1>2, Constants DEF Network!Change
  <2>2. cycle - changes[i].cycle <= CyclesToKeep
    BY <2>1, Constants
  <2> QED
    BY <2>2 DEF Network!KeepAlive
<1>4. kept \in SUBSET (1..Len(changes)) /\ \A i \in kept : i \in Nat
  BY <1>2
<1> HIDE DEF kept
<1>5. Ranked(kept)
  BY <1>2, <1>4, Ranks
<1>6. m \in Nat
  BY <1>5 DEF Ranked
<1> HIDE DEF m
<1>7. list \in Seq(Network!Change) /\ Len(list) = m /\ DOMAIN list = 1..m
  <2>1. \A k \in 1..m : changes[Placed(kept, k)] \in Network!Change
    BY <1>2, <1>4, <1>5 DEF Ranked, m
  <2> QED
    BY <1>6, <2>1
<1>8. Elements(list) = {changes[i] : i \in kept}
  <2>1. \A k \in 1..m : list[k] \in {changes[i] : i \in kept}
    BY <1>5 DEF Ranked, m
  <2>2. ASSUME NEW i \in kept
        PROVE  changes[i] \in Elements(list)
    <3> DEFINE k == Rank(kept, i)
    <3>1. k \in 1..m /\ Placed(kept, k) \in kept /\ Rank(kept, Placed(kept, k)) = k
      BY <1>5 DEF Ranked, m
    <3> HIDE DEF k
    <3>2. i \in Nat /\ Placed(kept, k) \in Nat
      BY <1>4, <3>1
    <3>3. ~(i < Placed(kept, k)) /\ ~(Placed(kept, k) < i)
      <4>1. k \in Nat /\ Rank(kept, i) = k
        BY <1>6, <3>1 DEF k
      <4> QED
        BY <1>5, <3>1, <4>1 DEF Ranked
    <3>4. Placed(kept, k) = i
      BY <3>2, <3>3
    <3>5. list[k] = changes[i]
      BY <3>1, <3>4
    <3> HIDE DEF list
    <3> QED
      BY <1>7, <3>1, <3>5 DEF Elements
  <2> HIDE DEF list
  <2> QED
    BY <1>7, <2>1, <2>2 DEF Elements
<1>9. \A k, l \in 1..m : k < l =>
        \E i, j \in DOMAIN changes : i < j /\ list[k] = changes[i] /\ list[l] = changes[j]
  <2> SUFFICES ASSUME NEW k \in 1..m, NEW l \in 1..m, k < l
               PROVE  \E i, j \in DOMAIN changes :
                        i < j /\ list[k] = changes[i] /\ list[l] = changes[j]
    OBVIOUS
  <2> DEFINE i == Placed(kept, k)
             j == Placed(kept, l)
  <2>1. i \in kept /\ j \in kept /\ Rank(kept, i) = k /\ Rank(kept, j) = l
    BY <1>5 DEF Ranked, m
  <2>3. list[k] = changes[i] /\ list[l] = changes[j]
    OBVIOUS
  <2> HIDE DEF i, j, list
  <2>2. i \in DOMAIN changes /\ j \in DOMAIN changes /\ i \in Nat /\ j \in Nat
    BY <1>2, <1>4, <2>1
  <2>4. ~(j < i) /\ i # j
    BY <1>5, <1>6, <2>1 DEF Ranked
  <2> QED
    BY <2>2, <2>3, <2>4
<1>10. ~(m < Len(changes)) => kept = 1..Len(changes)
  <2>1. IsFiniteSet(1..Len(changes)) /\ Cardinality(1..Len(changes)) = Len(changes)
    BY <1>2, FS_Interval
  <2>2. m <= Len(changes) /\ (m = Len(changes) => kept = 1..Len(changes))
    <3> DEFINE all == 1..Len(changes)
    <3>1. IsFiniteSet(all) /\ Cardinality(all) = Len(changes) /\ kept \in SUBSET all
      BY <1>4, <2>1
    <3> HIDE DEF all
    <3>2. m <= Cardinality(all) /\ (Cardinality(all) = m => all = kept)
      BY <3>1, FS_Subset DEF m
    <3> QED
      BY <3>1, <3>2 DEF all
  <2>3. Len(changes) \in Nat
    OBVIOUS
  <2> QED
    BY <1>6, <2>2, <2>3
<1> HIDE DEF list
<1>11. Selected(list, changes, cycle)
  <2>1. Elements(list) \subseteq Elements(changes)
    BY <1>2, <1>4, <1>8 DEF Elements
  <2>2. \A c \in Elements(changes) : c.cycle >= cycle => c \in Elements(list)
    BY <1>3, <1>8 DEF Elements
  <2> QED
    BY <1>7, <1>9, <2>1, <2>2 DEF Selected
<1>12. ~(Len(list) < Len(changes)) => Elements(list) = Elements(changes)
  BY <1>2, <1>7, <1>8, <1>10 DEF Elements
<1> QED
  BY <1>1, <1>11, <1>12

\* A change of the list that is due in the cycle takes effect.
Effected(acc, change, cycle) ==
  IF change.cycle = cycle THEN Network!Changed(acc, change, cycle) ELSE acc

\* A set of places that is not empty has a greatest.
LEMMA Greatest ==
  ASSUME NEW n \in Nat, NEW s \in SUBSET (1..n), s # {}
  PROVE  Network!Max(s) \in s /\ \A i \in s : i <= Network!Max(s)
<1> DEFINE T == {n - i : i \in s}
<1>0. \A i \in s : i \in Nat /\ i <= n
  OBVIOUS
<1>1. T \in SUBSET Nat /\ T # {}
  <2>1. \A i \in s : n - i \in Nat
    BY <1>0
  <2>2. PICK i \in s : TRUE
    OBVIOUS
  <2>3. n - i \in T
    OBVIOUS
  <2> QED
    BY <2>1, <2>3
<1>2. PICK m \in T : \A k \in T : m <= k
  BY <1>1, S!Least
<1>3. PICK x \in s : m = n - x
  BY <1>2
<1>4. \A i \in s : i \in Nat /\ n - i \in T
  BY <1>0
<1>5. \A i \in s : x >= i
  <2> HIDE DEF T
  <2> QED
    BY <1>2, <1>3, <1>4
<1>6. \E y \in s : \A i \in s : y >= i
  BY <1>5
<1>7. Network!Max(s) \in s /\ \A i \in s : Network!Max(s) >= i
  BY <1>6 DEF Network!Max
<1> QED
  BY <1>4, <1>7

\* One round of the fold over the list, which goes on with f.
Folding(f, base, changes, cycle) ==
  [s \in SUBSET DOMAIN changes |->
     IF s = {} THEN base
     ELSE LET x == Network!Max(s) IN Effected(f[s \ {x}], changes[x], cycle)]

\* The fold over no places is the account it starts from.
LEMMA FoldingEmpty ==
  ASSUME NEW f, NEW base, NEW changes, NEW cycle
  PROVE  Folding(f, base, changes, cycle)[{}] = base
BY DEF Folding

\* The places before the last one.
Rest(s) == s \ {Network!Max(s)}
LEMMA FewerBefore ==
  ASSUME NEW n \in Nat, NEW s \in SUBSET (1..n)
  PROVE  /\ Cardinality(s) \in Nat /\ Cardinality(s) < n + 1
         /\ s # {} => Rest(s) \in SUBSET (1..n) /\ Cardinality(Rest(s)) < Cardinality(s)
<1> DEFINE all == 1..n
<1>1. IsFiniteSet(all) /\ Cardinality(all) = n
  BY FS_Interval
<1> HIDE DEF all
<1>2. IsFiniteSet(s) /\ Cardinality(s) <= n
  BY <1>1, FS_Subset DEF all
<1>3. Cardinality(s) \in Nat
  BY <1>2, FS_CardinalityType
<1>4. ASSUME s # {}
      PROVE  Rest(s) \in SUBSET (1..n) /\ Cardinality(Rest(s)) < Cardinality(s)
  <2>1. Network!Max(s) \in s
    BY <1>4, Greatest
  <2>2. Cardinality(Rest(s)) = Cardinality(s) - 1
    BY <1>2, <2>1, FS_RemoveElement DEF Rest
  <2> QED
    <3>1. Rest(s) \in SUBSET (1..n)
      BY DEF Rest
    <3>2. Cardinality(Rest(s)) < Cardinality(s)
      BY <1>3, <2>2
    <3> QED
      BY <3>1, <3>2
<1>5. Cardinality(s) < n + 1
  BY <1>2, <1>3
<1> QED
  BY <1>3, <1>4, <1>5

\* The fold has a solution: repeating the round from any function settles the sets one size after
\* the other.
LEMMA FoldingExists ==
  ASSUME NEW base, NEW changes, NEW cycle, Len(changes) \in Nat, DOMAIN changes = 1..Len(changes)
  PROVE  \E f : f = Folding(f, base, changes, cycle)
<1> DEFINE n == Len(changes)
           Round(f) == Folding(f, base, changes, cycle)
           Right(f, d) == \A s \in SUBSET (1..n) : Cardinality(s) < d => f[s] = Round(f)[s]
           unsettled == {d \in Nat : \A f : ~ Right(f, d)}
<1>1. 0 \notin unsettled
  <2>1. ASSUME NEW s \in SUBSET (1..n)
        PROVE  ~(Cardinality(s) < 0)
    BY FewerBefore
  <2> HIDE DEF Round
  <2>2. \A f : Right(f, 0)
    BY <2>1
  <2> QED
    BY <2>2
<1>2. ASSUME NEW s \in SUBSET (1..n), NEW f, NEW g,
             s # {} => f[Rest(s)] = g[Rest(s)]
      PROVE  Round(f)[s] = Round(g)[s]
  <2>1. CASE s = {}
    BY <2>1, FoldingEmpty
  <2>2. CASE s # {}
    <3>1. \A h : Round(h)[s] = Effected(h[Rest(s)], changes[Network!Max(s)], cycle)
      <4>1. s \in SUBSET DOMAIN changes
        OBVIOUS
      <4> QED
        BY <2>2, <4>1, Zenon DEF Folding, Rest
    <3> HIDE DEF Round
    <3> QED
      BY <1>2, <2>2, <3>1
  <2> QED
    BY <2>1, <2>2
<1> HIDE DEF n, Round
<1>3. n \in Nat
  BY DEF n
<1>4. ASSUME NEW d \in Nat, d \notin unsettled
      PROVE  d + 1 \notin unsettled
  <2>1. PICK f : Right(f, d)
    BY <1>4
  <2>2. ASSUME NEW s \in SUBSET (1..n), Cardinality(s) < d + 1
        PROVE  Round(f)[s] = Round(Round(f))[s]
    <3>1. s # {} => f[Rest(s)] = Round(f)[Rest(s)]
      <4> SUFFICES ASSUME s # {} PROVE f[Rest(s)] = Round(f)[Rest(s)]
        OBVIOUS
      <4>1. /\ Rest(s) \in SUBSET (1..n) /\ Cardinality(Rest(s)) \in Nat
            /\ Cardinality(s) \in Nat /\ Cardinality(Rest(s)) < Cardinality(s)
        BY <1>3, FewerBefore
      <4>2. Cardinality(Rest(s)) < d
        BY <2>2, <4>1
      <4> QED
        BY <2>1, <4>1, <4>2
    <3> QED
      BY <1>2, <3>1
  <2>3. Right(Round(f), d + 1)
    BY <2>2
  <2> QED
    BY <2>3
<1>5. unsettled = {}
  <2> HIDE DEF unsettled
  <2> SUFFICES ASSUME unsettled # {} PROVE FALSE
    OBVIOUS
  <2>1. unsettled \subseteq Nat
    BY DEF unsettled
  <2>2. PICK d \in unsettled : \A e \in unsettled : d <= e
    BY <2>1, S!Least
  <2>3. d - 1 \in Nat /\ d - 1 \notin unsettled
    BY <1>1, <2>1, <2>2
  <2>4. (d - 1) + 1 \notin unsettled
    BY <1>4, <2>3
  <2> QED
    BY <2>1, <2>2, <2>4
<1>6. PICK f : Right(f, n + 1)
  <2>1. n + 1 \in Nat
    BY <1>3
  <2> HIDE DEF Right
  <2> QED
    BY <1>5, <2>1
<1>7. ASSUME NEW s \in SUBSET (1..n)
      PROVE  f[s] = Round(f)[s]
  BY <1>3, <1>6, FewerBefore
<1>8. ASSUME NEW s \in SUBSET (1..n)
      PROVE  Round(Round(f))[s] = Round(f)[s]
  BY <1>2, <1>3, <1>7, FewerBefore
<1>9. Round(Round(f)) = Round(f)
  BY <1>8 DEF Round, Folding, n
<1> QED
  BY <1>9 DEF Round

\* A pruned list of a list with some changes of another is one of the other too.
LEMMA SelectedTwice ==
  ASSUME NEW a, NEW b, NEW c, NEW cycle, Selected(a, b, cycle), Selected(b, c, cycle)
  PROVE  Selected(a, c, cycle)
<1>1. \A k, l \in DOMAIN a : k < l =>
        \E i, j \in DOMAIN c : i < j /\ a[k] = c[i] /\ a[l] = c[j]
  BY DEF Selected
<1> QED
  BY <1>1 DEF Selected

\* No change is left out of a list that has none that is pruned.
LEMMA SelectedAll ==
  ASSUME NEW changes \in Seq(Network!Change), NEW cycle
  PROVE  Selected(changes, changes, cycle)
BY DEF Selected

\* Changed prunes the list and sets the values of the change.
ChangedBy(next, acc, change, cycle) ==
  /\ next \in Network!Account /\ next.timestamp = acc.timestamp
  /\ next.changes = Network!pruneNetworkChangeQueue(acc.changes, cycle)
  /\ \A s \in Settings :
       next.current[s] = IF s \in change.set THEN change.id ELSE acc.current[s]

\* An account that a change was applied to is an account.
LEMMA ChangedTyped ==
  ASSUME NEW acc \in Network!Account, NEW change \in Network!Change, NEW cycle \in Nat
  PROVE  ChangedBy(Network!Changed(acc, change, cycle), acc, change, cycle)
<1> DEFINE next == Network!Changed(acc, change, cycle)
           list == Network!pruneNetworkChangeQueue(acc.changes, cycle)
           current == Network!patchAndUpdate(acc.current, change)
<1>1. acc.changes \in Seq(Network!Change) /\ acc.current \in [Settings -> Nat]
      /\ acc.timestamp \in Nat
  BY DEF Network!Account
<1>2. list \in Seq(Network!Change)
  BY <1>1, Pruned DEF Selected
<1>3. current \in [Settings -> Nat]
      /\ \A s \in Settings : current[s] = IF s \in change.set THEN change.id ELSE acc.current[s]
  <2>1. change.id \in Nat
    BY DEF Network!Change
  <2> QED
    BY <1>1, <2>1 DEF Network!patchAndUpdate
<1>4. next = [acc EXCEPT !.changes = list, !.current = current]
  BY DEF Network!Changed
<1> HIDE DEF next, list, current
<1>5. next = [timestamp |-> acc.timestamp, changes |-> list, current |-> current]
  BY <1>4 DEF Network!Account
<1>6. next \in Network!Account /\ next.timestamp = acc.timestamp
      /\ next.changes = list /\ next.current = current
  BY <1>1, <1>2, <1>3, <1>5 DEF Network!Account
<1> QED
  BY <1>3, <1>6 DEF ChangedBy, next, list

\* A value after the first k changes of the list: that of the last due one which sets it.
DueUpTo(base, s, cycle, k) ==
  {i \in 1..k : base.changes[i].cycle = cycle /\ s \in base.changes[i].set}
LastSet(value, base, s, cycle, k) ==
  \/ DueUpTo(base, s, cycle, k) = {} /\ value = base.current[s]
  \/ \E i \in DueUpTo(base, s, cycle, k) :
       value = base.changes[i].id /\ \A j \in DueUpTo(base, s, cycle, k) : j <= i
Effect(acc, base, cycle, k) ==
  /\ acc \in Network!Account /\ acc.timestamp = base.timestamp
  /\ Selected(acc.changes, base.changes, cycle)
  /\ \A s \in Settings : LastSet(acc.current[s], base, s, cycle, k)

\* One more place of the list, and the values are those of the last due changes up to it.
LEMMA NextEffect ==
  ASSUME NEW base \in Network!Account, NEW cycle \in Nat, NEW k \in DOMAIN base.changes,
         NEW acc, Effect(acc, base, cycle, k - 1)
  PROVE  Effect(Effected(acc, base.changes[k], cycle), base, cycle, k)
<1> DEFINE c == base.changes[k]
           next == Effected(acc, c, cycle)
<1>1. base.changes \in Seq(Network!Change) /\ k \in Nat \ {0}
  BY DEF Network!Account
<1>2. c \in Network!Change
  BY <1>1
<1>3. acc \in Network!Account /\ acc.changes \in Seq(Network!Change)
  BY DEF Effect, Network!Account
<1>4. 1..k = 1..(k - 1) \cup {k} /\ \A j \in 1..(k - 1) : j <= k
  BY <1>1
<1>5. CASE c.cycle = cycle
  <2>1. next = Network!Changed(acc, c, cycle)
    BY <1>5 DEF Effected
  <2> HIDE DEF next, c
  <2>2. /\ next \in Network!Account /\ next.timestamp = acc.timestamp
        /\ next.changes = Network!pruneNetworkChangeQueue(acc.changes, cycle)
        /\ \A s \in Settings : next.current[s] = IF s \in c.set THEN c.id ELSE acc.current[s]
    <3>1. ChangedBy(Network!Changed(acc, c, cycle), acc, c, cycle)
      BY <1>2, <1>3, ChangedTyped
    <3> QED
      BY <2>1, <3>1 DEF ChangedBy
  <2>3. Selected(next.changes, base.changes, cycle)
    <3>1. Selected(next.changes, acc.changes, cycle)
      BY <1>3, <2>2, Pruned
    <3> QED
      BY <3>1, SelectedTwice DEF Effect
  <2>4. ASSUME NEW s \in Settings
        PROVE  LastSet(next.current[s], base, s, cycle, k)
    <3>1. CASE s \in c.set
      <4>1. k \in DueUpTo(base, s, cycle, k)
        BY <1>1, <1>5, <3>1 DEF DueUpTo, c
      <4>2. \A j \in DueUpTo(base, s, cycle, k) : j <= k
        BY <1>1 DEF DueUpTo
      <4> QED
        BY <2>2, <3>1, <4>1, <4>2 DEF LastSet, c
    <3>2. CASE s \notin c.set
      <4>1. DueUpTo(base, s, cycle, k) = DueUpTo(base, s, cycle, k - 1)
        BY <1>4, <3>2 DEF DueUpTo, c
      <4> QED
        BY <2>2, <3>2, <4>1 DEF Effect, LastSet
    <3> QED
      BY <3>1, <3>2
  <2>5. next.timestamp = base.timestamp
    BY <2>2 DEF Effect
  <2> QED
    BY <2>2, <2>3, <2>4, <2>5 DEF Effect, next, c
<1>6. CASE c.cycle # cycle
  <2>1. next = acc
    BY <1>6 DEF Effected
  <2>2. \A s : DueUpTo(base, s, cycle, k) = DueUpTo(base, s, cycle, k - 1)
    BY <1>4, <1>6 DEF DueUpTo
  <2> QED
    BY <2>1, <2>2 DEF Effect, LastSet
<1> QED
  BY <1>5, <1>6

\* What a cycle makes of the validators' account.
LEMMA FoldedCycle ==
  ASSUME NEW base \in Network!Account, NEW cycle \in Nat
  PROVE  Effect(Network!FoldLeft(LAMBDA acc, change :
                                   IF change.cycle = cycle
                                   THEN Network!Changed(acc, change, cycle) ELSE acc,
                                 base, base.changes),
                base, cycle, Len(base.changes))
<1> DEFINE changes == base.changes
           n == Len(changes)
           fold == CHOOSE f : f = Folding(f, base, changes, cycle)
           Right(k) == Effect(fold[1..k], base, cycle, k)
           wrong == {k \in 0..n : ~Right(k)}
<1>1. changes \in Seq(Network!Change) /\ n \in Nat /\ DOMAIN changes = 1..n
  BY DEF Network!Account
<1>2. fold = Folding(fold, base, changes, cycle)
  BY <1>1, FoldingExists
<1>3. Network!FoldLeft(LAMBDA acc, change :
                         IF change.cycle = cycle
                         THEN Network!Changed(acc, change, cycle) ELSE acc,
                       base, changes) = fold[1..n]
  BY <1>1, Zenon DEF Network!FoldLeft, Network!MapThenFoldSet, Folding, Effected
<1> HIDE DEF fold, n, changes
<1>4. Right(0)
  <2>1. 1..0 = {}
    OBVIOUS
  <2>2. fold[1..0] = base
    BY <1>2, <2>1, FoldingEmpty
  <2>3. \A s : DueUpTo(base, s, cycle, 0) = {}
    BY <2>1 DEF DueUpTo
  <2> QED
    BY <1>1, <2>2, <2>3, SelectedAll DEF Effect, LastSet, changes
<1>5. ASSUME NEW k \in 1..n, Right(k - 1)
      PROVE  Right(k)
  <2>1. k \in 1..k /\ 1..k \in SUBSET DOMAIN changes /\ k \in DOMAIN changes
    BY <1>1
  <2>2. Network!Max(1..k) = k
    <3>1. Network!Max(1..k) \in 1..k /\ \A i \in 1..k : i <= Network!Max(1..k)
      <4>1. 1..k \in SUBSET (1..n) /\ 1..k # {}
        BY <1>1, <2>1
      <4> QED
        BY <1>1, <4>1, Greatest
    <3> QED
      BY <2>1, <3>1
  <2>3. Rest(1..k) = 1..(k - 1)
    BY <2>1, <2>2 DEF Rest
  <2>4. fold[1..k] = Effected(fold[1..(k - 1)], changes[k], cycle)
    <3>1. 1..k # {}
      BY <2>1
    <3>2. Folding(fold, base, changes, cycle)[1..k] =
            Effected(fold[Rest(1..k)], changes[Network!Max(1..k)], cycle)
      BY <2>1, <3>1, Zenon DEF Folding, Rest
    <3> QED
      BY <1>2, <2>2, <2>3, <3>2
  <2> QED
    BY <1>5, <2>1, <2>4, NextEffect DEF changes
<1>6. wrong = {}
  <2> HIDE DEF wrong, Right
  <2> SUFFICES ASSUME wrong # {} PROVE FALSE
    OBVIOUS
  <2>1. wrong \in SUBSET Nat
    BY <1>1 DEF wrong
  <2>2. PICK k \in wrong : \A l \in wrong : k <= l
    BY <2>1, S!Least
  <2>3. k \in 0..n /\ ~Right(k)
    BY <2>2 DEF wrong
  <2>4. k \in 1..n /\ k - 1 \in 0..n /\ ~(k <= k - 1)
    BY <1>1, <1>4, <2>3
  <2>5. Right(k - 1)
    BY <2>2, <2>4 DEF wrong
  <2> QED
    BY <1>5, <2>3, <2>4, <2>5
<1>7. Right(n)
  <2> HIDE DEF Right
  <2>1. n \in 0..n
    BY <1>1
  <2> QED
    BY <1>6, <2>1
<1> QED
  BY <1>3, <1>7 DEF n, changes

\* A change of the list has a position in it.
LEMMA AtPosition ==
  ASSUME NEW list \in Seq(Network!Change), NEW c \in Elements(list)
  PROVE  c \in Network!Change /\ \E i \in DOMAIN list : i \in Nat /\ c = list[i]
BY DEF Elements

\* The fields of a change have their types.
LEMMA ChangeFields ==
  ASSUME NEW c \in Network!Change
  PROVE  /\ c.id \in Nat \ {0} /\ c.id <= MaxConfigChanges /\ c.cycle \in Nat \ {0}
         /\ c.set \subseteq Settings /\ c.initShutdown \in BOOLEAN
BY Constants DEF Network!Change

\* A list with some changes of an increasing list is increasing.
LEMMA SelectedIncreasing ==
  ASSUME NEW list, NEW changes, NEW cycle, Selected(list, changes, cycle), Increasing(changes)
  PROVE  Increasing(list)
BY DEF Selected, Increasing

\* In an increasing list an id belongs to one change.
LEMMA OneChange ==
  ASSUME NEW list \in Seq(Network!Change), Increasing(list),
         NEW c \in Elements(list), NEW d \in Elements(list), c.id = d.id
  PROVE  c = d
<1>1. PICK i \in DOMAIN list : i \in Nat /\ c = list[i]
  BY AtPosition
<1>2. PICK j \in DOMAIN list : j \in Nat /\ d = list[j]
  BY AtPosition
<1>3. c.id \in Nat
  BY AtPosition, ChangeFields
<1>4. ~(i < j) /\ ~(j < i)
  BY <1>1, <1>2, <1>3 DEF Increasing
<1> QED
  BY <1>1, <1>2, <1>4

\* The value after a cycle, by the changes of the validators' list.
Latest(value, n, s, cycle) ==
  LET due == {c \in Elements(n.changes) : c.cycle = cycle /\ s \in c.set}
  IN \/ due = {} /\ value = n.current[s]
     \/ \E d \in due : value = d.id /\ \A c \in due : c.id <= d.id

\* After the loop over a list the value of a setting is that of its latest change due in the cycle.
LEMMA LatestValues ==
  ASSUME NEW n \in Network!Account, NEW cycle \in Nat, NEW next, Increasing(n.changes),
         Effect(next, n, cycle, Len(n.changes))
  PROVE  \A s \in Settings : Latest(next.current[s], n, s, cycle)
<1> SUFFICES ASSUME NEW s \in Settings
             PROVE  Latest(next.current[s], n, s, cycle)
  OBVIOUS
<1> DEFINE list == n.changes
           due == {c \in Elements(list) : c.cycle = cycle /\ s \in c.set}
           places == DueUpTo(n, s, cycle, Len(list))
           value == next.current[s]
<1>1. list \in Seq(Network!Change)
  BY DEF Network!Account
<1>2. /\ DOMAIN list = 1..Len(list) /\ \A i \in DOMAIN list : i \in Nat
      /\ \A i \in DOMAIN list : list[i].id \in Nat
  <2>1. \A i \in DOMAIN list : list[i] \in Network!Change
    BY <1>1
  <2>2. \A i \in DOMAIN list : list[i].id \in Nat
    BY <2>1, ChangeFields
  <2> QED
    BY <1>1, <2>2
<1>3. due = {list[i] : i \in places}
  BY <1>2 DEF DueUpTo, Elements
<1>4. places \subseteq DOMAIN list
  BY <1>2 DEF DueUpTo
<1>5. \/ places = {} /\ value = n.current[s]
      \/ \E i \in places : value = list[i].id /\ \A j \in places : j <= i
  BY DEF Effect, LastSet
<1>6. Increasing(list)
  OBVIOUS
<1> HIDE DEF list, due, places, value
<1>7. CASE places = {} /\ value = n.current[s]
  BY <1>3, <1>7 DEF Latest, due, list, value
<1>8. ASSUME NEW i \in places, value = list[i].id, \A j \in places : j <= i
      PROVE  Latest(value, n, s, cycle)
  <2>1. list[i] \in due
    BY <1>3
  <2>2. \A c \in due : c.id <= list[i].id
    <3> SUFFICES ASSUME NEW j \in places PROVE list[j].id <= list[i].id
      BY <1>3
    <3>1. j = i \/ j < i
      BY <1>2, <1>4, <1>8
    <3>2. list[j].id \in Nat /\ list[i].id \in Nat
      BY <1>2, <1>4
    <3> QED
      BY <1>4, <1>6, <3>1, <3>2 DEF Increasing
  <2> QED
    BY <1>8, <2>1, <2>2 DEF Latest, due, list
<1> QED
  BY <1>5, <1>7, <1>8 DEF value

\* A cycle later an account is related to what the cycle makes of the validators' one.
LEMMA RelatedNext ==
  ASSUME NEW n \in Network!Account, NEW cycle \in Nat, NEW next,
         Consistent(n, cycle), Related(n, {}, n, cycle),
         Effect(next, n, cycle + 1, Len(n.changes)),
         NEW acc, NEW handled, Related(acc, handled, n, cycle),
         acc.timestamp = n.timestamp => acc \in Network!Account,
         \A c \in handled : c.cycle <= cycle
  PROVE  Related(acc, handled, next, cycle + 1)
<1> SUFFICES ASSUME acc.timestamp = n.timestamp
             PROVE  Related(acc, handled, next, cycle + 1)
  BY DEF Related, Effect
<1> DEFINE list == acc.changes
           later == Elements(n.changes)
<1>1. /\ list \in Seq(Network!Change) /\ acc.current \in [Settings -> Nat]
      /\ n.changes \in Seq(Network!Change) /\ n.current \in [Settings -> Nat]
      /\ next.changes \in Seq(Network!Change) /\ next.current \in [Settings -> Nat]
  BY DEF Network!Account, Effect
<1>2. /\ \A c \in Elements(list) : c.id \in Nat /\ c.cycle \in Nat /\ c.set \subseteq Settings
      /\ \A c \in later : c.id \in Nat /\ c.cycle \in Nat /\ c.set \subseteq Settings
  BY <1>1, AtPosition, ChangeFields
<1>3. /\ Increasing(n.changes) /\ Increasing(list)
      /\ \A c \in Elements(list) : c.initShutdown => c.set = {}
      /\ \A c \in Elements(list) : \A s \in c.set : c.cycle <= cycle => c.id <= n.current[s]
      /\ \A s \in Settings : \/ n.current[s] = acc.current[s]
                             \/ \E c \in Elements(list) \ handled : c.id = n.current[s]
      /\ \A c \in Elements(list), s \in Settings :
           c.id = n.current[s] => s \in c.set /\ c.cycle <= cycle
      /\ LaterChanges(list, cycle) = LaterChanges(n.changes, cycle)
  BY DEF Related
<1>4. \A s \in Settings : Latest(next.current[s], n, s, cycle + 1)
  BY <1>3, LatestValues
<1>5. \A c \in later, s \in Settings : c.cycle > cycle => n.current[s] < c.id
  BY DEF Consistent
<1>6. \A c : c.cycle > cycle => (c \in Elements(list) <=> c \in later)
  BY <1>3 DEF LaterChanges
<1> HIDE DEF list, later
\* A value stays, and no change of the cycle sets it, or is that of such a change, the last one.
<1>7. \A s \in Settings :
        \/ /\ next.current[s] = n.current[s]
           /\ \A c \in later : c.cycle = cycle + 1 => s \notin c.set
        \/ \E d \in later :
             /\ d.cycle = cycle + 1 /\ s \in d.set /\ next.current[s] = d.id
             /\ \A c \in later : c.cycle = cycle + 1 /\ s \in c.set => c.id <= d.id
  BY <1>4 DEF Latest, later
<1>8. ASSUME NEW c \in Elements(list), NEW s \in c.set, c.cycle <= cycle + 1
      PROVE  c.id <= next.current[s]
  <2>0. s \in Settings
    BY <1>2
  <2>1. CASE c.cycle <= cycle
    <3>1. c.id <= n.current[s]
      BY <1>3, <2>1
    <3>2. n.current[s] <= next.current[s]
      <4>1. \/ next.current[s] = n.current[s]
            \/ \E d \in later : d.cycle = cycle + 1 /\ next.current[s] = d.id
        BY <1>7, <2>0
      <4>2. \A d \in later : d.cycle = cycle + 1 => n.current[s] < d.id
        BY <1>5, <2>0
      <4> QED
        BY <1>1, <1>2, <2>0, <4>1, <4>2
    <3>3. c.id \in Nat /\ n.current[s] \in Nat /\ next.current[s] \in Nat
      BY <1>1, <1>2, <2>0
    <3> QED
      BY <3>1, <3>2, <3>3
  <2>2. CASE c.cycle = cycle + 1
    <3>1. c \in later
      BY <1>6, <2>2
    <3> QED
      BY <1>7, <2>0, <2>2, <3>1
  <2> QED
    BY <1>2, <1>8, <2>1, <2>2
<1>9. ASSUME NEW s \in Settings
      PROVE  \/ next.current[s] = acc.current[s]
             \/ \E c \in Elements(list) \ handled : c.id = next.current[s]
  <2>1. CASE next.current[s] = n.current[s]
    BY <1>3, <2>1
  <2>2. ASSUME NEW d \in later, d.cycle = cycle + 1, next.current[s] = d.id
        PROVE  \E c \in Elements(list) \ handled : c.id = next.current[s]
    BY <1>6, <2>2
  <2> QED
    BY <1>7, <2>1, <2>2
<1>10. ASSUME NEW c \in Elements(list), NEW s \in Settings, c.id = next.current[s]
       PROVE  s \in c.set /\ c.cycle <= cycle + 1
  <2>1. CASE next.current[s] = n.current[s]
    BY <1>2, <1>3, <1>10, <2>1
  <2>2. ASSUME NEW d \in later, d.cycle = cycle + 1, s \in d.set, next.current[s] = d.id
        PROVE  s \in c.set /\ c.cycle <= cycle + 1
    <3>1. d \in Elements(list)
      BY <1>6, <2>2
    <3>2. c = d
      BY <1>1, <1>3, <1>10, <2>2, <3>1, OneChange DEF list
    <3> QED
      BY <2>2, <3>2
  <2> QED
    BY <1>7, <2>1, <2>2
<1>11. LaterChanges(list, cycle + 1) = LaterChanges(next.changes, cycle + 1)
  <2>1. Elements(next.changes) \subseteq later
        /\ \A c \in later : c.cycle >= cycle + 1 => c \in Elements(next.changes)
    BY DEF Effect, Selected, later
  <2> QED
    BY <1>2, <1>6, <2>1 DEF LaterChanges
<1> QED
  BY <1>3, <1>8, <1>9, <1>10, <1>11 DEF Related, list

\* A cycle later the validators' account is consistent, and related to itself.
LEMMA ConsistentNext ==
  ASSUME NEW n \in Network!Account, NEW cycle \in Nat, NEW next,
         Consistent(n, cycle), Related(n, {}, n, cycle),
         Effect(next, n, cycle + 1, Len(n.changes))
  PROVE  /\ Consistent(next, cycle + 1)
         /\ Related(next, {}, next, cycle + 1)
<1>1. /\ n.changes \in Seq(Network!Change) /\ n.current \in [Settings -> Nat]
      /\ next.changes \in Seq(Network!Change) /\ next.current \in [Settings -> Nat]
      /\ n.timestamp \in Nat /\ next.timestamp = n.timestamp
      /\ Selected(next.changes, n.changes, cycle + 1)
  BY DEF Network!Account, Effect
<1>2. /\ Elements(next.changes) \subseteq Elements(n.changes)
      /\ \A c \in Elements(n.changes) : c.id \in Nat /\ c.cycle \in Nat /\ c.set \subseteq Settings
  BY <1>1, AtPosition, ChangeFields DEF Selected
<1>3. Increasing(n.changes)
  BY DEF Related
<1>4. \A s \in Settings : Latest(next.current[s], n, s, cycle + 1)
  BY <1>3, LatestValues
<1>5. Related(n, {}, next, cycle + 1)
  BY RelatedNext
<1>6. \A i, j \in DOMAIN n.changes : i < j => n.changes[i].cycle <= n.changes[j].cycle
  BY DEF Consistent
<1>7. \A s \in Settings : next.current[s] < next.timestamp
  <2> TAKE s \in Settings
  <2>1. \/ next.current[s] = n.current[s]
        \/ \E d \in Elements(n.changes) : next.current[s] = d.id
    BY <1>4 DEF Latest
  <2> QED
    BY <1>1, <2>1 DEF Consistent
<1>8. \A i, j \in DOMAIN next.changes : i < j => next.changes[i].cycle <= next.changes[j].cycle
  BY <1>1, <1>6 DEF Selected
<1>9. ASSUME NEW c \in Elements(next.changes), c.cycle > cycle + 1, NEW s \in Settings
      PROVE  next.current[s] < c.id
  <2>1. c \in Elements(n.changes) /\ c.cycle > cycle /\ c.id \in Nat
    BY <1>2, <1>9
  <2>2. CASE next.current[s] = n.current[s]
    BY <2>1, <2>2 DEF Consistent
  <2>3. ASSUME NEW d \in Elements(n.changes), d.cycle = cycle + 1, next.current[s] = d.id
        PROVE  d.id < c.id
    <3>1. PICK i \in DOMAIN n.changes : i \in Nat /\ d = n.changes[i]
      BY <1>1, AtPosition
    <3>2. PICK j \in DOMAIN n.changes : j \in Nat /\ c = n.changes[j]
      BY <1>1, <2>1, AtPosition
    <3>3. d.cycle < c.cycle /\ d.cycle \in Nat /\ c.cycle \in Nat
      BY <1>2, <1>9, <2>1, <2>3
    <3>4. ~(j < i) /\ i # j
      BY <1>6, <3>1, <3>2, <3>3
    <3>5. i < j
      BY <3>1, <3>2, <3>4
    <3> QED
      BY <1>3, <3>1, <3>2, <3>5 DEF Increasing
  <2> QED
    BY <1>4, <2>2, <2>3 DEF Latest
<1>10. Consistent(next, cycle + 1)
  BY <1>1, <1>2, <1>7, <1>8, <1>9 DEF Consistent
<1>11. Increasing(next.changes)
  BY <1>1, <1>3, SelectedIncreasing
<1>12. Related(next, {}, next, cycle + 1)
  BY <1>1, <1>2, <1>5, <1>11 DEF Related
<1> QED
  BY <1>10, <1>12

\* The account with one more change.
Listing(n, due, set) ==
  [n EXCEPT !.timestamp = @ + 1,
     !.changes = Append(@, [id |-> n.timestamp, cycle |-> due, set |-> set,
                            initShutdown |-> set = {}])]

\* The change that a transaction lists is younger than all, and not due.
LEMMA ListedNext ==
  ASSUME NEW n \in Network!Account, NEW cycle \in Nat,
         Consistent(n, cycle), Related(n, {}, n, cycle),
         n.timestamp <= MaxConfigChanges,
         NEW due \in (cycle + 1)..(MaxNetworkCycle + 1), NEW set \in SUBSET Settings,
         \A c \in Elements(n.changes) : c.cycle <= due,
         NEW next,
         next = Listing(n, due, set)
  PROVE  /\ next \in Network!Account /\ next.timestamp = n.timestamp + 1
         /\ Consistent(next, cycle) /\ Related(next, {}, next, cycle)
<1> DEFINE new == [id |-> n.timestamp, cycle |-> due, set |-> set, initShutdown |-> set = {}]
           list == Append(n.changes, new)
<1>1. /\ n.changes \in Seq(Network!Change) /\ n.current \in [Settings -> Nat]
      /\ n.timestamp \in Nat \ {0} /\ cycle \in Nat /\ due \in Nat /\ cycle < due
  BY DEF Network!Account, Consistent
<1>2. new \in Network!Change
  <2>1. due \in 1..(MaxNetworkCycle + 1) /\ n.timestamp \in 1..MaxConfigChanges
    BY <1>1, Constants
  <2> QED
    BY <2>1 DEF Network!Change
<1>3. next = [timestamp |-> n.timestamp + 1, changes |-> list, current |-> n.current]
  BY DEF Network!Account, Listing
<1>4. new.id = n.timestamp /\ new.cycle = due /\ new.set = set /\ new.initShutdown = (set = {})
  OBVIOUS
<1> HIDE DEF new
<1>5. /\ list \in Seq(Network!Change)
      /\ DOMAIN list = DOMAIN n.changes \cup {Len(n.changes) + 1}
      /\ list[Len(n.changes) + 1] = new /\ Len(n.changes) \in Nat
      /\ \A i \in DOMAIN n.changes : /\ i \in Nat /\ i < Len(n.changes) + 1
                                     /\ list[i] = n.changes[i]
  BY <1>1, <1>2
<1> HIDE DEF list
<1>6. Elements(list) = Elements(n.changes) \cup {new}
  BY <1>5 DEF Elements
<1>7. next \in Network!Account /\ next.timestamp = n.timestamp + 1 /\ next.changes = list
      /\ next.current = n.current
  <2>1. n.timestamp + 1 \in Nat
    BY <1>1
  <2> QED
    BY <1>1, <1>3, <1>5, <2>1 DEF Network!Account
<1>8. \A c \in Elements(n.changes) : c.id \in Nat /\ c.cycle \in Nat /\ c.id < n.timestamp
  BY <1>1, AtPosition, ChangeFields DEF Consistent
<1>9. \A i \in DOMAIN n.changes : n.changes[i] \in Elements(n.changes)
  BY DEF Elements
<1>10. \A i, j \in DOMAIN list : i < j =>
         /\ list[i].id < list[j].id /\ list[i].cycle <= list[j].cycle
  <2> SUFFICES ASSUME NEW i \in DOMAIN list, NEW j \in DOMAIN list, i < j
               PROVE  list[i].id < list[j].id /\ list[i].cycle <= list[j].cycle
    OBVIOUS
  <2>1. i \in DOMAIN n.changes
    BY <1>5
  <2>2. CASE j \in DOMAIN n.changes
    BY <1>5, <2>1, <2>2 DEF Consistent, Related, Increasing
  <2>3. CASE j = Len(n.changes) + 1
    BY <1>4, <1>5, <1>8, <1>9, <2>1, <2>3
  <2> QED
    BY <1>5, <2>2, <2>3
<1>11. \A s \in Settings : n.current[s] < n.timestamp /\ n.current[s] \in Nat
  BY <1>1 DEF Consistent
<1>12. Consistent(next, cycle)
  <2>1. \A c \in Elements(list) : c.id < n.timestamp + 1
    BY <1>1, <1>4, <1>6, <1>8
  <2>2. \A s \in Settings : n.current[s] < n.timestamp + 1
    BY <1>1, <1>11
  <2>3. \A c \in Elements(list) : c.cycle > cycle => \A s \in Settings : n.current[s] < c.id
    BY <1>4, <1>6, <1>11 DEF Consistent
  <2> QED
    BY <1>1, <1>7, <1>10, <2>1, <2>2, <2>3, SMTT(30) DEF Consistent
<1>13. Related(next, {}, next, cycle)
  <2>1. Increasing(list)
    BY <1>10 DEF Increasing
  <2>2. \A c \in Elements(list) : c.initShutdown => c.set = {}
    BY <1>4, <1>6 DEF Related
  <2>3. \A c \in Elements(list) : \A s \in c.set : c.cycle <= cycle => c.id <= n.current[s]
    BY <1>1, <1>4, <1>6 DEF Related
  <2>4. \A c \in Elements(list), s \in Settings :
          c.id = n.current[s] => s \in c.set /\ c.cycle <= cycle
    BY <1>1, <1>4, <1>6, <1>11 DEF Related
  <2> QED
    BY <1>7, <2>1, <2>2, <2>3, <2>4 DEF Related
<1> QED
  BY <1>7, <1>12, <1>13

\* What the loop of an update does up to the next change that it applies: it has seen due changes
\* only, which it applies, or are handled already, or only ask for a shutdown.
Looped(step, acc, cycle, handled) ==
  /\ step.at \in Nat /\ step.ends \in BOOLEAN
  /\ \A d \in step.seen : d \in Elements(acc.changes) /\ d \in Network!Change /\ d.cycle <= cycle
  /\ step.ends => /\ step.account = acc
                  /\ \A d \in step.seen : d \in handled \/ d.initShutdown
  /\ ~step.ends =>
       LET c == acc.changes[step.at]
       IN /\ step.at \in DOMAIN acc.changes /\ c \in Network!Change /\ c.cycle <= cycle
          /\ c \notin handled
          /\ step.account = Network!Changed(acc, c, cycle)
          /\ \A d \in step.seen : d = c \/ d \in handled \/ d.initShutdown

\* What the loop over the changes of an account adds to those that were handled.
LEMMA LoopStep ==
  ASSUME NEW path, path.account \in Network!Account, NEW from \in Nat \ {0}, NEW cycle \in Nat,
         NEW handled
  PROVE  Looped(Network!Loop(path, from, cycle, handled), path.account, cycle, handled)
<1> DEFINE acc == path.account
           list == acc.changes
           apply == {i \in from..Len(list) : /\ ~Network!Future(list[i], cycle)
                                             /\ list[i] \notin handled
                                             /\ ~Network!Skipped(list[i], cycle)}
           stop == IF apply = {} THEN Len(list) + 1 ELSE Network!Min(apply)
           seen == {list[i] : i \in {j \in from..Len(list) : j <= stop /\ ~Network!Future(list[j], cycle)}}
           step == Network!Loop(path, from, cycle, handled)
<1>1. step = [at |-> stop, seen |-> seen, ends |-> apply = {},
              account |-> IF apply = {} THEN acc ELSE Network!Changed(acc, list[stop], cycle)]
  BY Zenon DEF Network!Loop
<1> HIDE DEF step
<1>2. /\ list \in Seq(Network!Change) /\ Len(list) \in Nat
      /\ \A i \in from..Len(list) : /\ i \in Nat /\ i \in DOMAIN list
                                    /\ list[i] \in Network!Change /\ list[i] \in Elements(list)
  BY DEF Network!Account, Elements
<1> HIDE DEF acc, list
<1>3. apply # {} => stop \in apply /\ \A i \in apply : stop <= i
  <2>1. apply \in SUBSET Nat
    BY <1>2
  <2> HIDE DEF apply
  <2> SUFFICES ASSUME apply # {} PROVE stop \in apply /\ \A i \in apply : stop <= i
    OBVIOUS
  <2>2. \E m \in apply : \A i \in apply : m <= i
    BY <2>1, S!Least
  <2>3. stop = Network!Min(apply)
    OBVIOUS
  <2> QED
    BY <2>2, <2>3 DEF Network!Min
<1>4. stop \in Nat
  BY <1>2, <1>3
<1>5. \A i \in from..Len(list) :
        ~Network!Future(list[i], cycle) => list[i].cycle <= cycle /\ list[i].cycle \in Nat
  BY <1>2, ChangeFields DEF Network!Future
<1> HIDE DEF stop
<1>6. \A d \in seen : d \in Elements(list) /\ d \in Network!Change /\ d.cycle <= cycle
  <2> HIDE DEF apply
  <2> QED
    BY <1>2, <1>5
<1>7. ASSUME NEW i \in from..Len(list), i <= stop, ~Network!Future(list[i], cycle), i \notin apply
      PROVE  list[i] \in handled \/ list[i].initShutdown
  BY <1>7 DEF Network!Skipped
<1>8. apply = {} => \A d \in seen : d \in handled \/ d.initShutdown
  BY <1>7
<1>9. apply # {} => \A d \in seen : d = list[stop] \/ d \in handled \/ d.initShutdown
  <2> SUFFICES ASSUME apply # {}, NEW i \in from..Len(list), i <= stop,
                      ~Network!Future(list[i], cycle)
               PROVE  list[i] = list[stop] \/ list[i] \in handled \/ list[i].initShutdown
    OBVIOUS
  <2>1. CASE i \in apply
    <3>1. stop <= i /\ i \in Nat
      BY <1>2, <1>3, <2>1
    <3> QED
      BY <1>4, <3>1
  <2> QED
    BY <1>7, <2>1
<1>10. apply # {} => /\ stop \in DOMAIN list /\ list[stop] \in Network!Change
                     /\ list[stop].cycle <= cycle /\ list[stop] \notin handled
  BY <1>2, <1>3, <1>5
<1> HIDE DEF apply, seen
<1>11. /\ step.at = stop /\ step.seen = seen /\ step.ends = (apply = {})
       /\ apply = {} => step.account = acc
       /\ apply # {} => step.account = Network!Changed(acc, list[stop], cycle)
  BY <1>1
<1>12. Looped(step, acc, cycle, handled)
  BY <1>4, <1>6, <1>8, <1>9, <1>10, <1>11, Zenon DEF Looped, list
<1> QED
  BY <1>12 DEF step, acc

\* An account that has what it needs with some changes handled has it with none handled.
LEMMA RelatedFewer ==
  ASSUME NEW acc, NEW handled, NEW fewer, fewer \subseteq handled, NEW n, NEW cycle,
         Related(acc, handled, n, cycle)
  PROVE  Related(acc, fewer, n, cycle)
BY DEF Related

\* A change that is applied sets its values.  One that is newer in the validators' account is newer
\* than the change, and the account still gets it from a later change of its list.
LEMMA RelatedStep ==
  ASSUME NEW n \in Network!Account, NEW latest \in Nat, NEW cycle \in Nat, cycle <= latest,
         NEW acc \in Network!Account, NEW handled, Related(acc, handled, n, latest),
         NEW step, Looped(step, acc, cycle, handled),
         ~step.ends =>
           /\ ~(Len(step.account.changes) < Len(acc.changes))
           /\ \A s \in acc.changes[step.at].set :
                acc.current[s] > acc.changes[step.at].id =>
                  \E other \in Elements(acc.changes) \ handled : other.id = acc.current[s]
  PROVE  Related(step.account, handled \cup step.seen, n, latest)
<1> DEFINE list == acc.changes
           c == list[step.at]
           next == step.account
<1>1. /\ list \in Seq(Network!Change) /\ acc.current \in [Settings -> Nat]
      /\ n.current \in [Settings -> Nat]
  BY DEF Network!Account
<1>2. \A d \in Elements(list) : d \in Network!Change /\ d.id \in Nat /\ d.cycle \in Nat
  BY <1>1, AtPosition, ChangeFields
<1>3. \A d \in step.seen : d \in Elements(list) /\ d.cycle <= cycle
  BY DEF Looped
<1>4. CASE step.ends
  <2>1. next = acc /\ \A d \in step.seen : d \in handled \/ d.initShutdown
    BY <1>4 DEF Looped
  <2>2. SUFFICES ASSUME acc.timestamp = n.timestamp
                 PROVE  Related(acc, handled \cup step.seen, n, latest)
    BY <2>1 DEF Related
  <2>3. ASSUME NEW s \in Settings, NEW d \in Elements(list) \ handled, d.id = n.current[s]
        PROVE  d \notin step.seen
    <3>1. s \in d.set
      BY <2>2, <2>3 DEF Related
    <3>2. ~d.initShutdown
      BY <2>2, <3>1 DEF Related
    <3> QED
      BY <2>1, <2>3, <3>2
  <2> QED
    BY <2>2, <2>3 DEF Related
<1>5. CASE ~step.ends
  <2>1. /\ c \in Elements(list) /\ c \in Network!Change /\ c.cycle <= cycle /\ c \notin handled
        /\ next = Network!Changed(acc, c, cycle)
        /\ \A d \in step.seen : d = c \/ d \in handled \/ d.initShutdown
    BY <1>5 DEF Looped, Elements
  <2>2. /\ next.timestamp = acc.timestamp
        /\ next.changes = Network!pruneNetworkChangeQueue(list, cycle)
        /\ \A s \in Settings : next.current[s] = IF s \in c.set THEN c.id ELSE acc.current[s]
    <3>1. ChangedBy(Network!Changed(acc, c, cycle), acc, c, cycle)
      BY <2>1, ChangedTyped
    <3> QED
      BY <2>1, <3>1 DEF ChangedBy
  <2>3. /\ Selected(next.changes, list, cycle)
        /\ Elements(next.changes) = Elements(list)
    <3>1. ~(Len(next.changes) < Len(list))
      BY <1>5
    <3> HIDE DEF next, list
    <3> QED
      BY <1>1, <2>2, <3>1, Pruned
  <2>4. \A s \in c.set : acc.current[s] > c.id =>
          \E other \in Elements(list) \ handled : other.id = acc.current[s]
    BY <1>5
  <2> HIDE DEF c, next, list
  <2>5. SUFFICES ASSUME acc.timestamp = n.timestamp
                 PROVE  Related(next, handled \cup step.seen, n, latest)
    BY <2>2 DEF Related, next
  <2>6. /\ Increasing(list)
        /\ \A d \in Elements(list) : d.initShutdown => d.set = {}
        /\ \A d \in Elements(list) : \A s \in d.set : d.cycle <= latest => d.id <= n.current[s]
        /\ \A s \in Settings : \/ n.current[s] = acc.current[s]
                               \/ \E d \in Elements(list) \ handled : d.id = n.current[s]
        /\ \A d \in Elements(list), s \in Settings :
             d.id = n.current[s] => s \in d.set /\ d.cycle <= latest
        /\ LaterChanges(list, latest) = LaterChanges(n.changes, latest)
    BY <2>5 DEF Related, list
  <2>7. Increasing(next.changes)
    BY <2>3, <2>6, SelectedIncreasing
  \* A change not handled that gives the value is not among those seen, or is the one applied.
  <2>8. ASSUME NEW s \in Settings, NEW d \in Elements(list) \ handled, d.id = n.current[s]
        PROVE  d \notin handled \cup step.seen \/ (d = c /\ s \in c.set)
    <3>1. s \in d.set /\ ~d.initShutdown
      BY <2>6, <2>8
    <3> QED
      BY <2>1, <2>8, <3>1
  <2>9. ASSUME NEW s \in Settings
        PROVE  \/ n.current[s] = next.current[s]
               \/ \E d \in Elements(list) \ (handled \cup step.seen) : d.id = n.current[s]
    <3>1. CASE s \notin c.set
      <4>1. next.current[s] = acc.current[s]
        BY <2>2, <3>1
      <4> QED
        BY <2>6, <2>8, <3>1, <4>1
    <3>2. CASE s \in c.set
      <4>1. next.current[s] = c.id
        BY <2>2, <3>2
      <4>2. c.cycle <= latest
        BY <1>2, <2>1
      <4>3. c.id <= n.current[s] /\ c.id \in Nat /\ n.current[s] \in Nat
        BY <1>1, <1>2, <2>1, <2>6, <3>2, <4>2
      <4>4. CASE c.id = n.current[s]
        BY <4>1, <4>4
      <4>5. CASE c.id # n.current[s]
        <5>1. n.current[s] > c.id
          BY <4>3, <4>5
        <5>2. \E d \in Elements(list) \ handled : d.id = n.current[s]
          BY <2>4, <2>6, <3>2, <5>1
        <5> QED
          BY <2>8, <4>5, <5>2
      <4> QED
        BY <4>4, <4>5
    <3> QED
      BY <3>1, <3>2
  <2>10. LaterChanges(next.changes, latest) = LaterChanges(n.changes, latest)
    BY <2>3, <2>6 DEF LaterChanges
  <2> QED
    BY <2>3, <2>6, <2>7, <2>9, <2>10 DEF Related
<1> QED
  BY <1>4, <1>5

\* What an update does until it writes the account acc, or ends.
Proceeded(cycle, acc) ==
  /\ applied' \subseteq Network!Change /\ \A c \in applied' : c \in applied \/ c.cycle <= cycle
  /\ DOMAIN updates' \subseteq DOMAIN updates \cup {cycle}
  /\ \A c \in DOMAIN updates' :
       IF c = cycle
       THEN /\ updates'[c].account \in Network!Account /\ updates'[c].at \in Nat
            /\ updates'[c].account.timestamp = acc.timestamp
       ELSE updates'[c] = updates[c]
  /\ Related(acc, applied, net, netCycle) /\ ~Network!Spoilt(cycle, updates') =>
       IF cycle \in DOMAIN updates'
       THEN Related(updates'[cycle].account, applied', net, netCycle)
       ELSE Related(acc, applied', net, netCycle)

\* updateGlobalNetworkAccount from one of its changes on, whatever it awaits meanwhile, keeps the
\* invariant (GlobalAccount.ts).
LEMMA ProceedKeeps ==
  ASSUME net \in Network!Account, netCycle \in Nat, applied \subseteq Network!Change,
         NEW cycle \in Nat, cycle <= netCycle,
         NEW path, path.account \in Network!Account, NEW from \in Nat \ {0},
         Network!Proceed(cycle, path, from)
  PROVE  Proceeded(cycle, path.account)
<1> DEFINE acc == path.account
           step == Network!Loop(path, from, cycle, applied)
           seen == path.active \cup step.seen
           spoilt == \/ Len(step.account.changes) < Len(acc.changes)
                     \/ ~step.ends /\ Network!SetsBack(acc, acc.changes[step.at])
           next == [account |-> step.account, at |-> step.at, active |-> seen,
                    spoilt |-> spoilt]
<1>1. IF step.ends
      THEN /\ applied' = Network!Kept(applied \cup step.seen, seen)
           /\ updates' = [c \in DOMAIN updates \ {cycle} |-> updates[c]]
      ELSE /\ applied' = applied \cup step.seen
           /\ updates' = [c \in DOMAIN updates \cup {cycle} |->
                            IF c = cycle THEN next ELSE updates[c]]
  BY Zenon DEF Network!Proceed
<1>2. Looped(step, acc, cycle, applied)
  BY LoopStep
<1>3. \A d \in step.seen : d \in Network!Change /\ d.cycle <= cycle
  BY <1>2 DEF Looped
<1>4. next.account = step.account /\ next.at = step.at /\ next.spoilt = spoilt
  OBVIOUS
<1>5. spoilt = (\/ Len(step.account.changes) < Len(acc.changes)
                \/ ~step.ends /\ Network!SetsBack(acc, acc.changes[step.at]))
  OBVIOUS
<1> HIDE DEF step, next, seen, spoilt, acc
<1>6. CASE step.ends
  <2>1. /\ applied' \subseteq applied \cup step.seen
        /\ updates' = [c \in DOMAIN updates \ {cycle} |-> updates[c]]
    BY <1>1, <1>6 DEF Network!Kept
  <2>2. step.account = acc
    BY <1>2, <1>6 DEF Looped
  <2>3. Related(acc, applied, net, netCycle) => Related(acc, applied', net, netCycle)
    <3> SUFFICES ASSUME Related(acc, applied, net, netCycle)
                 PROVE  Related(acc, applied', net, netCycle)
      OBVIOUS
    <3>1. Related(step.account, applied \cup step.seen, net, netCycle)
      BY <1>2, <1>6, RelatedStep DEF acc
    <3> QED
      BY <2>1, <2>2, <3>1, RelatedFewer
  <2>4. Proceeded(cycle, acc)
    BY <1>3, <2>1, <2>3 DEF Proceeded
  <2> QED
    BY <2>4 DEF acc
<1>7. CASE ~step.ends
  <2>1. /\ applied' = applied \cup step.seen
        /\ DOMAIN updates' = DOMAIN updates \cup {cycle}
        /\ updates'[cycle] = next
        /\ \A c \in DOMAIN updates' : c # cycle => updates'[c] = updates[c]
    BY <1>1, <1>7
  <2>2. /\ acc.changes[step.at] \in Network!Change
        /\ step.account = Network!Changed(acc, acc.changes[step.at], cycle)
        /\ step.at \in Nat
    BY <1>2, <1>7 DEF Looped
  <2>3. step.account \in Network!Account /\ step.account.timestamp = acc.timestamp
    <3>1. ChangedBy(step.account, acc, acc.changes[step.at], cycle)
      BY <2>2, ChangedTyped DEF acc
    <3> QED
      BY <3>1 DEF ChangedBy
  <2>4. ASSUME Related(acc, applied, net, netCycle), ~Network!Spoilt(cycle, updates')
        PROVE  Related(step.account, applied', net, netCycle)
    <3>1. ~spoilt
      BY <1>4, <2>1, <2>4 DEF Network!Spoilt
    <3>2. ~(Len(step.account.changes) < Len(acc.changes))
          /\ ~Network!SetsBack(acc, acc.changes[step.at])
      BY <1>5, <1>7, <3>1
    <3>3. \A s \in acc.changes[step.at].set :
            acc.current[s] > acc.changes[step.at].id =>
              \E other \in Elements(acc.changes) \ applied : other.id = acc.current[s]
      BY <3>2 DEF Network!SetsBack, Network!ToSet, Elements
    <3>4. Related(step.account, applied \cup step.seen, net, netCycle)
      BY <1>2, <2>4, <3>2, <3>3, RelatedStep DEF acc
    <3> QED
      BY <2>1, <3>4
  <2>5. Proceeded(cycle, acc)
    BY <1>3, <1>4, <2>1, <2>2, <2>3, <2>4 DEF Proceeded
  <2> QED
    BY <2>5 DEF acc
<1> QED
  BY <1>6, <1>7

\* The types of the state, part by part.
AccountTypes ==
  /\ done \in Nat /\ netCycle \in Nat /\ done <= netCycle /\ netCycle <= MaxNetworkCycle
  /\ net \in Network!Account /\ receipts \subseteq Network!Account
  /\ account \in Network!Account \cup {Network!NoAccount}
  /\ stored \in Network!Account \cup {Network!NoAccount}
  /\ applied \subseteq Network!Change /\ DOMAIN updates \subseteq 1..done
  /\ disturbed \in BOOLEAN /\ restarts \in Nat /\ restarts <= MaxRestarts

\* They follow from the type invariant.
LEMMA AccountParts ==
  (Network!TypeOK <=> AccountTypes) /\ (Network!TypeOK' <=> AccountTypes')
<1>1. Network!TypeOK <=> AccountTypes
  BY Constants DEF Network!TypeOK, AccountTypes
<1>2. Network!TypeOK' <=> AccountTypes'
  BY Constants DEF Network!TypeOK, AccountTypes
<1> QED
  BY <1>1, <1>2

\* The first account is the validators' own.
LEMMA FollowInit == Network!Init => FollowInv
<1> SUFFICES ASSUME Network!Init PROVE FollowInv
  OBVIOUS
<1>1. /\ netCycle = 0 /\ done = 0 /\ restarts = 0
      /\ net = [timestamp |-> 1, changes |-> <<>>, current |-> [s \in Settings |-> 0]]
      /\ account \in {Network!NoAccount, net} /\ stored = account
      /\ receipts = {} /\ applied = {} /\ updates = <<>> /\ disturbed = FALSE
  BY DEF Network!Init
<1>2. net \in Network!Account
  BY <1>1 DEF Network!Account
<1>3. DOMAIN updates = {}
  BY <1>1
<1>4. Network!TypeOK
  <2>1. account \in Network!Account \cup {Network!NoAccount}
    BY <1>1, <1>2
  <2>2. done \in Nat /\ netCycle \in Nat /\ done <= netCycle /\ netCycle <= MaxNetworkCycle
        /\ restarts \in Nat /\ restarts <= MaxRestarts
    BY <1>1, Constants
  <2> QED
    BY <1>1, <1>2, <1>3, <2>1, <2>2, AccountParts DEF AccountTypes
<1>5. Network!NoAccount.timestamp = 0 /\ net.timestamp = 1
  BY <1>1 DEF Network!NoAccount
<1>6. \A acc \in Accounts : acc.timestamp <= net.timestamp
  BY <1>1, <1>3, <1>5 DEF Accounts
<1>7. Elements(net.changes) = {} /\ DOMAIN net.changes = {}
  BY <1>1 DEF Elements
<1>8. Consistent(net, netCycle) /\ Related(net, {}, net, netCycle)
  BY <1>1, <1>7 DEF Consistent, Related, Increasing, LaterChanges
<1>9. Related(account, {}, net, netCycle)
  BY <1>1, <1>5, <1>8 DEF Related
<1> QED
  BY <1>1, <1>3, <1>4, <1>6, <1>8, <1>9 DEF FollowInv

\* An account older than the validators' one is related to anything.
LEMMA Older ==
  ASSUME NEW acc, NEW n, NEW handled, NEW cycle, acc.timestamp < n.timestamp,
         acc.timestamp \in Nat, n.timestamp \in Nat
  PROVE  Related(acc, handled, n, cycle)
BY DEF Related

\* Timestamps of accounts are numbers.
LEMMA Timestamps ==
  ASSUME AccountTypes, \A c \in DOMAIN updates : updates[c].account \in Network!Account
  PROVE  net.timestamp \in Nat /\ \A acc \in Accounts : acc.timestamp \in Nat
<1>1. \A acc \in Network!Account \cup {Network!NoAccount} : acc.timestamp \in Nat
  BY DEF Network!Account, Network!NoAccount
<1> QED
  BY <1>1 DEF AccountTypes, Accounts

\* A change of the configuration is listed by the validators.
LEMMA ListChangeKeeps ==
  ASSUME FollowInv, Network!ListChange
  PROVE  FollowInv'
<1>1. AccountTypes /\ \A c \in DOMAIN updates : updates[c].account \in Network!Account
  BY AccountParts DEF FollowInv
<1>2. PICK due \in (netCycle + 1)..(MaxNetworkCycle + 1), set \in SUBSET Settings :
        /\ net.timestamp <= MaxConfigChanges
        /\ \A c \in Elements(net.changes) : c.cycle <= due
        /\ net' = Listing(net, due, set)
        /\ receipts' = receipts \cup {net'}
        /\ UNCHANGED <<netCycle, done, account, stored, applied, updates, disturbed, restarts>>
  BY DEF Network!ListChange, Network!ToSet, Elements, Listing
<1>3. /\ net' \in Network!Account /\ net'.timestamp = net.timestamp + 1
      /\ Consistent(net', netCycle) /\ Related(net', {}, net', netCycle)
  BY <1>1, <1>2, ListedNext DEF AccountTypes, FollowInv
<1>4. Network!TypeOK'
  BY <1>1, <1>2, <1>3, AccountParts DEF AccountTypes
<1>5. /\ net.timestamp \in Nat
      /\ \A acc \in Accounts : /\ acc.timestamp \in Nat /\ acc.timestamp < net'.timestamp
                               /\ acc.timestamp <= net'.timestamp
  <2>1. net.timestamp \in Nat /\ \A acc \in Accounts : acc.timestamp \in Nat
    BY <1>1, Timestamps
  <2>2. \A acc \in Accounts : acc.timestamp <= net.timestamp
    BY DEF FollowInv
  <2> QED
    BY <1>3, <2>1, <2>2
<1>6. \A acc \in Accounts : \A handled : Related(acc, handled, net', netCycle)
  BY <1>3, <1>5, Older
<1>7. Accounts' = Accounts \cup {net'}
  BY <1>2 DEF Accounts
<1>8. account \in Accounts /\ receipts \subseteq Accounts
      /\ \A c \in DOMAIN updates : updates[c].account \in Accounts
  BY DEF Accounts
<1>9. net'.timestamp <= net'.timestamp
  BY <1>3, <1>5
<1> QED
  BY <1>2, <1>3, <1>4, <1>5, <1>6, <1>7, <1>8, <1>9 DEF FollowInv

\* The validators apply the changes of their next cycle.
LEMMA NetworkCycleKeeps ==
  ASSUME FollowInv, Network!NetworkCycle
  PROVE  FollowInv'
<1>1. AccountTypes /\ \A c \in DOMAIN updates : updates[c].account \in Network!Account
  BY AccountParts DEF FollowInv
<1>2. /\ netCycle' = netCycle + 1 /\ netCycle < MaxNetworkCycle
      /\ UNCHANGED <<receipts, done, account, stored, applied, updates, disturbed, restarts>>
  BY DEF Network!NetworkCycle
<1>3. Effect(net', net, netCycle + 1, Len(net.changes))
  <2>1. net' = Network!FoldLeft(LAMBDA acc, change :
                                  IF change.cycle = netCycle'
                                  THEN Network!Changed(acc, change, netCycle') ELSE acc,
                                net, net.changes)
    BY DEF Network!NetworkCycle
  <2>2. net \in Network!Account /\ netCycle' \in Nat
    BY <1>1, <1>2 DEF AccountTypes
  <2>3. Effect(Network!FoldLeft(LAMBDA acc, change :
                                  IF change.cycle = netCycle'
                                  THEN Network!Changed(acc, change, netCycle') ELSE acc,
                                net, net.changes),
               net, netCycle', Len(net.changes))
    BY <2>2, FoldedCycle
  <2>4. Effect(net', net, netCycle', Len(net.changes))
    BY <2>1, <2>3
  <2> QED
    BY <1>2, <2>4
<1>4. /\ net' \in Network!Account /\ net'.timestamp = net.timestamp
      /\ Consistent(net', netCycle') /\ Related(net', {}, net', netCycle')
  BY <1>1, <1>2, <1>3, ConsistentNext DEF AccountTypes, FollowInv, Effect
<1>5. Network!TypeOK'
  BY <1>1, <1>2, <1>4, AccountParts, Constants DEF AccountTypes
<1>6. \A c \in applied : c.cycle <= netCycle
  <2>1. \A c \in applied : c.cycle \in Nat
    BY <1>1, ChangeFields DEF AccountTypes
  <2> QED
    BY <1>1, <2>1 DEF FollowInv, AccountTypes
<1>7. ASSUME NEW acc \in Accounts, NEW handled \in {{}, applied},
             Related(acc, handled, net, netCycle)
      PROVE  Related(acc, handled, net', netCycle')
  <2>1. acc.timestamp = net.timestamp => acc \in Network!Account
    <3>1. Network!NoAccount.timestamp = 0 /\ net.timestamp # 0
      BY <1>1 DEF Network!NoAccount, FollowInv, Consistent, AccountTypes, Network!Account
    <3> QED
      BY <1>1, <3>1 DEF Accounts, AccountTypes
  <2>2. \A c \in handled : c.cycle <= netCycle
    BY <1>6
  <2>3. net \in Network!Account /\ netCycle \in Nat /\ Consistent(net, netCycle)
        /\ Related(net, {}, net, netCycle)
    BY <1>1 DEF AccountTypes, FollowInv
  <2>4. Related(acc, handled, net', netCycle + 1)
    BY <1>3, <1>7, <2>1, <2>2, <2>3, RelatedNext
  <2> QED
    BY <1>2, <2>4
<1>8. Accounts' = Accounts
  BY <1>2 DEF Accounts
<1>9. account \in Accounts /\ receipts \subseteq Accounts
      /\ \A c \in DOMAIN updates : updates[c].account \in Accounts
  BY DEF Accounts
<1> QED
  BY <1>2, <1>4, <1>5, <1>7, <1>8, <1>9 DEF FollowInv

\* The archiver processes the record of its next cycle.
LEMMA ProcessCycleKeeps ==
  ASSUME FollowInv, Network!ProcessCycle
  PROVE  FollowInv'
<1>1. /\ AccountTypes /\ \A c \in applied : c.cycle <= done
      /\ \A c \in DOMAIN updates : updates[c].account \in Network!Account /\ updates[c].at \in Nat
  BY AccountParts DEF FollowInv
<1>2. /\ done < netCycle /\ done' = done + 1
      /\ disturbed' = (disturbed \/ updates # <<>> \/ Network!Spoilt(done', updates'))
      /\ UNCHANGED <<netCycle, net, receipts, account, stored, restarts>>
  BY DEF Network!ProcessCycle
<1>3. /\ done' \in Nat /\ done' <= netCycle /\ DOMAIN updates \subseteq 1..done'
      /\ \A c \in applied : c.cycle <= done'
  <2>1. \A c \in applied : c.cycle \in Nat
    BY <1>1, ChangeFields DEF AccountTypes
  <2> QED
    BY <1>1, <1>2, <2>1 DEF AccountTypes
<1>4. CASE account = Network!NoAccount
  <2>1. UNCHANGED <<applied, updates>>
    BY <1>4 DEF Network!ProcessCycle
  <2>2. Network!TypeOK'
    BY <1>1, <1>2, <1>3, <2>1, AccountParts DEF AccountTypes
  <2>3. Accounts' = Accounts
    BY <1>2, <2>1 DEF Accounts
  <2>4. ~disturbed' => ~disturbed /\ updates = <<>> /\ DOMAIN updates = {}
    <3>1. updates = <<>> => DOMAIN updates = {}
      OBVIOUS
    <3> QED
      BY <1>2, <3>1
  <2> QED
    BY <1>1, <1>2, <1>3, <2>1, <2>2, <2>3, <2>4 DEF FollowInv
<1>5. CASE account # Network!NoAccount
  <2> DEFINE path == [account |-> account, active |-> {}]
  <2>1. Network!Proceed(done', path, 1)
    BY <1>5 DEF Network!ProcessCycle
  <2>2. path.account = account /\ account \in Network!Account
    BY <1>1, <1>5 DEF AccountTypes
  <2> HIDE DEF path
  <2>3. Proceeded(done', account)
    <3>1. Proceeded(done', path.account)
      BY <1>1, <1>3, <2>1, <2>2, ProceedKeeps DEF AccountTypes
    <3> QED
      BY <2>2, <3>1
  <2>4. Network!TypeOK'
    <3>1. done' \in 1..done'
      BY <1>1, <1>2, <1>3 DEF AccountTypes
    <3>2. DOMAIN updates' \subseteq 1..done'
      BY <1>3, <2>3, <3>1 DEF Proceeded
    <3>3. applied' \subseteq Network!Change
      BY <2>3 DEF Proceeded
    <3>4. disturbed' \in BOOLEAN
      BY <1>2
    <3> QED
      BY <1>1, <1>2, <1>3, <3>2, <3>3, <3>4, AccountParts DEF AccountTypes
  <2>5. \A c \in DOMAIN updates' : /\ updates'[c].account \in Network!Account
                                   /\ updates'[c].at \in Nat
                                   /\ updates'[c].account.timestamp <= net.timestamp
    <3>1. account.timestamp <= net.timestamp
          /\ \A c \in DOMAIN updates : updates[c].account.timestamp <= net.timestamp
      BY DEF FollowInv, Accounts
    <3>2. ASSUME NEW c \in DOMAIN updates'
          PROVE  c = done' \/ (c \in DOMAIN updates /\ updates'[c] = updates[c])
      BY <2>3 DEF Proceeded
    <3>3. ASSUME done' \in DOMAIN updates'
          PROVE  /\ updates'[done'].account \in Network!Account /\ updates'[done'].at \in Nat
                 /\ updates'[done'].account.timestamp = account.timestamp
      BY <2>3, <3>3 DEF Proceeded
    <3> QED
      BY <1>1, <3>1, <3>2, <3>3
  <2>6. \A acc \in Accounts' : acc.timestamp <= net'.timestamp
    BY <1>2, <2>5 DEF FollowInv, Accounts
  <2>7. \A c \in applied' : c.cycle <= done'
    BY <1>3, <2>3 DEF Proceeded
  <2>8. ASSUME ~disturbed'
        PROVE  /\ updates' = <<>> => Related(account, applied', net, netCycle)
               /\ \A c \in DOMAIN updates' :
                    c = done' /\ Related(updates'[c].account, applied', net, netCycle)
    <3>1. ~disturbed /\ updates = <<>> /\ ~Network!Spoilt(done', updates')
      BY <1>2, <2>8
    <3>2. Related(account, applied, net, netCycle)
      BY <3>1 DEF FollowInv
    <3>3. DOMAIN updates = {}
      BY <3>1
    <3>4. \A c \in DOMAIN updates' : c = done'
      BY <2>3, <3>3 DEF Proceeded
    <3>5. IF done' \in DOMAIN updates'
          THEN Related(updates'[done'].account, applied', net, netCycle)
          ELSE Related(account, applied', net, netCycle)
      BY <2>3, <3>1, <3>2 DEF Proceeded
    <3>6. updates' = <<>> => done' \notin DOMAIN updates'
      OBVIOUS
    <3> QED
      BY <3>4, <3>5, <3>6
  <2> QED
    BY <1>2, <2>4, <2>5, <2>6, <2>7, <2>8 DEF FollowInv
<1> QED
  BY <1>4, <1>5

\* An update that waited for the database goes on.
LEMMA AccountUpdatedKeeps ==
  ASSUME FollowInv, Network!AccountUpdated
  PROVE  FollowInv'
<1>1. /\ AccountTypes /\ \A c \in applied : c.cycle <= done
      /\ \A c \in DOMAIN updates : updates[c].account \in Network!Account /\ updates[c].at \in Nat
  BY AccountParts DEF FollowInv
<1>2. PICK cycle \in DOMAIN updates :
        /\ account' = updates[cycle].account
        /\ stored' = updates[cycle].account
        /\ Network!Proceed(cycle, updates[cycle], updates[cycle].at + 1)
        /\ disturbed' = (disturbed \/ Network!Spoilt(cycle, updates'))
        /\ UNCHANGED <<netCycle, net, receipts, done, restarts>>
  BY DEF Network!AccountUpdated
<1> DEFINE acc == updates[cycle].account
<1>3. /\ cycle \in Nat /\ cycle <= done /\ cycle <= netCycle /\ updates[cycle].at + 1 \in Nat \ {0}
      /\ cycle \in 1..done /\ done \in Nat
  <2>1. cycle \in 1..done /\ done \in Nat /\ done <= netCycle /\ netCycle \in Nat
    BY <1>1 DEF AccountTypes
  <2>2. updates[cycle].at \in Nat
    BY <1>1
  <2> QED
    BY <2>1, <2>2
<1>4. acc \in Network!Account
  BY <1>1
<1>5. Proceeded(cycle, acc)
  BY <1>1, <1>2, <1>3, <1>4, ProceedKeeps DEF AccountTypes
<1>6. account' = acc /\ stored' = acc
  BY <1>2
<1>7. acc.timestamp <= net.timestamp /\ (~disturbed => cycle = done /\ Related(acc, applied, net, netCycle))
  BY DEF FollowInv, Accounts
<1> HIDE DEF acc
<1>8. Network!TypeOK'
  <2>1. DOMAIN updates' \subseteq 1..done /\ applied' \subseteq Network!Change
    BY <1>1, <1>3, <1>5 DEF Proceeded, AccountTypes
  <2>2. disturbed' \in BOOLEAN
    BY <1>1, <1>2 DEF AccountTypes
  <2> QED
    BY <1>1, <1>2, <1>4, <1>6, <2>1, <2>2, AccountParts DEF AccountTypes
<1>9. \A c \in DOMAIN updates' : /\ updates'[c].account \in Network!Account
                                 /\ updates'[c].at \in Nat
                                 /\ updates'[c].account.timestamp <= net.timestamp
  <2>1. \A c \in DOMAIN updates : updates[c].account.timestamp <= net.timestamp
    BY DEF FollowInv, Accounts
  <2>2. ASSUME NEW c \in DOMAIN updates', c # cycle
        PROVE  c \in DOMAIN updates /\ updates'[c] = updates[c]
    BY <1>5, <2>2 DEF Proceeded
  <2>3. ASSUME cycle \in DOMAIN updates'
        PROVE  /\ updates'[cycle].account \in Network!Account /\ updates'[cycle].at \in Nat
               /\ updates'[cycle].account.timestamp = acc.timestamp
    BY <1>5, <2>3 DEF Proceeded
  <2> QED
    BY <1>1, <1>7, <2>1, <2>2, <2>3
<1>10. \A a \in Accounts' : a.timestamp <= net'.timestamp
  BY <1>2, <1>6, <1>7, <1>9 DEF FollowInv, Accounts
<1>11. \A c \in applied' : c.cycle <= done
  <2>1. \A c \in applied' : c.cycle \in Nat /\ (c \in applied \/ c.cycle <= cycle)
    BY <1>5, ChangeFields DEF Proceeded
  <2> QED
    BY <1>1, <1>3, <2>1
<1>12. ASSUME ~disturbed'
       PROVE  /\ updates' = <<>> => Related(acc, applied', net, netCycle)
              /\ \A c \in DOMAIN updates' :
                   c = done /\ Related(updates'[c].account, applied', net, netCycle)
  <2>1. ~disturbed /\ ~Network!Spoilt(cycle, updates')
    BY <1>2, <1>12
  <2>2. cycle = done /\ Related(acc, applied, net, netCycle)
    BY <1>7, <2>1
  <2>3. \A c \in DOMAIN updates : c = done
    BY <2>1 DEF FollowInv
  <2>4. \A c \in DOMAIN updates' : c = cycle
    BY <1>5, <2>2, <2>3 DEF Proceeded
  <2>5. IF cycle \in DOMAIN updates'
        THEN Related(updates'[cycle].account, applied', net, netCycle)
        ELSE Related(acc, applied', net, netCycle)
    BY <1>5, <2>1, <2>2 DEF Proceeded
  <2>6. updates' = <<>> => cycle \notin DOMAIN updates'
    OBVIOUS
  <2> QED
    BY <2>2, <2>4, <2>5, <2>6
<1> QED
  BY <1>2, <1>6, <1>8, <1>9, <1>10, <1>11, <1>12 DEF FollowInv

\* A receipt brings the account as it was when the receipt was made.
LEMMA CollectReceiptKeeps ==
  ASSUME FollowInv, Network!CollectReceipt
  PROVE  FollowInv'
<1>1. AccountTypes
  BY AccountParts DEF FollowInv
<1>2. PICK acc \in receipts :
        /\ account' = acc
        /\ stored' = IF stored = Network!NoAccount \/ acc.timestamp > stored.timestamp
                     THEN acc ELSE stored
        /\ receipts' = receipts \ {acc}
        /\ disturbed' = (Network!BadMoment(acc) \/ (disturbed /\ acc # net))
        /\ UNCHANGED <<netCycle, net, done, applied, updates, restarts>>
  BY DEF Network!CollectReceipt
<1>3. acc \in Network!Account
  BY <1>1 DEF AccountTypes
<1>4. Network!TypeOK'
  <2>1. disturbed' \in BOOLEAN
    BY <1>1, <1>2 DEF AccountTypes, Network!BadMoment
  <2>2. stored' \in Network!Account \cup {Network!NoAccount}
    BY <1>1, <1>2, <1>3 DEF AccountTypes
  <2> QED
    BY <1>1, <1>2, <1>3, <2>1, <2>2, AccountParts DEF AccountTypes
<1>5. \A a \in Accounts' : a.timestamp <= net'.timestamp
  <2>1. Accounts' \subseteq Accounts
    BY <1>2 DEF Accounts
  <2> QED
    BY <1>2, <2>1 DEF FollowInv
<1>6. ASSUME ~disturbed'
      PROVE  updates = <<>> /\ Related(acc, applied, net, netCycle)
  <2>1. updates = <<>> /\ (acc = net \/ \A i \in DOMAIN acc.changes : acc.changes[i] \notin applied)
    BY <1>2, <1>6 DEF Network!BadMoment
  <2>2. Related(acc, {}, net, netCycle) /\ Related(net, {}, net, netCycle)
    BY DEF FollowInv
  <2>3. CASE acc = net
    BY <2>1, <2>2, <2>3 DEF Related
  <2>4. CASE \A i \in DOMAIN acc.changes : acc.changes[i] \notin applied
    <3>1. Elements(acc.changes) \ applied = Elements(acc.changes) \ {}
      BY <2>4 DEF Elements
    <3> QED
      BY <2>1, <2>2, <3>1 DEF Related
  <2> QED
    BY <2>1, <2>3, <2>4
<1>7. updates = <<>> => DOMAIN updates = {}
  OBVIOUS
<1> QED
  BY <1>2, <1>4, <1>5, <1>6, <1>7 DEF FollowInv

\* The archiver is started again with the account that it stored or is sent.
LEMMA RestartKeeps ==
  ASSUME FollowInv, Network!Restart
  PROVE  FollowInv'
<1>1. AccountTypes
  BY AccountParts DEF FollowInv
<1>2. /\ restarts < MaxRestarts /\ restarts' = restarts + 1
      /\ applied' = {} /\ updates' = <<>> /\ stored' = stored
      /\ UNCHANGED <<netCycle, net, receipts>>
      /\ \/ /\ account' = stored /\ done' = done
            /\ disturbed' = (disturbed \/ account # stored \/ updates # <<>>)
         \/ account' = net /\ done' = netCycle /\ disturbed' = FALSE
         \/ account' = Network!NoAccount /\ done' = done /\ disturbed' = FALSE
  BY DEF Network!Restart
<1>3. DOMAIN updates' = {}
  BY <1>2
<1>4. /\ account' \in Network!Account \cup {Network!NoAccount}
      /\ disturbed' \in BOOLEAN /\ done' \in Nat /\ done' <= netCycle
  <2>1. done' \in Nat /\ done' <= netCycle
    <3>1. netCycle <= netCycle
      BY <1>1 DEF AccountTypes
    <3> QED
      BY <1>1, <1>2, <3>1 DEF AccountTypes
  <2>2. account' \in Network!Account \cup {Network!NoAccount}
    BY <1>1, <1>2 DEF AccountTypes
  <2>3. disturbed' \in BOOLEAN
    BY <1>1, <1>2 DEF AccountTypes
  <2> QED
    BY <2>1, <2>2, <2>3
<1>5. Network!TypeOK'
  BY <1>1, <1>2, <1>3, <1>4, AccountParts, Constants DEF AccountTypes
<1>6. Network!NoAccount.timestamp = 0 /\ net.timestamp \in Nat /\ net.timestamp > 0
  BY <1>1 DEF Network!NoAccount, AccountTypes, Network!Account, FollowInv, Consistent
<1>7. \A acc \in Accounts' : acc.timestamp <= net'.timestamp
  <2>1. Accounts' = {account', stored} \cup receipts
    BY <1>2, <1>3 DEF Accounts
  <2>2. account'.timestamp <= net.timestamp
    BY <1>2, <1>6 DEF FollowInv, Accounts
  <2> QED
    BY <1>2, <2>1, <2>2 DEF FollowInv, Accounts
<1>8. ~disturbed' => Related(account', {}, net, netCycle)
  <2>1. ASSUME account' = stored, ~disturbed, account = stored, updates = <<>>
        PROVE  Related(account', {}, net, netCycle)
    BY <2>1, RelatedFewer DEF FollowInv
  <2>2. Related(net, {}, net, netCycle)
    BY DEF FollowInv
  <2>3. Related(Network!NoAccount, {}, net, netCycle)
    BY <1>6, Older
  <2> QED
    BY <1>2, <2>1, <2>2, <2>3
<1> QED
  BY <1>2, <1>3, <1>5, <1>7, <1>8 DEF FollowInv

\* The values in force are those of the validators.
LEMMA Follows == FollowInv => FollowsNetwork
<1> SUFFICES ASSUME FollowInv, account # Network!NoAccount, account.timestamp = net.timestamp,
                    done = netCycle, updates = <<>>, ~disturbed, Network!Outstanding = {}
             PROVE  account.current = net.current
  BY DEF FollowInv, FollowsNetwork, Network!FollowsNetwork
<1>1. /\ account \in Network!Account /\ net \in Network!Account /\ done \in Nat
  BY AccountParts DEF FollowInv, AccountTypes
<1>2. /\ account.changes \in Seq(Network!Change)
      /\ account.current \in [Settings -> Nat] /\ net.current \in [Settings -> Nat]
  BY <1>1 DEF Network!Account
<1>3. Related(account, applied, net, netCycle)
  BY DEF FollowInv
<1>4. ASSUME NEW s \in Settings
      PROVE  account.current[s] = net.current[s]
  <2> SUFFICES ASSUME account.current[s] # net.current[s] PROVE FALSE
    OBVIOUS
  <2>1. PICK c \in Elements(account.changes) \ applied : c.id = net.current[s]
    BY <1>3 DEF Related
  <2>2. c.cycle <= done
    BY <1>3, <2>1 DEF Related
  <2>3. c.cycle \in Nat
    BY <1>2, AtPosition, ChangeFields
  <2>4. c \in Network!Outstanding
    BY <1>1, <2>2, <2>3 DEF Network!Outstanding, Network!ToSet, Network!Future, Elements
  <2> QED
    BY <2>4
<1> QED
  BY <1>2, <1>4

\* Once an archiver has the account that the validators have, has processed the cycles they have
\* and handled the changes that are due, its values are theirs, in whatever order it got the
\* receipts and the records (updateGlobalNetworkAccount and setGlobalNetworkAccount,
\* GlobalAccount.ts), unless it was set at a bad moment.
THEOREM AccountFollows == Network!Spec => []FollowsNetwork
<1>1. FollowInv /\ [Network!Next]_Network!vars => FollowInv'
  <2> SUFFICES ASSUME FollowInv, [Network!Next]_Network!vars PROVE FollowInv'
    OBVIOUS
  <2>1. CASE UNCHANGED Network!vars
    BY <2>1 DEF Network!vars, FollowInv, Network!TypeOK, Accounts
  <2> QED
    BY <2>1, ListChangeKeeps, NetworkCycleKeeps, ProcessCycleKeeps, AccountUpdatedKeeps,
       CollectReceiptKeeps, RestartKeeps DEF Network!Next
<1> QED
  BY <1>1, FollowInit, Follows, PTL DEF Network!Spec
=============================================================================

--------------------- MODULE ReceiptCollectionProofs ----------------------
(***************************************************************************)
(* Proofs about ReceiptCollection, for any set of receipts, any batches    *)
(* and any number of calls that overlap.  First the shape of a suspended   *)
(* call, which tells how many rows its queues hold at each await; from it  *)
(* that receipts are inserted before the processed transactions that refer *)
(* to them; that one call at a time validates a receipt; and that a row    *)
(* gives way to a lesser one only to a call that has not seen it.          *)
(***************************************************************************)
EXTENDS ReceiptCollection, WellFoundedInduction, TLAPS

\* A copy that is being handled, or its transaction, is among the receipts to insert.
Holds(k, c) == \E j \in DOMAIN k.receipts : k.receipts[j].copy = c

\* Every copy that is through has added one receipt and one processed transaction, the
\* one whose account states are being handled only the receipt; since then whole
\* buckets of receipts have been written, m of them.
Counted(k) ==
  k.todo # <<>> =>
    \E m \in Nat : Len(k.txs) + (IF k.states = <<>> THEN 0 ELSE 1)
                     = Len(k.receipts) + m * receiptsPerInsert

Ready(k) ==
  /\ Len(k.receipts) <= receiptsPerInsert
  /\ Len(k.txs) <= bucketSize
  /\ k.states # <<>> =>
       /\ k.todo # <<>>
       /\ Len(k.txs) < bucketSize
       /\ Holds(k, Head(k.todo))
  /\ Counted(k)

\* What holds of a suspended call at each of its awaits.
Shape(k) ==
  /\ Ready(k)
  /\ k.pc \in {"next", "verify", "decide"} =>
       /\ k.todo # <<>>
       /\ Len(k.receipts) < receiptsPerInsert
       /\ Len(k.txs) < bucketSize
  /\ k.pc \in {"account", "apply"} <=> k.states # <<>>
  /\ k.pc = "insertReceipts" /\ k.todo # <<>> => Len(k.receipts) = receiptsPerInsert
  /\ k.pc = "insertTxs" => k.receipts = <<>>

ShapeInv == \A n \in Caller : Shape(calls[n])

-----------------------------------------------------------------------------
(* Operators on calls *)

LEMMA TimeType == Time \subseteq Nat \ {0} /\ \A c \in Copy : TimeOf[c] \in Time
  BY CopyAssumption DEF Time

LEMMA IdleType == Idle \in Call /\ Shape(Idle)
<1>1. Idle \in Call
  BY DEF Idle, Call, PC
<1>2. Shape(Idle)
  BY BucketAssumption DEF Idle, Shape, Ready, Counted
<1> QED
  BY <1>1, <1>2

\* A multiple of a bucket which is less than a bucket is none.
LEMMA LessThanBucket ==
  ASSUME NEW R \in Nat \ {0}, NEW q \in Nat, NEW m \in Nat, NEW r \in Nat,
         q * R = r + m * R, r < R
  PROVE  r = 0
<1>1. q * R - m * R = (q - m) * R
  OBVIOUS
<1>2. CASE q - m <= 0
  <2>1. (q - m) * R <= 0
    BY <1>2
  <2> QED
    BY <1>1, <2>1
<1>3. CASE q - m >= 1
  <2>1. (q - m) * R >= R
    BY <1>3
  <2> QED
    BY <1>1, <2>1
<1> QED
  BY <1>2, <1>3

\* Where a call goes on: the buckets that are full are written first.
LEMMA StageOf ==
  ASSUME NEW k \in Call, Ready(k)
  PROVE  Resumed(k) \in Call /\ Shape(Resumed(k))
<1> DEFINE pc == NextStage(k)
           j == [k EXCEPT !.pc = pc]
<1>1. pc \in PC
  BY DEF NextStage, PC
<1>2. j \in Call
  BY <1>1 DEF Call
<1>3. /\ j.todo = k.todo /\ j.receipts = k.receipts /\ j.txs = k.txs
      /\ j.states = k.states /\ j.pc = pc
  BY DEF Call
<1>4. Ready(j)
  BY <1>3 DEF Ready, Counted, Holds
<1>5. /\ Len(k.receipts) \in Nat /\ Len(k.accounts) \in Nat /\ Len(k.txs) \in Nat
      /\ Len(k.receipts) = 0 => k.receipts = <<>>
  BY DEF Call
<1>6. pc \in {"account", "apply"} <=> k.states # <<>>
  BY DEF NextStage
<1>7. ASSUME pc = "next"
      PROVE  /\ k.todo # <<>> /\ Len(k.receipts) < receiptsPerInsert
             /\ Len(k.txs) < bucketSize
  BY <1>5, <1>7, BucketAssumption DEF NextStage
<1>8. pc = "insertReceipts" /\ k.todo # <<>> => Len(k.receipts) = receiptsPerInsert
  BY <1>5, BucketAssumption DEF NextStage, Ready
<1>9. ASSUME pc = "insertTxs"
      PROVE  k.receipts = <<>>
  <2>1. k.states = <<>>
    BY <1>9 DEF NextStage
  <2>2. CASE k.todo = <<>>
    BY <1>5, <1>9, <2>1, <2>2 DEF NextStage
  <2>3. CASE k.todo # <<>>
    <3>1. Len(k.txs) = bucketSize /\ Len(k.receipts) < receiptsPerInsert
      BY <1>5, <1>9, <2>1, <2>3, BucketAssumption DEF NextStage, Ready
    <3>2. PICK m \in Nat : Len(k.txs) = Len(k.receipts) + m * receiptsPerInsert
      BY <1>5, <2>1, <2>3 DEF Ready, Counted
    <3>3. PICK q \in 1..bucketSize : bucketSize = q * receiptsPerInsert
      BY BucketAssumption
    <3>4. q * receiptsPerInsert = Len(k.receipts) + m * receiptsPerInsert
      BY <3>1, <3>2, <3>3
    <3>5. q \in Nat
      BY <3>3, BucketAssumption
    <3>6. Len(k.receipts) = 0
      BY <1>5, <3>1, <3>4, <3>5, LessThanBucket, BucketAssumption
    <3> QED
      BY <1>5, <3>6
  <2> QED
    BY <2>2, <2>3
<1>10. pc \notin {"verify", "decide"}
  BY DEF NextStage
<1>11. Shape(j)
  BY <1>3, <1>4, <1>6, <1>7, <1>8, <1>9, <1>10 DEF Shape
<1> QED
  BY <1>2, <1>11, IdleType DEF Resumed

LEMMA WithoutCurrentReady ==
  ASSUME NEW k \in Call, k.todo # <<>>, k.states = <<>>, Ready(k)
  PROVE  WithoutCurrent(k) \in Call /\ Ready(WithoutCurrent(k))
<1> DEFINE j == WithoutCurrent(k)
<1>1. /\ Tail(k.todo) \in Seq(Copy)
      /\ j = [k EXCEPT !.todo = Tail(k.todo), !.seen = NoCopy, !.row = 0]
  BY DEF WithoutCurrent, Call
<1> HIDE DEF j
<1>2. j \in Call
  BY <1>1 DEF Call
<1>3. /\ j.todo = Tail(k.todo) /\ j.receipts = k.receipts /\ j.txs = k.txs
      /\ j.states = k.states
  BY <1>1 DEF Call
<1>4. Ready(j)
  BY <1>3 DEF Ready, Counted
<1> QED
  BY <1>2, <1>4 DEF j

\* A copy that is through counts in both queues.
LEMMA FinishCopyReady ==
  ASSUME NEW k \in Call, k.todo # <<>>, k.states = <<>>,
         Len(k.receipts) <= receiptsPerInsert, Len(k.txs) < bucketSize,
         \E m \in Nat : Len(k.txs) + 1 = Len(k.receipts) + m * receiptsPerInsert
  PROVE  FinishCopy(k) \in Call /\ Ready(FinishCopy(k))
<1> DEFINE i == [k EXCEPT !.txs = Append(k.txs, Head(k.todo))]
<1>1. /\ Head(k.todo) \in Copy
      /\ Append(k.txs, Head(k.todo)) \in Seq(Copy)
      /\ Len(Append(k.txs, Head(k.todo))) = Len(k.txs) + 1
      /\ Len(k.txs) \in Nat
  BY DEF Call
<1>2. i \in Call
  BY <1>1 DEF Call
<1>3. /\ i.todo = k.todo /\ i.receipts = k.receipts /\ i.states = k.states
      /\ i.txs = Append(k.txs, Head(k.todo))
  BY DEF Call
<1>4. Ready(i)
  BY <1>1, <1>3, BucketAssumption DEF Ready, Counted
<1>5. WithoutCurrent(i) \in Call /\ Ready(WithoutCurrent(i))
  BY <1>2, <1>3, <1>4, WithoutCurrentReady
<1> QED
  BY <1>5 DEF FinishCopy

\* The copy at hand and its call, wherever a receipt is being looked at.
LEMMA AtHand ==
  ASSUME TypeOK, ShapeInv, NEW n \in Caller, calls[n].pc \in {"next", "verify", "decide"}
  PROVE  /\ calls[n] \in Call
         /\ calls[n].todo # <<>> /\ calls[n].states = <<>>
         /\ Current(n) \in Copy /\ TxOf[Current(n)] \in Tx
         /\ TimeOf[Current(n)] \in Time
         /\ WithoutCurrent(calls[n]) \in Call /\ Ready(WithoutCurrent(calls[n]))
<1>1. calls[n] \in Call /\ Shape(calls[n])
  BY DEF TypeOK, ShapeInv
<1>2. calls[n].todo # <<>> /\ calls[n].states = <<>> /\ Ready(calls[n])
  BY <1>1 DEF Shape
<1>3. Current(n) \in Copy
  BY <1>1, <1>2 DEF Current, Call
<1> QED
  BY <1>1, <1>2, <1>3, WithoutCurrentReady, CopyAssumption, TimeType

-----------------------------------------------------------------------------
(* The bulk inserts *)

LEMMA EntryIn ==
  ASSUME NEW S, NEW rows \in Seq(S)
  PROVE  \A i \in DOMAIN rows : rows[i] \in S
  OBVIOUS

\* A nonempty set of positions has a last one.
LEMMA LastOfIn ==
  ASSUME NEW N \in Nat, NEW S \in SUBSET (1..N), S # {}
  PROVE  LastOf(S) \in S
<1> DEFINE T == {N - i : i \in S}
<1>1. T \subseteq Nat /\ T # {}
  <2>1. \A i \in S : N - i \in Nat
    OBVIOUS
  <2>2. T # {}
    OBVIOUS
  <2> QED
    BY <2>1, <2>2
<1>2. PICK x \in T : \A y \in T : <<y, x>> \notin OpToRel(<, Nat)
  BY <1>1, NatLessThanWellFounded, WFMin, Zenon
<1>3. \A y \in T : ~ (y < x)
  BY <1>1, <1>2, Zenon DEF OpToRel
<1>4. PICK i \in S : x = N - i
  OBVIOUS
<1>5. \A j \in S : j <= i
  BY <1>3, <1>4
<1> QED
  BY <1>5 DEF LastOf

LEMMA ReplaceReceiptsType ==
  ASSUME NEW table \in [Tx -> Copy \cup {NoCopy}],
         NEW rows \in Seq([copy : Copy, seen : Copy \cup {NoCopy}])
  PROVE  /\ ReplaceReceipts(table, rows) \in [Tx -> Copy \cup {NoCopy}]
         /\ \A t \in Tx : table[t] # NoCopy => ReplaceReceipts(table, rows)[t] # NoCopy
         /\ \A i \in DOMAIN rows : ReplaceReceipts(table, rows)[TxOf[rows[i].copy]] # NoCopy
<1> DEFINE new == ReplaceReceipts(table, rows)
<1>0. \A i \in DOMAIN rows : rows[i].copy \in Copy
  <2>1. \A i \in DOMAIN rows : rows[i] \in [copy : Copy, seen : Copy \cup {NoCopy}]
    BY EntryIn, Zenon
  <2> QED
    BY <2>1
<1>1. ASSUME NEW t \in Tx,
             NEW S, S = {i \in DOMAIN rows : TxOf[rows[i].copy] = t}
      PROVE  new[t] \in IF S = {} THEN {table[t]} ELSE Copy
  <2>1. S \subseteq 1..Len(rows) /\ Len(rows) \in Nat
    BY <1>1
  <2>2. S # {} => LastOf(S) \in DOMAIN rows
    BY <1>1, <2>1, LastOfIn
  <2>3. S # {} => rows[LastOf(S)].copy \in Copy
    BY <1>0, <2>2
  <2>4. new[t] = IF S = {} THEN table[t] ELSE rows[LastOf(S)].copy
    BY <1>1 DEF ReplaceReceipts
  <2> QED
    BY <2>3, <2>4
<1>2. \A i \in DOMAIN rows : TxOf[rows[i].copy] \in Tx
  BY <1>0, CopyAssumption
<1>3. new = [t \in Tx |-> new[t]]
  BY DEF ReplaceReceipts
<1> HIDE DEF new
<1>4. \A t \in Tx : new[t] = table[t] \/ new[t] \in Copy
  BY <1>1
<1>5. ASSUME NEW i \in DOMAIN rows
      PROVE  new[TxOf[rows[i].copy]] \in Copy
  BY <1>1, <1>2
<1> QED
  BY <1>3, <1>4, <1>5, CopyAssumption DEF new

LEMMA ReplaceAccountsType ==
  ASSUME NEW table \in [Account -> Nat], NEW rows \in Seq(AccountState)
  PROVE  ReplaceAccounts(table, rows) \in [Account -> Nat]
<1>0. \A i \in DOMAIN rows : rows[i].time \in Nat
  <2>1. \A i \in DOMAIN rows : rows[i] \in AccountState
    BY EntryIn, Zenon
  <2> QED
    BY <2>1 DEF AccountState
<1>1. ASSUME NEW a \in Account,
             NEW S, S = {i \in DOMAIN rows : rows[i].account = a}, S # {}
      PROVE  rows[LastOf(S)].time \in Nat
  <2>1. S \subseteq 1..Len(rows) /\ Len(rows) \in Nat
    BY <1>1
  <2>2. LastOf(S) \in DOMAIN rows
    BY <1>1, <2>1, LastOfIn
  <2> QED
    BY <1>0, <2>2
<1> QED
  BY <1>1 DEF ReplaceAccounts

-----------------------------------------------------------------------------
(* Types, and the shape of the calls *)

TypeInv == TypeOK /\ ShapeInv

\* What a step does to the calls, in every action but Restart: one of them changes.
Stepped(n, k) == calls' = [calls EXCEPT ![n] = k]

LEMMA SteppedType ==
  ASSUME TypeInv, NEW n \in Caller, NEW k \in Call, Shape(k), Stepped(n, k)
  PROVE  calls' \in [Caller -> Call] /\ ShapeInv'
<1>1. calls \in [Caller -> Call] /\ \A m \in Caller : Shape(calls[m])
  BY DEF TypeInv, TypeOK, ShapeInv
<1>2. \A m \in Caller : calls'[m] = IF m = n THEN k ELSE calls[m]
  BY <1>1 DEF Stepped
<1>3. calls' \in [Caller -> Call]
  BY <1>1 DEF Stepped
<1>4. \A m \in Caller : Shape(calls'[m])
  BY <1>1, <1>2
<1> QED
  BY <1>3, <1>4 DEF ShapeInv

LEMMA NoTimesType == NoTimes \in [Tx -> Time \cup {0}]
  BY DEF NoTimes

LEMMA ContinueType ==
  ASSUME TypeInv, NEW n \in Caller, NEW k \in Call, Ready(k),
         NEW processed \in [Tx -> Time \cup {0}], Continue(n, k, processed)
  PROVE  /\ calls' \in [Caller -> Call] /\ ShapeInv'
         /\ processedReceiptsMap' \in [Tx -> Time \cup {0}]
<1>1. Resumed(k) \in Call /\ Shape(Resumed(k)) /\ Stepped(n, Resumed(k))
  BY StageOf DEF Continue, Stepped
<1>2. processedReceiptsMap' \in {NoTimes, processed}
  BY DEF Continue
<1> QED
  BY <1>1, <1>2, SteppedType, NoTimesType

\* The call that accepts a copy, with its receipt queued.
Accepted(n) ==
  [calls[n] EXCEPT
     !.receipts = Append(@, [copy |-> Current(n), seen |-> calls[n].seen]),
     !.states = StatesOf[Current(n)],
     !.seen = NoCopy]

AcceptedNext(n) ==
  IF StatesOf[Current(n)] = <<>> THEN FinishCopy(Accepted(n)) ELSE Accepted(n)

LEMMA AcceptedReady ==
  ASSUME TypeInv, NEW n \in Caller, calls[n].pc = "decide"
  PROVE  AcceptedNext(n) \in Call /\ Ready(AcceptedNext(n))
<1> DEFINE c == Current(n)
           row == [copy |-> c, seen |-> calls[n].seen]
           queue == Append(calls[n].receipts, row)
           k == Accepted(n)
<1>1. /\ calls[n] \in Call /\ Shape(calls[n]) /\ c \in Copy
      /\ calls[n].todo # <<>> /\ calls[n].states = <<>>
  BY AtHand DEF TypeInv, ShapeInv
<1>2. row \in [copy : Copy, seen : Copy \cup {NoCopy}]
  BY <1>1 DEF Call
<1>3. /\ queue \in Seq([copy : Copy, seen : Copy \cup {NoCopy}])
      /\ Len(queue) = Len(calls[n].receipts) + 1
      /\ Len(queue) \in DOMAIN queue
      /\ queue[Len(queue)] = row
      /\ Len(calls[n].receipts) \in Nat /\ Len(calls[n].txs) \in Nat
  <2>1. /\ calls[n].receipts \in Seq([copy : Copy, seen : Copy \cup {NoCopy}])
        /\ calls[n].txs \in Seq(Copy)
    BY <1>1 DEF Call
  <2> HIDE DEF row
  <2> QED
    BY <1>2, <2>1
<1>4. StatesOf[c] \in Seq(AccountState)
  BY <1>1, CopyAssumption
<1>5. k = [calls[n] EXCEPT !.receipts = queue, !.states = StatesOf[c], !.seen = NoCopy]
  BY DEF Accepted
<1> HIDE DEF row, queue, k
<1>6. k \in Call
  BY <1>1, <1>3, <1>4, <1>5 DEF Call
<1>7. /\ k.todo = calls[n].todo /\ k.receipts = queue /\ k.txs = calls[n].txs
      /\ k.states = StatesOf[c]
  BY <1>1, <1>5 DEF Call
<1>8. /\ Len(queue) <= receiptsPerInsert
      /\ Len(calls[n].txs) < bucketSize
  BY <1>1, <1>3, BucketAssumption DEF Shape
<1>9. PICK m \in Nat : Len(calls[n].txs) = Len(calls[n].receipts) + m * receiptsPerInsert
  BY <1>1, <1>3 DEF Shape, Ready, Counted
<1>10. Len(calls[n].txs) + 1 = Len(queue) + m * receiptsPerInsert
  <2>1. m * receiptsPerInsert \in Nat
    BY BucketAssumption
  <2> HIDE DEF c
  <2> QED
    BY <1>3, <1>9, <2>1
<1>11. CASE StatesOf[c] = <<>>
  <2>1. FinishCopy(k) \in Call /\ Ready(FinishCopy(k))
    BY <1>1, <1>6, <1>7, <1>8, <1>10, <1>11, FinishCopyReady
  <2> QED
    BY <1>11, <2>1 DEF AcceptedNext, k
<1>12. CASE StatesOf[c] # <<>>
  <2>1. Holds(k, Head(k.todo))
    BY <1>3, <1>7 DEF Holds, Current, row
  <2>2. Counted(k)
    BY <1>7, <1>10, <1>12 DEF Counted
  <2>3. Ready(k)
    BY <1>1, <1>7, <1>8, <2>1, <2>2, BucketAssumption DEF Ready
  <2> QED
    BY <1>6, <1>12, <2>3 DEF AcceptedNext, k
<1> QED
  BY <1>11, <1>12

\* The call that has handled an account state.
Applied(n) ==
  [calls[n] EXCEPT !.states = Tail(@), !.row = 0,
                   !.accounts = IF calls[n].row = 0
                                  THEN Append(@, Head(calls[n].states)) ELSE @]

AppliedNext(n) == IF Applied(n).states = <<>> THEN FinishCopy(Applied(n)) ELSE Applied(n)

LEMMA AppliedReady ==
  ASSUME TypeInv, NEW n \in Caller, calls[n].pc = "apply"
  PROVE  /\ AppliedNext(n) \in Call /\ Ready(AppliedNext(n))
         /\ Head(calls[n].states) \in AccountState
<1> DEFINE queue == IF calls[n].row = 0
                      THEN Append(calls[n].accounts, Head(calls[n].states))
                      ELSE calls[n].accounts
           k == Applied(n)
<1>1. calls[n] \in Call /\ Shape(calls[n]) /\ calls[n].states # <<>>
  BY DEF TypeInv, TypeOK, ShapeInv, Shape
<1>2. /\ Head(calls[n].states) \in AccountState
      /\ Tail(calls[n].states) \in Seq(AccountState)
      /\ queue \in Seq(AccountState)
      /\ Len(calls[n].txs) \in Nat
  BY <1>1 DEF Call
<1>3. k = [calls[n] EXCEPT !.states = Tail(calls[n].states), !.row = 0, !.accounts = queue]
  BY DEF Applied
<1> HIDE DEF queue, k
<1>4. k \in Call
  BY <1>1, <1>2, <1>3 DEF Call
<1>5. /\ k.todo = calls[n].todo /\ k.receipts = calls[n].receipts /\ k.txs = calls[n].txs
      /\ k.states = Tail(calls[n].states)
  BY <1>1, <1>3 DEF Call
<1>6. /\ Len(k.receipts) <= receiptsPerInsert
      /\ Len(k.txs) < bucketSize
      /\ k.todo # <<>>
      /\ Holds(k, Head(k.todo))
  BY <1>1, <1>5 DEF Shape, Ready, Holds
<1>7. \E m \in Nat : Len(k.txs) + 1 = Len(k.receipts) + m * receiptsPerInsert
  BY <1>1, <1>5, <1>6 DEF Shape, Ready, Counted
<1>8. CASE k.states = <<>>
  BY <1>2, <1>4, <1>6, <1>7, <1>8, FinishCopyReady DEF AppliedNext, k
<1>9. CASE k.states # <<>>
  <2>1. Counted(k)
    BY <1>7, <1>9 DEF Counted
  <2>2. Ready(k)
    BY <1>2, <1>5, <1>6, <2>1, BucketAssumption DEF Ready
  <2> QED
    BY <1>2, <1>4, <1>9, <2>2 DEF AppliedNext, k
<1> QED
  BY <1>8, <1>9

\* The call that has written one of its queues.
LEMMA InsertedReady ==
  ASSUME TypeInv, NEW n \in Caller
  PROVE  /\ calls[n].pc = "insertReceipts" =>
              LET k == [calls[n] EXCEPT !.receipts = <<>>] IN k \in Call /\ Ready(k)
         /\ calls[n].pc = "insertAccounts" =>
              LET k == [calls[n] EXCEPT !.accounts = <<>>] IN k \in Call /\ Ready(k)
         /\ calls[n].pc = "insertTxs" =>
              LET k == [calls[n] EXCEPT !.txs = <<>>] IN k \in Call /\ Ready(k)
<1>1. calls[n] \in Call /\ Shape(calls[n])
  BY DEF TypeInv, TypeOK, ShapeInv
<1>0. /\ <<>> \in Seq([copy : Copy, seen : Copy \cup {NoCopy}])
      /\ <<>> \in Seq(AccountState)
      /\ <<>> \in Seq(Copy)
  OBVIOUS
<1>2. ASSUME calls[n].pc \in {"insertReceipts", "insertAccounts", "insertTxs"}
      PROVE  calls[n].states = <<>>
  BY <1>1, <1>2 DEF Shape
<1>3. ASSUME calls[n].pc = "insertReceipts",
             NEW k, k = [calls[n] EXCEPT !.receipts = <<>>]
      PROVE  k \in Call /\ Ready(k)
  <2>1. k \in Call
    BY <1>0, <1>1, <1>3 DEF Call
  <2>2. /\ k.todo = calls[n].todo /\ k.receipts = <<>> /\ k.txs = calls[n].txs
        /\ k.states = <<>>
    BY <1>1, <1>2, <1>3 DEF Call
  <2>3. ASSUME k.todo # <<>>
        PROVE  \E m \in Nat : Len(k.txs) = m * receiptsPerInsert
    <3>1. Len(calls[n].receipts) = receiptsPerInsert
      BY <1>1, <1>3, <2>2, <2>3 DEF Shape
    <3>2. PICK m \in Nat : Len(k.txs) + 0 = receiptsPerInsert + m * receiptsPerInsert
      BY <1>1, <1>2, <1>3, <2>2, <2>3, <3>1 DEF Shape, Ready, Counted
    <3>3. receiptsPerInsert + m * receiptsPerInsert = (m + 1) * receiptsPerInsert
      BY BucketAssumption
    <3>4. Len(k.txs) \in Nat
      BY <2>1 DEF Call
    <3> QED
      BY <3>2, <3>3, <3>4
  <2>4. Counted(k)
    <3>1. ASSUME k.todo # <<>>
          PROVE  \E m \in Nat : Len(k.txs) + 0 = 0 + m * receiptsPerInsert
      <4>1. PICK m \in Nat : Len(k.txs) = m * receiptsPerInsert
        BY <2>3, <3>1
      <4>2. m * receiptsPerInsert \in Nat
        BY BucketAssumption
      <4> QED
        BY <4>1, <4>2
    <3>2. Len(k.receipts) = 0
      BY <2>2
    <3> QED
      BY <2>2, <3>1, <3>2 DEF Counted
  <2>5. Len(k.receipts) <= receiptsPerInsert /\ Len(k.txs) <= bucketSize
    BY <1>1, <2>2, BucketAssumption DEF Shape, Ready
  <2> QED
    BY <2>1, <2>2, <2>4, <2>5 DEF Ready
<1>4. ASSUME calls[n].pc = "insertAccounts",
             NEW k, k = [calls[n] EXCEPT !.accounts = <<>>]
      PROVE  k \in Call /\ Ready(k)
  <2>1. k \in Call
    BY <1>0, <1>1, <1>4 DEF Call
  <2>2. /\ k.todo = calls[n].todo /\ k.receipts = calls[n].receipts
        /\ k.txs = calls[n].txs /\ k.states = calls[n].states
    BY <1>1, <1>4 DEF Call
  <2> QED
    BY <1>1, <2>1, <2>2 DEF Shape, Ready, Counted, Holds
<1>5. ASSUME calls[n].pc = "insertTxs",
             NEW k, k = [calls[n] EXCEPT !.txs = <<>>]
      PROVE  k \in Call /\ Ready(k)
  <2>1. k \in Call
    BY <1>0, <1>1, <1>5 DEF Call
  <2>2. k.receipts = <<>> /\ k.txs = <<>> /\ k.states = <<>>
    BY <1>1, <1>2, <1>5 DEF Shape, Call
  <2>3. 0 = 0 * receiptsPerInsert /\ Len(k.txs) = 0 /\ Len(k.receipts) = 0
    BY <2>2, BucketAssumption
  <2>4. Counted(k)
    BY <2>2, <2>3 DEF Counted
  <2> QED
    BY <2>1, <2>2, <2>3, <2>4, BucketAssumption DEF Ready
<1> QED
  BY <1>3, <1>4, <1>5

\* The steps that change a call: where the call goes on, and what stays well-typed.
LEMMA CallStepTypes ==
  ASSUME TypeInv, NEW n \in Caller, CallStep(n)
  PROVE  TypeInv'
<1> USE DEF TypeInv
<1>1. CASE SkipCopy(n)
  <2>1. Continue(n, WithoutCurrent(calls[n]), processedReceiptsMap)
    BY <1>1 DEF SkipCopy
  <2>2. WithoutCurrent(calls[n]) \in Call /\ Ready(WithoutCurrent(calls[n]))
    BY <1>1, AtHand DEF SkipCopy
  <2> QED
    BY <1>1, <2>1, <2>2, ContinueType DEF SkipCopy, TypeOK, dbVars
<1>2. CASE StartCopy(n)
  <2> DEFINE k == [calls[n] EXCEPT !.pc = "verify"]
  <2>1. /\ calls[n] \in Call /\ Shape(calls[n]) /\ calls[n].pc = "next"
        /\ TxOf[Current(n)] \in Tx /\ TimeOf[Current(n)] \in Time
    BY <1>2, AtHand DEF StartCopy, ShapeInv
  <2>2. k \in Call /\ Shape(k)
    BY <2>1 DEF Call, PC, Shape, Ready, Counted, Holds
  <2>3. Stepped(n, k)
    BY <1>2 DEF StartCopy, Stepped
  <2> HIDE DEF k
  <2> QED
    BY <1>2, <2>1, <2>2, <2>3, SteppedType DEF StartCopy, TypeOK, dbVars
<1>3. ASSUME Reject(n) \/ Decline(n)
      PROVE  TypeInv'
  <2>1. /\ Continue(n, WithoutCurrent(calls[n]), processedReceiptsMap)
        /\ receiptsInValidationMap' =
             [receiptsInValidationMap EXCEPT ![TxOf[Current(n)]] = 0]
        /\ UNCHANGED <<collectingMissingReceiptsMap, missingReceiptsMap, dbVars>>
    BY <1>3 DEF Reject, Decline, Drop
  <2>2. WithoutCurrent(calls[n]) \in Call /\ Ready(WithoutCurrent(calls[n]))
    BY <1>3, AtHand DEF Reject, Decline
  <2> QED
    BY <2>1, <2>2, ContinueType DEF TypeOK, dbVars
<1>4. CASE ReadReceipt(n)
  <2> DEFINE row == receiptsTable[TxOf[Current(n)]]
             k == [calls[n] EXCEPT !.pc = "decide", !.seen = row]
  <2>1. /\ calls[n] \in Call /\ Shape(calls[n]) /\ calls[n].pc = "verify"
        /\ row \in Copy \cup {NoCopy}
    BY <1>4, AtHand DEF ReadReceipt, ShapeInv, TypeOK
  <2>2. Stepped(n, k)
    BY <1>4 DEF ReadReceipt, Stepped
  <2> HIDE DEF row
  <2>3. k \in Call /\ Shape(k)
    BY <2>1 DEF Call, PC, Shape, Ready, Counted, Holds
  <2> HIDE DEF k
  <2> QED
    BY <1>4, <2>2, <2>3, SteppedType DEF ReadReceipt, TypeOK, mapVars, dbVars
<1>5. CASE Accept(n)
  <2>1. /\ Continue(n, AcceptedNext(n),
                    [processedReceiptsMap EXCEPT ![TxOf[Current(n)]] = TimeOf[Current(n)]])
        /\ receiptsInValidationMap' =
             [receiptsInValidationMap EXCEPT ![TxOf[Current(n)]] = 0]
        /\ missingReceiptsMap' =
             [missingReceiptsMap EXCEPT ![TxOf[Current(n)]] = NotMissing]
        /\ UNCHANGED <<collectingMissingReceiptsMap, dbVars>>
    BY <1>5 DEF Accept, AcceptedNext, Accepted
  <2>2. AcceptedNext(n) \in Call /\ Ready(AcceptedNext(n))
    BY <1>5, AcceptedReady DEF Accept
  <2>3. [processedReceiptsMap EXCEPT ![TxOf[Current(n)]] = TimeOf[Current(n)]]
          \in [Tx -> Time \cup {0}]
    BY <1>5, AtHand DEF Accept, TypeOK
  <2>4. NotMissing \in MissingTx
    BY DEF NotMissing, MissingTx
  <2> QED
    BY <2>1, <2>2, <2>3, <2>4, ContinueType DEF TypeOK, dbVars
<1>6. CASE ReadAccount(n)
  <2> DEFINE row == accountsTable[Head(calls[n].states).account]
             k == [calls[n] EXCEPT !.pc = "apply", !.row = row]
  <2>1. /\ calls[n] \in Call /\ Shape(calls[n]) /\ calls[n].pc = "account"
        /\ calls[n].states # <<>>
    BY <1>6 DEF ReadAccount, ShapeInv, TypeOK, Shape
  <2>2. row \in Nat
    <3>1. Head(calls[n].states) \in AccountState
      BY <2>1 DEF Call
    <3> QED
      BY <3>1 DEF AccountState, TypeOK
  <2>3. Stepped(n, k)
    BY <1>6 DEF ReadAccount, Stepped
  <2> HIDE DEF row
  <2>4. k \in Call /\ Shape(k)
    BY <2>1, <2>2 DEF Call, PC, Shape, Ready, Counted, Holds
  <2> HIDE DEF k
  <2> QED
    BY <1>6, <2>3, <2>4, SteppedType DEF ReadAccount, TypeOK, mapVars, dbVars
<1>7. CASE ApplyAccount(n)
  <2>1. /\ Continue(n, AppliedNext(n), processedReceiptsMap)
        /\ \/ UNCHANGED accountsTable
           \/ accountsTable' = [accountsTable EXCEPT ![Head(calls[n].states).account] =
                                                       Head(calls[n].states).time]
        /\ UNCHANGED <<receiptsInValidationMap, collectingMissingReceiptsMap,
                       missingReceiptsMap, receiptsTable, processedTxs, refusedReceipts>>
    BY <1>7 DEF ApplyAccount, AppliedNext, Applied
  <2>2. /\ AppliedNext(n) \in Call /\ Ready(AppliedNext(n))
        /\ Head(calls[n].states).time \in Nat
    BY <1>7, AppliedReady DEF ApplyAccount, AccountState
  <2> QED
    BY <2>1, <2>2, ContinueType DEF TypeOK
<1>8. CASE InsertReceipts(n)
  <2> DEFINE k == [calls[n] EXCEPT !.receipts = <<>>]
             rows == calls[n].receipts
  <2>1. k \in Call /\ Ready(k)
    BY <1>8, InsertedReady DEF InsertReceipts
  <2>2. Continue(n, k, processedReceiptsMap)
    BY <1>8 DEF InsertReceipts
  <2>3. rows \in Seq([copy : Copy, seen : Copy \cup {NoCopy}])
    BY DEF TypeOK, Call
  <2> HIDE DEF k
  <2>4. receiptsTable' \in [Tx -> Copy \cup {NoCopy}]
    <3>1. receiptsTable \in [Tx -> Copy \cup {NoCopy}]
      BY DEF TypeOK
    <3>2. ReplaceReceipts(receiptsTable, rows) \in [Tx -> Copy \cup {NoCopy}]
      BY <2>3, <3>1, ReplaceReceiptsType, Zenon
    <3>3. receiptsTable' = ReplaceReceipts(receiptsTable, rows) \/ receiptsTable' = receiptsTable
      BY <1>8 DEF InsertReceipts
    <3> QED
      BY <3>1, <3>2, <3>3
  <2>5. \A i \in DOMAIN rows : rows[i] \in [copy : Copy, seen : Copy \cup {NoCopy}]
    BY <2>3, EntryIn, Zenon
  <2>6. refusedReceipts' \subseteq Tx
    BY <1>8, <2>5, CopyAssumption DEF InsertReceipts, TypeOK
  <2> QED
    BY <1>8, <2>1, <2>2, <2>4, <2>6, ContinueType DEF InsertReceipts, TypeOK
<1>9. CASE InsertAccounts(n)
  <2> DEFINE k == [calls[n] EXCEPT !.accounts = <<>>]
  <2>1. k \in Call /\ Ready(k)
    BY <1>9, InsertedReady DEF InsertAccounts
  <2>2. Continue(n, k, processedReceiptsMap)
    BY <1>9 DEF InsertAccounts
  <2>3. calls[n].accounts \in Seq(AccountState)
    BY DEF TypeOK, Call
  <2> HIDE DEF k
  <2>4. accountsTable' \in [Account -> Nat]
    <3>1. accountsTable \in [Account -> Nat]
      BY DEF TypeOK
    <3>2. ReplaceAccounts(accountsTable, calls[n].accounts) \in [Account -> Nat]
      BY <2>3, <3>1, ReplaceAccountsType, Zenon
    <3> QED
      BY <1>9, <3>1, <3>2 DEF InsertAccounts
  <2> QED
    BY <1>9, <2>1, <2>2, <2>4, ContinueType DEF InsertAccounts, TypeOK
<1>10. CASE InsertTxs(n)
  <2> DEFINE k == [calls[n] EXCEPT !.txs = <<>>]
  <2>1. k \in Call /\ Ready(k)
    BY <1>10, InsertedReady DEF InsertTxs
  <2>2. Continue(n, k, processedReceiptsMap)
    BY <1>10 DEF InsertTxs
  <2>3. calls[n].txs \in Seq(Copy)
    BY DEF TypeOK, Call
  <2> HIDE DEF k
  <2>4. \A i \in DOMAIN calls[n].txs : calls[n].txs[i] \in Copy
    BY <2>3, EntryIn, Zenon
  <2>5. processedTxs' \subseteq Tx
    BY <1>10, <2>4, CopyAssumption DEF InsertTxs, TypeOK
  <2> QED
    BY <1>10, <2>1, <2>2, <2>5, ContinueType DEF InsertTxs, TypeOK
<1>11. CASE Throw(n)
  <2>1. Stepped(n, Idle)
    BY <1>11 DEF Throw, Stepped
  <2> QED
    BY <1>11, <2>1, IdleType, SteppedType DEF Throw, TypeOK, mapVars, dbVars
<1>12. CASE ThrowAccepted(n)
  <2>1. Stepped(n, Idle)
    BY <1>12 DEF ThrowAccepted, Stepped
  <2>2. /\ processedReceiptsMap' =
             [processedReceiptsMap EXCEPT ![TxOf[Current(n)]] = TimeOf[Current(n)]]
        /\ receiptsInValidationMap' =
             [receiptsInValidationMap EXCEPT ![TxOf[Current(n)]] = 0]
        /\ missingReceiptsMap' =
             [missingReceiptsMap EXCEPT ![TxOf[Current(n)]] = NotMissing]
        /\ UNCHANGED <<collectingMissingReceiptsMap, dbVars>>
    BY <1>12 DEF ThrowAccepted
  <2>3. TxOf[Current(n)] \in Tx /\ TimeOf[Current(n)] \in Time
    BY <1>12, AtHand DEF ThrowAccepted
  <2>4. NotMissing \in MissingTx
    BY DEF NotMissing, MissingTx
  <2> QED
    BY <2>1, <2>2, <2>3, <2>4, IdleType, SteppedType DEF TypeOK, dbVars
<1> QED
  BY <1>1, <1>2, <1>3, <1>4, <1>5, <1>6, <1>7, <1>8, <1>9, <1>10, <1>11, <1>12 DEF CallStep

LEMMA EndFetchType ==
  ASSUME TypeInv, NEW t \in Caller, NEW k \in Call, Shape(k), EndFetch(t, k)
  PROVE  /\ calls' \in [Caller -> Call] /\ ShapeInv'
         /\ collectingMissingReceiptsMap' \in [Tx -> Time \cup {0}]
  BY SteppedType DEF EndFetch, Stepped, TypeInv, TypeOK

LEMMA AskNextType ==
  ASSUME TypeInv, NEW t \in Caller, NEW time \in Time \cup {0},
         NEW senders \in SUBSET Archivers, AskNext(t, time, senders)
  PROVE  /\ calls' \in [Caller -> Call] /\ ShapeInv'
         /\ collectingMissingReceiptsMap' \in [Tx -> Time \cup {0}]
<1> DEFINE k == [Idle EXCEPT !.pc = "fetch", !.time = time, !.senders = senders]
<1>1. k \in Call /\ Shape(k)
  BY IdleType DEF Idle, Call, PC, Shape, Ready, Counted
<1> HIDE DEF k
<1>2. CASE EndFetch(t, Idle)
  BY <1>2, IdleType, EndFetchType
<1>3. CASE /\ collectingMissingReceiptsMap' =
                [collectingMissingReceiptsMap EXCEPT ![t] = time]
           /\ Stepped(t, k)
  BY <1>1, <1>3, SteppedType DEF TypeInv, TypeOK
<1> QED
  BY <1>2, <1>3 DEF AskNext, Stepped, k

LEMMA FetchTypes ==
  ASSUME TypeInv, NEW t \in Caller,
         FetchStep(t) \/ (t \in Tx /\ \E active \in SUBSET Archivers : StartFetch(t, active))
  PROVE  TypeInv'
<1> USE DEF TypeInv
<1>1. ASSUME NEW a \in calls[t].senders, FetchNothing(t, a)
      PROVE  TypeInv'
  <2>1. calls[t].time \in Time \cup {0} /\ calls[t].senders \ {a} \in SUBSET Archivers
    BY DEF TypeOK, Call
  <2> QED
    BY <1>1, <2>1, AskNextType DEF FetchNothing, TypeOK, dbVars
<1>2. ASSUME NEW c \in Announced, FetchFound(t, c)
      PROVE  TypeInv'
  <2> DEFINE k == [Idle EXCEPT !.pc = "verify", !.todo = <<c>>]
  <2>1. c \in Copy /\ TimeOf[c] \in Time
    BY CopyAssumption, TimeType
  <2>2. <<c>> \in Seq(Copy) /\ <<c>> # <<>>
    BY <2>1
  <2>3. k \in Call
    BY <2>2, IdleType DEF Call, PC
  <2>4. Counted(k)
    <3>1. 0 = 0 * receiptsPerInsert /\ Len(k.txs) = 0 /\ Len(k.receipts) = 0
          /\ k.states = <<>>
      BY BucketAssumption DEF Idle
    <3> QED
      BY <3>1 DEF Counted
  <2>5. Shape(k)
    BY <2>2, <2>4, BucketAssumption DEF Idle, Shape, Ready
  <2> HIDE DEF k
  <2>6. CASE EndFetch(t, Idle) /\ UNCHANGED receiptsInValidationMap
    BY <1>2, <2>6, IdleType, EndFetchType DEF FetchFound, TypeOK, dbVars
  <2>7. CASE /\ EndFetch(t, k)
             /\ receiptsInValidationMap' =
                  [receiptsInValidationMap EXCEPT ![t] = TimeOf[c]]
    BY <1>2, <2>1, <2>3, <2>5, <2>7, EndFetchType DEF FetchFound, TypeOK, dbVars
  <2> QED
    BY <1>2, <2>6, <2>7 DEF FetchFound, k
<1>3. ASSUME t \in Tx, NEW active \in SUBSET Archivers, StartFetch(t, active)
      PROVE  TypeInv'
  <2>1. missingReceiptsMap[t] \in MissingTx /\ NotMissing \in MissingTx
    BY <1>3 DEF TypeOK, NotMissing, MissingTx
  <2>2. /\ missingReceiptsMap[t].time \in Time \cup {0}
        /\ missingReceiptsMap[t].senders \cap active \in SUBSET Archivers
    BY <2>1 DEF MissingTx
  <2>3. AskNext(t, missingReceiptsMap[t].time, missingReceiptsMap[t].senders \cap active)
    BY <1>3 DEF StartFetch
  <2>4. /\ calls' \in [Caller -> Call] /\ ShapeInv'
        /\ collectingMissingReceiptsMap' \in [Tx -> Time \cup {0}]
    BY <2>2, <2>3, AskNextType
  <2> QED
    BY <1>3, <2>1, <2>4 DEF StartFetch, TypeOK, dbVars
<1> QED
  BY <1>1, <1>2, <1>3 DEF FetchStep

LEMMA OtherTypes ==
  ASSUME TypeInv
  PROVE  /\ \A n \in Connection, batch \in Batches : Deliver(n, batch) => TypeInv'
         /\ \A c \in Announced, a \in Archivers :
              Announce(a, TxOf[c], TimeOf[c]) => TypeInv'
         /\ \A time \in Time : CleanOldReceiptsMap(time) => TypeInv'
         /\ Restart => TypeInv'
         /\ UNCHANGED vars => TypeInv'
<1> USE DEF TypeInv
<1>1. ASSUME NEW n \in Connection, NEW batch \in Batches, Deliver(n, batch)
      PROVE  TypeInv'
  <2> DEFINE k == [Idle EXCEPT !.pc = "next", !.todo = batch]
  <2>1. batch \in Seq(Copy) /\ batch # <<>> /\ n \in Caller
    BY CopyAssumption DEF Caller
  <2>2. k \in Call
    BY <2>1, IdleType DEF Call, PC
  <2>3. Counted(k)
    <3>1. 0 = 0 * receiptsPerInsert /\ Len(k.txs) = 0 /\ Len(k.receipts) = 0
          /\ k.states = <<>>
      BY BucketAssumption DEF Idle
    <3> QED
      BY <3>1 DEF Counted
  <2>4. Shape(k)
    BY <2>1, <2>3, BucketAssumption DEF Idle, Shape, Ready
  <2>5. Stepped(n, k)
    BY <1>1 DEF Deliver, Stepped
  <2> HIDE DEF k
  <2> QED
    BY <1>1, <2>1, <2>2, <2>4, <2>5, SteppedType DEF Deliver, TypeOK, mapVars, dbVars
<1>2. ASSUME NEW c \in Announced, NEW a \in Archivers, Announce(a, TxOf[c], TimeOf[c])
      PROVE  TypeInv'
  <2> DEFINE t == TxOf[c]
             entry == [time |-> TimeOf[c],
                       senders |-> missingReceiptsMap[t].senders \cup {a}]
  <2>1. TimeOf[c] \in Time /\ t \in Tx
    BY CopyAssumption, TimeType
  <2>2. missingReceiptsMap[t].senders \subseteq Archivers
    BY <2>1 DEF TypeOK, MissingTx
  <2>3. entry \in MissingTx
    BY <2>1, <2>2 DEF MissingTx
  <2>4. missingReceiptsMap' = [missingReceiptsMap EXCEPT ![t] = entry]
    BY <1>2, <2>1 DEF Announce, TypeOK
  <2> HIDE DEF entry
  <2> QED
    BY <1>2, <2>1, <2>3, <2>4 DEF Announce, TypeOK, ShapeInv, dbVars
<1>3. ASSUME NEW time \in Time, CleanOldReceiptsMap(time)
      PROVE  TypeInv'
  BY <1>3 DEF CleanOldReceiptsMap, TypeOK, ShapeInv, dbVars
<1>4. ASSUME Restart
      PROVE  TypeInv'
  <2>1. NotMissing \in MissingTx
    BY DEF NotMissing, MissingTx
  <2> QED
    BY <1>4, <2>1, IdleType, NoTimesType DEF Restart, TypeOK, ShapeInv, dbVars
<1>5. ASSUME UNCHANGED vars
      PROVE  TypeInv'
  BY <1>5 DEF vars, mapVars, dbVars, TypeOK, ShapeInv
<1> QED
  BY <1>1, <1>2, <1>3, <1>4, <1>5

LEMMA InitTypes == Init => TypeInv
<1> SUFFICES ASSUME Init PROVE TypeInv
  OBVIOUS
<1>1. NotMissing \in MissingTx /\ GenesisAccounts \in [Account -> Nat]
  BY CopyAssumption DEF NotMissing, MissingTx
<1> QED
  BY <1>1, IdleType, NoTimesType DEF Init, TypeInv, TypeOK, ShapeInv

LEMMA NextTypes == TypeInv /\ [Next]_vars => TypeInv'
<1> SUFFICES ASSUME TypeInv, [Next]_vars PROVE TypeInv'
  OBVIOUS
<1>1. ASSUME NEW n \in Caller, CallStep(n) \/ FetchStep(n)
      PROVE  TypeInv'
  BY <1>1, CallStepTypes, FetchTypes
<1>2. ASSUME NEW t \in Tx, NEW active \in SUBSET Archivers, StartFetch(t, active)
      PROVE  TypeInv'
  BY <1>2, FetchTypes DEF Caller
<1> QED
  BY <1>1, <1>2, OtherTypes DEF Next

\* Every variable keeps its type, and every suspended call of storeReceiptData the
\* shape of its queues, however deliveries, announcements, fetches and restarts mix.
THEOREM TypeCorrect == Spec => []TypeInv
<1> QED
  BY InitTypes, NextTypes, PTL DEF Spec

\* The type invariant that the runs check.
THEOREM TypesHold == Spec => []TypeOK
<1>1. TypeInv => TypeOK
  BY DEF TypeInv
<1> QED
  BY <1>1, TypeCorrect, PTL

-----------------------------------------------------------------------------
(* One validation at a time *)

\* The map holds the timestamp that a validation set until that validation ends; a copy
\* with another timestamp may have overwritten it.
MapOfValidation ==
  \A n \in Caller :
    Validating(n) /\ OneTimestamp(TxOf[Current(n)])
    => receiptsInValidationMap[TxOf[Current(n)]] = TimeOf[Current(n)]

ValidationInv == TypeInv /\ OneValidation /\ MapOfValidation

\* Where a call goes on it is validating nothing.
LEMMA ResumedNotValidating ==
  ASSUME NEW k \in Call
  PROVE  Resumed(k).pc \notin {"verify", "decide"}
<1>1. NextStage(k) \notin {"verify", "decide"}
  BY DEF NextStage
<1>2. [k EXCEPT !.pc = NextStage(k)].pc = NextStage(k)
  BY DEF Call
<1> QED
  BY <1>1, <1>2 DEF Resumed, Idle

LEMMA LeavesValidation ==
  ASSUME ValidationInv, NEW n \in Caller, NEW k \in Call, Stepped(n, k),
         k.pc \notin {"verify", "decide"},
         \/ UNCHANGED receiptsInValidationMap
         \/ /\ Validating(n)
            /\ receiptsInValidationMap' =
                 [receiptsInValidationMap EXCEPT ![TxOf[Current(n)]] = 0]
  PROVE  OneValidation' /\ MapOfValidation'
<1>1. \A m \in Caller : calls'[m] = IF m = n THEN k ELSE calls[m]
  BY DEF Stepped, ValidationInv, TypeInv, TypeOK
<1>2. ASSUME NEW m \in Caller, Validating(m)'
      PROVE  m # n /\ Validating(m) /\ Current(m)' = Current(m)
  BY <1>1, <1>2 DEF Validating, Current
<1>3. OneValidation'
  BY <1>2 DEF ValidationInv, OneValidation, OneTimestamp
<1>4. ASSUME NEW m \in Caller, Validating(m)', OneTimestamp(TxOf[Current(m)])
      PROVE  receiptsInValidationMap'[TxOf[Current(m)]] = TimeOf[Current(m)]
  <2>1. receiptsInValidationMap[TxOf[Current(m)]] = TimeOf[Current(m)]
    BY <1>2, <1>4 DEF ValidationInv, MapOfValidation
  <2>2. Validating(n) => TxOf[Current(m)] # TxOf[Current(n)]
    BY <1>2, <1>4 DEF ValidationInv, OneValidation
  <2>3. TxOf[Current(m)] \in Tx
    BY <1>2, <1>4, AtHand DEF ValidationInv, TypeInv, Validating
  <2> QED
    BY <2>1, <2>2, <2>3 DEF ValidationInv, TypeInv, TypeOK
<1>5. MapOfValidation'
  BY <1>2, <1>4 DEF MapOfValidation, OneTimestamp
<1> QED
  BY <1>3, <1>5

LEMMA EntersValidation ==
  ASSUME ValidationInv, NEW n \in Caller, NEW k \in Call, NEW c \in Copy, Stepped(n, k),
         Head(k.todo) = c, k.pc = "verify", ~ Known(TxOf[c], TimeOf[c]),
         receiptsInValidationMap' = [receiptsInValidationMap EXCEPT ![TxOf[c]] = TimeOf[c]]
  PROVE  OneValidation' /\ MapOfValidation'
<1>0. TypeOK /\ ShapeInv
  BY DEF ValidationInv, TypeInv
<1>1. \A m \in Caller : calls'[m] = IF m = n THEN k ELSE calls[m]
  BY <1>0 DEF Stepped, TypeOK
<1>2. Current(n)' = c /\ Validating(n)'
  BY <1>1 DEF Validating, Current
<1>3. ASSUME NEW m \in Caller, m # n, Validating(m)'
      PROVE  Validating(m) /\ Current(m)' = Current(m) /\ Current(m) \in Copy
  BY <1>0, <1>1, <1>3, AtHand DEF Validating, Current
<1>4. ASSUME NEW m \in Caller, m # n, Validating(m)', OneTimestamp(TxOf[Current(m)])
      PROVE  /\ receiptsInValidationMap[TxOf[Current(m)]] = TimeOf[Current(m)]
             /\ TxOf[Current(m)] # TxOf[c]
  <2>1. receiptsInValidationMap[TxOf[Current(m)]] = TimeOf[Current(m)]
    BY <1>3, <1>4 DEF ValidationInv, MapOfValidation
  <2>2. ASSUME TxOf[Current(m)] = TxOf[c]
        PROVE  FALSE
    <3>1. TimeOf[Current(m)] = TimeOf[c]
      BY <1>3, <1>4, <2>2 DEF OneTimestamp
    <3> QED
      BY <2>1, <2>2, <3>1 DEF Known
  <2> QED
    BY <2>1, <2>2
<1>5. OneValidation'
  <2> SUFFICES ASSUME NEW m1 \in Caller, NEW m2 \in Caller,
                      Validating(m1)', Validating(m2)',
                      TxOf[Current(m1)'] = TxOf[Current(m2)'],
                      OneTimestamp(TxOf[Current(m2)']),
                      m1 # m2
               PROVE  FALSE
    BY DEF OneValidation, OneTimestamp
  <2>1. CASE m1 = n
    BY <1>2, <1>3, <1>4, <2>1
  <2>2. CASE m2 = n
    BY <1>2, <1>3, <1>4, <2>2
  <2>3. CASE m1 # n /\ m2 # n
    <3>1. /\ Validating(m1) /\ Validating(m2)
          /\ TxOf[Current(m1)] = TxOf[Current(m2)]
          /\ OneTimestamp(TxOf[Current(m2)])
      BY <1>3, <2>3
    <3> QED
      BY <3>1 DEF ValidationInv, OneValidation
  <2> QED
    BY <2>1, <2>2, <2>3
<1>6. MapOfValidation'
  <2> SUFFICES ASSUME NEW m \in Caller, Validating(m)', OneTimestamp(TxOf[Current(m)'])
               PROVE  receiptsInValidationMap'[TxOf[Current(m)']] = TimeOf[Current(m)']
    BY DEF MapOfValidation, OneTimestamp
  <2>1. CASE m = n
    <3>1. TxOf[c] \in Tx
      BY CopyAssumption
    <3> QED
      BY <1>0, <1>2, <2>1, <3>1 DEF TypeOK
  <2>2. CASE m # n
    BY <1>0, <1>3, <1>4, <2>2 DEF TypeOK
  <2> QED
    BY <2>1, <2>2
<1> QED
  BY <1>5, <1>6

LEMMA ContinueLeaves ==
  ASSUME ValidationInv, NEW n \in Caller, NEW k \in Call, Ready(k), NEW processed,
         Continue(n, k, processed),
         \/ UNCHANGED receiptsInValidationMap
         \/ /\ Validating(n)
            /\ receiptsInValidationMap' =
                 [receiptsInValidationMap EXCEPT ![TxOf[Current(n)]] = 0]
  PROVE  OneValidation' /\ MapOfValidation'
<1>1. Stepped(n, Resumed(k)) /\ Resumed(k) \in Call
  BY StageOf DEF Continue, Stepped
<1>2. Resumed(k).pc \notin {"verify", "decide"}
  BY ResumedNotValidating
<1> QED
  BY <1>1, <1>2, LeavesValidation

LEMMA CallStepValidation ==
  ASSUME ValidationInv, NEW n \in Caller, CallStep(n)
  PROVE  OneValidation' /\ MapOfValidation'
<1>0. TypeInv /\ TypeOK /\ ShapeInv /\ calls[n] \in Call
  BY DEF ValidationInv, TypeInv, TypeOK
<1>1. CASE SkipCopy(n)
  BY <1>0, <1>1, AtHand, ContinueLeaves DEF SkipCopy
<1>2. CASE StartCopy(n)
  <2> DEFINE k == [calls[n] EXCEPT !.pc = "verify"]
  <2>1. k \in Call /\ k.pc = "verify" /\ Head(k.todo) = Current(n)
    BY <1>0 DEF Call, PC, Current
  <2>2. Stepped(n, k)
    BY <1>2 DEF StartCopy, Stepped
  <2> HIDE DEF k
  <2> QED
    BY <1>0, <1>2, <2>1, <2>2, AtHand, EntersValidation DEF StartCopy
<1>3. CASE Reject(n) \/ Decline(n)
  BY <1>0, <1>3, AtHand, ContinueLeaves DEF Reject, Decline, Drop, Validating
<1>4. CASE ReadReceipt(n)
  <2>1. Validating(n) /\ UNCHANGED receiptsInValidationMap
    BY <1>4 DEF ReadReceipt, Validating, mapVars
  <2>2. \A m \in Caller : /\ Validating(m)' => Validating(m)
                         /\ Current(m)' = Current(m)
    BY <1>0, <1>4, <2>1 DEF ReadReceipt, Validating, Current, TypeOK, Call
  <2> QED
    BY <2>1, <2>2 DEF ValidationInv, OneValidation, MapOfValidation, OneTimestamp
<1>5. CASE Accept(n)
  <2>1. /\ Continue(n, AcceptedNext(n),
                    [processedReceiptsMap EXCEPT ![TxOf[Current(n)]] = TimeOf[Current(n)]])
        /\ receiptsInValidationMap' =
             [receiptsInValidationMap EXCEPT ![TxOf[Current(n)]] = 0]
        /\ Validating(n)
    BY <1>5 DEF Accept, AcceptedNext, Accepted, Validating
  <2> QED
    BY <1>0, <1>5, <2>1, AcceptedReady, ContinueLeaves DEF Accept
<1>6. CASE ReadAccount(n)
  <2> DEFINE k == [calls[n] EXCEPT !.pc = "apply",
                                   !.row = accountsTable[Head(calls[n].states).account]]
  <2>1. Stepped(n, k) /\ UNCHANGED receiptsInValidationMap
    BY <1>6 DEF ReadAccount, Stepped, mapVars
  <2>2. calls'[n] \in Call /\ calls'[n] = k
    BY <1>0, <1>6, <2>1, CallStepTypes DEF CallStep, Stepped, TypeInv, TypeOK
  <2>3. k.pc = "apply"
    BY <1>0 DEF Call
  <2> HIDE DEF k
  <2> QED
    BY <2>1, <2>2, <2>3, LeavesValidation
<1>7. CASE ApplyAccount(n)
  <2>1. Continue(n, AppliedNext(n), processedReceiptsMap) /\ UNCHANGED receiptsInValidationMap
    BY <1>7 DEF ApplyAccount, AppliedNext, Applied
  <2> QED
    BY <1>0, <1>7, <2>1, AppliedReady, ContinueLeaves DEF ApplyAccount
<1>8. CASE InsertReceipts(n)
  BY <1>0, <1>8, InsertedReady, ContinueLeaves DEF InsertReceipts
<1>9. CASE InsertAccounts(n)
  BY <1>0, <1>9, InsertedReady, ContinueLeaves DEF InsertAccounts
<1>10. CASE InsertTxs(n)
  BY <1>0, <1>10, InsertedReady, ContinueLeaves DEF InsertTxs
<1>11. CASE Throw(n) \/ ThrowAccepted(n)
  <2>1. /\ Stepped(n, Idle)
        /\ \/ UNCHANGED receiptsInValidationMap
           \/ /\ Validating(n)
              /\ receiptsInValidationMap' =
                   [receiptsInValidationMap EXCEPT ![TxOf[Current(n)]] = 0]
    BY <1>11 DEF Throw, ThrowAccepted, Stepped, Validating, mapVars
  <2>2. Idle \in Call /\ Idle.pc \notin {"verify", "decide"}
    BY IdleType DEF Idle
  <2> QED
    BY <2>1, <2>2, LeavesValidation
<1> QED
  BY <1>1, <1>2, <1>3, <1>4, <1>5, <1>6, <1>7, <1>8, <1>9, <1>10, <1>11 DEF CallStep

LEMMA AskNextValidation ==
  ASSUME ValidationInv, NEW t \in Caller, NEW time, NEW senders, AskNext(t, time, senders),
         UNCHANGED receiptsInValidationMap, calls' \in [Caller -> Call]
  PROVE  OneValidation' /\ MapOfValidation'
<1> DEFINE asking == [Idle EXCEPT !.pc = "fetch", !.time = time, !.senders = senders]
<1>0. Idle.pc = "idle" /\ asking.pc = "fetch"
  BY DEF Idle
<1> HIDE DEF asking
<1>1. PICK k \in {Idle, asking} : Stepped(t, k) /\ k.pc \in {"idle", "fetch"}
  BY <1>0 DEF AskNext, EndFetch, Stepped, asking
<1>2. k \in Call
  BY <1>1 DEF Stepped, ValidationInv, TypeInv, TypeOK
<1> QED
  BY <1>1, <1>2, LeavesValidation

LEMMA FetchValidation ==
  ASSUME ValidationInv, TypeInv', NEW t \in Caller,
         FetchStep(t) \/ \E active \in SUBSET Archivers : StartFetch(t, active)
  PROVE  OneValidation' /\ MapOfValidation'
<1>0. calls' \in [Caller -> Call]
  BY DEF TypeInv, TypeOK
<1>1. ASSUME NEW a \in calls[t].senders, FetchNothing(t, a)
      PROVE  OneValidation' /\ MapOfValidation'
  BY <1>0, <1>1, AskNextValidation DEF FetchNothing
<1>2. ASSUME NEW c \in Announced, FetchFound(t, c)
      PROVE  OneValidation' /\ MapOfValidation'
  <2> DEFINE k == [Idle EXCEPT !.pc = "verify", !.todo = <<c>>]
  <2>1. CASE EndFetch(t, Idle) /\ UNCHANGED receiptsInValidationMap
    <3>1. Stepped(t, Idle) /\ Idle.pc \notin {"verify", "decide"}
      BY <2>1 DEF EndFetch, Stepped, Idle
    <3> QED
      BY <2>1, <3>1, IdleType, LeavesValidation
  <2>2. CASE /\ ~ Known(t, TimeOf[c]) /\ EndFetch(t, k)
             /\ receiptsInValidationMap' =
                  [receiptsInValidationMap EXCEPT ![t] = TimeOf[c]]
    <3>1. Stepped(t, k) /\ k.pc = "verify" /\ Head(k.todo) = c
      BY <2>2 DEF EndFetch, Stepped, Idle
    <3>2. k \in Call
      BY <1>0, <3>1 DEF Stepped, ValidationInv, TypeInv, TypeOK
    <3>3. TxOf[c] = t /\ c \in Copy
      BY <1>2, CopyAssumption DEF FetchFound
    <3> HIDE DEF k
    <3> QED
      BY <2>2, <3>1, <3>2, <3>3, EntersValidation
  <2> QED
    BY <1>2, <2>1, <2>2 DEF FetchFound
<1>3. ASSUME NEW active \in SUBSET Archivers, StartFetch(t, active)
      PROVE  OneValidation' /\ MapOfValidation'
  BY <1>0, <1>3, AskNextValidation DEF StartFetch
<1> QED
  BY <1>1, <1>2, <1>3 DEF FetchStep

LEMMA OtherValidation ==
  ASSUME ValidationInv, TypeInv'
  PROVE  /\ \A n \in Connection, batch \in Batches :
              Deliver(n, batch) => OneValidation' /\ MapOfValidation'
         /\ \A c \in Announced, a \in Archivers :
              Announce(a, TxOf[c], TimeOf[c]) => OneValidation' /\ MapOfValidation'
         /\ \A time \in Time : CleanOldReceiptsMap(time) => OneValidation' /\ MapOfValidation'
         /\ Restart => OneValidation' /\ MapOfValidation'
         /\ UNCHANGED vars => OneValidation' /\ MapOfValidation'
<1>1. ASSUME NEW n \in Connection, NEW batch \in Batches, Deliver(n, batch)
      PROVE  OneValidation' /\ MapOfValidation'
  <2> DEFINE k == [Idle EXCEPT !.pc = "next", !.todo = batch]
  <2>1. Stepped(n, k) /\ k.pc = "next" /\ n \in Caller
    BY <1>1 DEF Deliver, Stepped, Idle, Caller
  <2>2. k \in Call
    BY <2>1 DEF Stepped, ValidationInv, TypeInv, TypeOK
  <2>3. UNCHANGED receiptsInValidationMap
    BY <1>1 DEF Deliver, mapVars
  <2> HIDE DEF k
  <2> QED
    BY <2>1, <2>2, <2>3, LeavesValidation
<1>2. ASSUME UNCHANGED <<calls, receiptsInValidationMap>>
      PROVE  OneValidation' /\ MapOfValidation'
  <2>1. \A m \in Caller : Validating(m)' = Validating(m) /\ Current(m)' = Current(m)
    BY <1>2 DEF Validating, Current
  <2> QED
    BY <1>2, <2>1 DEF ValidationInv, OneValidation, MapOfValidation, OneTimestamp
<1>3. ASSUME Restart
      PROVE  OneValidation' /\ MapOfValidation'
  BY <1>3 DEF Restart, OneValidation, MapOfValidation, Validating, Idle
<1> QED
  BY <1>1, <1>2, <1>3 DEF Announce, CleanOldReceiptsMap, vars, mapVars

\* Two calls never validate the receipt of a transaction at the same time as long as
\* all copies of it have one timestamp, for any number of calls and any deliveries,
\* announcements, fetches, restarts: what receiptsInValidationMap is for.
THEOREM OneValidationHolds == Spec => []OneValidation
<1>1. Init => ValidationInv
  <2>1. Init => OneValidation /\ MapOfValidation
    BY DEF Init, OneValidation, MapOfValidation, Validating, Idle
  <2> QED
    BY <2>1, InitTypes DEF ValidationInv
<1>2. ValidationInv /\ [Next]_vars => ValidationInv'
  <2> SUFFICES ASSUME ValidationInv, [Next]_vars PROVE ValidationInv'
    OBVIOUS
  <2>1. TypeInv'
    BY NextTypes DEF ValidationInv
  <2>2. ASSUME NEW n \in Caller, CallStep(n) \/ FetchStep(n)
        PROVE  OneValidation' /\ MapOfValidation'
    BY <2>1, <2>2, CallStepValidation, FetchValidation
  <2>3. ASSUME NEW t \in Tx, NEW active \in SUBSET Archivers, StartFetch(t, active)
        PROVE  OneValidation' /\ MapOfValidation'
    BY <2>1, <2>3, FetchValidation DEF Caller
  <2>4. OneValidation' /\ MapOfValidation'
    BY <2>1, <2>2, <2>3, OtherValidation DEF Next
  <2> QED
    BY <2>1, <2>4 DEF ValidationInv
<1>3. ValidationInv => OneValidation
  BY DEF ValidationInv
<1> QED
  BY <1>1, <1>2, <1>3, PTL DEF Spec

-----------------------------------------------------------------------------
(* Receipts before processed transactions *)

\* Transactions whose receipt is stored or was refused.
Secured == {t \in Tx : receiptsTable[t] # NoCopy \/ t \in refusedReceipts}

\* The call is still to insert a receipt of t.
Queues(k, t) == \E j \in DOMAIN k.receipts : TxOf[k.receipts[j].copy] = t

\* Every processed transaction of a call has its receipt in S or in the same call.
Backed(k, S) == \A i \in DOMAIN k.txs : TxOf[k.txs[i]] \in S \/ Queues(k, TxOf[k.txs[i]])

BackedInv == \A n \in Caller : Backed(calls[n], Secured)

ReceiptInv == TypeInv /\ BackedInv /\ ProcessedHasReceipt

LEMMA SecuredType ==
  ASSUME TypeOK
  PROVE  ProcessedHasReceipt <=> processedTxs \subseteq Secured
  BY DEF TypeOK, ProcessedHasReceipt, Secured

\* Nothing but an insert changes the tables: what is secured stays so.
LEMMA SteppedBacked ==
  ASSUME ReceiptInv, NEW n \in Caller, NEW k, Stepped(n, k), Backed(k, Secured'),
         Secured \subseteq Secured'
  PROVE  BackedInv'
<1>1. \A m \in Caller : calls'[m] = IF m = n THEN k ELSE calls[m]
  BY DEF ReceiptInv, TypeInv, TypeOK, Stepped
<1>2. \A m \in Caller : Backed(calls[m], Secured')
  BY DEF ReceiptInv, BackedInv, Backed
<1>3. \A m \in Caller : Backed(calls'[m], Secured')
  BY <1>1, <1>2
<1> QED
  BY <1>3 DEF BackedInv

LEMMA ContinueBacked ==
  ASSUME ReceiptInv, NEW n \in Caller, NEW k \in Call, NEW processed,
         Continue(n, k, processed), Backed(k, Secured'), Secured \subseteq Secured'
  PROVE  BackedInv'
<1>1. Stepped(n, Resumed(k))
  BY DEF Continue, Stepped
<1>2. Backed(Idle, Secured')
  BY DEF Idle, Backed
<1>3. Backed([k EXCEPT !.pc = NextStage(k)], Secured')
  <2> DEFINE j == [k EXCEPT !.pc = NextStage(k)]
  <2>1. j.txs = k.txs /\ j.receipts = k.receipts
    BY DEF Call
  <2> HIDE DEF j
  <2>2. Backed(j, Secured')
    BY <2>1 DEF Backed, Queues
  <2> QED
    BY <2>2 DEF j
<1>4. Backed(Resumed(k), Secured')
  BY <1>2, <1>3 DEF Resumed
<1> QED
  BY <1>1, <1>4, SteppedBacked

LEMMA WithoutCurrentBacked ==
  ASSUME NEW k \in Call, NEW S, Backed(k, S)
  PROVE  Backed(WithoutCurrent(k), S)
<1> DEFINE j == WithoutCurrent(k)
<1>1. j.txs = k.txs /\ j.receipts = k.receipts
  BY DEF WithoutCurrent, Call
<1> HIDE DEF j
<1>2. Backed(j, S)
  BY <1>1 DEF Backed, Queues
<1> QED
  BY <1>2 DEF j

LEMMA FinishCopyBacked ==
  ASSUME NEW k \in Call, k.todo # <<>>, NEW S, Backed(k, S), Queues(k, TxOf[Head(k.todo)])
  PROVE  Backed(FinishCopy(k), S)
<1> DEFINE rows == Append(k.txs, Head(k.todo))
           i == [k EXCEPT !.txs = rows]
<1>1. /\ rows \in Seq(Copy)
      /\ \A x \in DOMAIN rows : (x \in DOMAIN k.txs /\ rows[x] = k.txs[x]) \/ rows[x] = Head(k.todo)
  BY DEF Call
<1> HIDE DEF rows
<1>2. i \in Call /\ i.txs = rows /\ i.receipts = k.receipts
  BY <1>1 DEF Call
<1> HIDE DEF i
<1>3. Backed(i, S)
  BY <1>1, <1>2 DEF Backed, Queues
<1>4. Backed(WithoutCurrent(i), S)
  BY <1>2, <1>3, WithoutCurrentBacked
<1> QED
  BY <1>4 DEF FinishCopy, i, rows

LEMMA AcceptedBacked ==
  ASSUME ReceiptInv, NEW n \in Caller, calls[n].pc = "decide"
  PROVE  Backed(AcceptedNext(n), Secured)
<1> DEFINE c == Current(n)
           row == [copy |-> c, seen |-> calls[n].seen]
           queue == Append(calls[n].receipts, row)
           k == Accepted(n)
<1>1. /\ TypeInv /\ calls[n] \in Call /\ Backed(calls[n], Secured)
      /\ calls[n].todo # <<>> /\ c \in Copy
  BY AtHand DEF ReceiptInv, TypeInv, BackedInv
<1>2. row \in [copy : Copy, seen : Copy \cup {NoCopy}] /\ row.copy = c
  BY <1>1 DEF Call
<1>3. /\ queue \in Seq([copy : Copy, seen : Copy \cup {NoCopy}])
      /\ Len(queue) \in DOMAIN queue
      /\ queue[Len(queue)] = row
      /\ \A j \in DOMAIN calls[n].receipts : j \in DOMAIN queue /\ queue[j] = calls[n].receipts[j]
  BY <1>1, <1>2 DEF Call
<1>4. StatesOf[c] \in Seq(AccountState)
  BY <1>1, CopyAssumption
<1>5. k = [calls[n] EXCEPT !.receipts = queue, !.states = StatesOf[c], !.seen = NoCopy]
  BY DEF Accepted
<1> HIDE DEF row, queue, k
<1>6. k \in Call
  BY <1>1, <1>3, <1>4, <1>5 DEF Call
<1>7. k.todo = calls[n].todo /\ k.receipts = queue /\ k.txs = calls[n].txs
  BY <1>1, <1>5 DEF Call
<1>8. Backed(k, Secured)
  <2>1. \A t : Queues(calls[n], t) => Queues(k, t)
    BY <1>3, <1>7 DEF Queues
  <2> QED
    BY <1>1, <1>7, <2>1 DEF Backed
<1>9. Queues(k, TxOf[Head(k.todo)])
  BY <1>2, <1>3, <1>7 DEF Queues, Current
<1>10. Backed(FinishCopy(k), Secured)
  BY <1>1, <1>6, <1>7, <1>8, <1>9, FinishCopyBacked
<1> QED
  BY <1>8, <1>10 DEF AcceptedNext, k

LEMMA AppliedBacked ==
  ASSUME ReceiptInv, NEW n \in Caller, calls[n].pc = "apply"
  PROVE  Backed(AppliedNext(n), Secured)
<1> DEFINE queue == IF calls[n].row = 0
                      THEN Append(calls[n].accounts, Head(calls[n].states))
                      ELSE calls[n].accounts
           k == Applied(n)
<1>1. /\ calls[n] \in Call /\ Shape(calls[n]) /\ calls[n].states # <<>>
      /\ Backed(calls[n], Secured)
  BY DEF ReceiptInv, TypeInv, TypeOK, ShapeInv, BackedInv, Shape
<1>2. /\ Tail(calls[n].states) \in Seq(AccountState)
      /\ queue \in Seq(AccountState)
  BY <1>1 DEF Call
<1>3. k = [calls[n] EXCEPT !.states = Tail(calls[n].states), !.row = 0, !.accounts = queue]
  BY DEF Applied
<1> HIDE DEF queue, k
<1>4. k \in Call
  BY <1>1, <1>2, <1>3 DEF Call
<1>5. k.todo = calls[n].todo /\ k.receipts = calls[n].receipts /\ k.txs = calls[n].txs
  BY <1>1, <1>3 DEF Call
<1>6. k.todo # <<>> /\ Holds(k, Head(k.todo))
  BY <1>1, <1>5 DEF Shape, Ready, Holds
<1>7. Backed(k, Secured) /\ Queues(k, TxOf[Head(k.todo)])
  BY <1>1, <1>5, <1>6 DEF Backed, Queues, Holds
<1>8. Backed(FinishCopy(k), Secured)
  BY <1>4, <1>6, <1>7, FinishCopyBacked
<1> QED
  BY <1>7, <1>8 DEF AppliedNext, k

\* What the processed transactions' table and the receipts have to do with each other
\* only changes when one of the two is written.
Untouched == UNCHANGED <<receiptsTable, processedTxs, refusedReceipts>>

LEMMA UntouchedKeeps ==
  ASSUME ReceiptInv, Untouched
  PROVE  Secured' = Secured /\ ProcessedHasReceipt'
  BY DEF Untouched, ReceiptInv, ProcessedHasReceipt, Secured

LEMMA CallStepBacked ==
  ASSUME ReceiptInv, NEW n \in Caller, CallStep(n)
  PROVE  BackedInv' /\ ProcessedHasReceipt'
<1>0. /\ TypeInv /\ TypeOK /\ ShapeInv /\ calls[n] \in Call
      /\ Backed(calls[n], Secured)
  BY DEF ReceiptInv, TypeInv, TypeOK, BackedInv
<1>1. ASSUME SkipCopy(n) \/ Reject(n) \/ Decline(n)
      PROVE  BackedInv' /\ ProcessedHasReceipt'
  <2>1. Continue(n, WithoutCurrent(calls[n]), processedReceiptsMap) /\ Untouched
    BY <1>1 DEF SkipCopy, Reject, Decline, Drop, Untouched, dbVars
  <2>2. WithoutCurrent(calls[n]) \in Call
    BY <1>0, <1>1, AtHand DEF SkipCopy, Reject, Decline
  <2> QED
    BY <1>0, <2>1, <2>2, UntouchedKeeps, WithoutCurrentBacked, ContinueBacked
<1>2. ASSUME StartCopy(n) \/ ReadReceipt(n) \/ ReadAccount(n)
      PROVE  BackedInv' /\ ProcessedHasReceipt'
  <2>1. Untouched
    BY <1>2 DEF StartCopy, ReadReceipt, ReadAccount, Untouched, dbVars
  <2>2. PICK k : /\ Stepped(n, k)
                 /\ k.txs = calls[n].txs /\ k.receipts = calls[n].receipts
    <3>1. CASE StartCopy(n)
      <4>1. Stepped(n, [calls[n] EXCEPT !.pc = "verify"])
        BY <3>1 DEF StartCopy, Stepped
      <4> QED
        BY <1>0, <4>1 DEF Call
    <3>2. CASE ReadReceipt(n)
      <4> DEFINE row == receiptsTable[TxOf[Current(n)]]
                 k == [calls[n] EXCEPT !.pc = "decide", !.seen = row]
      <4>1. Stepped(n, k)
        BY <3>2 DEF ReadReceipt, Stepped
      <4> HIDE DEF row
      <4>2. k.txs = calls[n].txs /\ k.receipts = calls[n].receipts
        BY <1>0 DEF Call
      <4> HIDE DEF k
      <4> QED
        BY <4>1, <4>2
    <3>3. CASE ReadAccount(n)
      <4> DEFINE row == accountsTable[Head(calls[n].states).account]
                 k == [calls[n] EXCEPT !.pc = "apply", !.row = row]
      <4>1. Stepped(n, k)
        BY <3>3 DEF ReadAccount, Stepped
      <4> HIDE DEF row
      <4>2. k.txs = calls[n].txs /\ k.receipts = calls[n].receipts
        BY <1>0 DEF Call
      <4> HIDE DEF k
      <4> QED
        BY <4>1, <4>2
    <3> QED
      BY <1>2, <3>1, <3>2, <3>3
  <2>3. Backed(k, Secured)
    BY <1>0, <2>2 DEF Backed, Queues
  <2> QED
    BY <2>1, <2>2, <2>3, UntouchedKeeps, SteppedBacked
<1>3. CASE Accept(n)
  <2>1. /\ Continue(n, AcceptedNext(n),
                    [processedReceiptsMap EXCEPT ![TxOf[Current(n)]] = TimeOf[Current(n)]])
        /\ Untouched /\ calls[n].pc = "decide"
    BY <1>3 DEF Accept, AcceptedNext, Accepted, Untouched, dbVars
  <2>2. AcceptedNext(n) \in Call /\ Backed(AcceptedNext(n), Secured)
    BY <1>0, <2>1, AcceptedReady, AcceptedBacked
  <2> QED
    BY <2>1, <2>2, UntouchedKeeps, ContinueBacked
<1>4. CASE ApplyAccount(n)
  <2>1. /\ Continue(n, AppliedNext(n), processedReceiptsMap)
        /\ Untouched /\ calls[n].pc = "apply"
    BY <1>4 DEF ApplyAccount, AppliedNext, Applied, Untouched
  <2>2. AppliedNext(n) \in Call /\ Backed(AppliedNext(n), Secured)
    BY <1>0, <2>1, AppliedReady, AppliedBacked
  <2> QED
    BY <2>1, <2>2, UntouchedKeeps, ContinueBacked
<1>5. CASE InsertReceipts(n)
  <2> DEFINE k == [calls[n] EXCEPT !.receipts = <<>>]
             rows == calls[n].receipts
  <2>1. Continue(n, k, processedReceiptsMap) /\ UNCHANGED processedTxs
    BY <1>5 DEF InsertReceipts
  <2>2. k \in Call /\ k.txs = calls[n].txs
    BY <1>0, <1>5, InsertedReady DEF InsertReceipts, Call
  <2>3. /\ rows \in Seq([copy : Copy, seen : Copy \cup {NoCopy}])
        /\ receiptsTable \in [Tx -> Copy \cup {NoCopy}]
    BY <1>0 DEF TypeOK, Call
  <2>4. \A i \in DOMAIN rows : rows[i] \in [copy : Copy, seen : Copy \cup {NoCopy}]
    BY <2>3, EntryIn, Zenon
  <2>5. \A i \in DOMAIN rows : TxOf[rows[i].copy] \in Tx
    BY <2>4, CopyAssumption
  <2> HIDE DEF k
  <2>6. ASSUME receiptsTable' = ReplaceReceipts(receiptsTable, rows), UNCHANGED refusedReceipts
        PROVE  /\ Secured \subseteq Secured'
               /\ \A i \in DOMAIN rows : TxOf[rows[i].copy] \in Secured'
    <3>1. \A t \in Tx : receiptsTable[t] # NoCopy => receiptsTable'[t] # NoCopy
      BY <2>3, <2>6, ReplaceReceiptsType
    <3>2. \A i \in DOMAIN rows : receiptsTable'[TxOf[rows[i].copy]] # NoCopy
      BY <2>3, <2>6, ReplaceReceiptsType
    <3>3. Secured \subseteq Secured'
      BY <2>6, <3>1 DEF Secured
    <3>4. \A i \in DOMAIN rows : TxOf[rows[i].copy] \in Secured'
      BY <2>5, <3>2 DEF Secured
    <3> QED
      BY <3>3, <3>4
  <2>7. ASSUME refusedReceipts' = refusedReceipts \cup {TxOf[rows[i].copy] : i \in DOMAIN rows},
               UNCHANGED receiptsTable
        PROVE  /\ Secured \subseteq Secured'
               /\ \A i \in DOMAIN rows : TxOf[rows[i].copy] \in Secured'
    BY <2>5, <2>7 DEF Secured
  <2>8. Secured \subseteq Secured' /\ \A i \in DOMAIN rows : TxOf[rows[i].copy] \in Secured'
    BY <1>5, <2>6, <2>7 DEF InsertReceipts
  <2>9. Backed(k, Secured')
    BY <1>0, <2>2, <2>8 DEF Backed, Queues
  <2>10. ProcessedHasReceipt'
    BY <1>0, <2>1, <2>8, SecuredType DEF ReceiptInv, ProcessedHasReceipt, Secured
  <2> QED
    BY <2>1, <2>2, <2>8, <2>9, <2>10, ContinueBacked
<1>6. CASE InsertAccounts(n)
  <2> DEFINE k == [calls[n] EXCEPT !.accounts = <<>>]
  <2>1. Continue(n, k, processedReceiptsMap) /\ Untouched
    BY <1>6 DEF InsertAccounts, Untouched
  <2>2. k \in Call /\ k.txs = calls[n].txs /\ k.receipts = calls[n].receipts
    BY <1>0, <1>6, InsertedReady DEF InsertAccounts, Call
  <2> HIDE DEF k
  <2>3. Backed(k, Secured)
    BY <1>0, <2>2 DEF Backed, Queues
  <2> QED
    BY <2>1, <2>2, <2>3, UntouchedKeeps, ContinueBacked
<1>7. CASE InsertTxs(n)
  <2> DEFINE k == [calls[n] EXCEPT !.txs = <<>>]
             rows == calls[n].txs
  <2>1. Continue(n, k, processedReceiptsMap) /\ UNCHANGED <<receiptsTable, refusedReceipts>>
    BY <1>7 DEF InsertTxs
  <2>2. k \in Call /\ k.txs = <<>>
    BY <1>0, <1>7, InsertedReady DEF InsertTxs, Call
  <2>3. processedTxs' = processedTxs \/ processedTxs' = processedTxs
                                          \cup {TxOf[rows[i]] : i \in DOMAIN rows}
    BY <1>7 DEF InsertTxs
  <2> HIDE DEF k
  <2>4. calls[n].receipts = <<>>
    BY <1>0, <1>7 DEF InsertTxs, ShapeInv, Shape
  <2>5. \A i \in DOMAIN rows : TxOf[rows[i]] \in Secured
    BY <1>0, <2>4 DEF Backed, Queues
  <2>6. processedTxs' \subseteq Secured
    BY <1>0, <2>3, <2>5, SecuredType DEF ReceiptInv
  <2>7. Secured' = Secured
    BY <2>1 DEF Secured
  <2>8. ProcessedHasReceipt'
    BY <2>1, <2>6 DEF ProcessedHasReceipt, Secured
  <2>9. Backed(k, Secured')
    BY <2>2 DEF Backed
  <2> QED
    BY <2>1, <2>2, <2>7, <2>8, <2>9, ContinueBacked
<1>8. CASE Throw(n) \/ ThrowAccepted(n)
  <2>1. Stepped(n, Idle) /\ Untouched
    BY <1>8 DEF Throw, ThrowAccepted, Stepped, Untouched, dbVars
  <2>2. Backed(Idle, Secured)
    BY DEF Idle, Backed
  <2> QED
    BY <2>1, <2>2, UntouchedKeeps, SteppedBacked
<1> QED
  BY <1>1, <1>2, <1>3, <1>4, <1>5, <1>6, <1>7, <1>8 DEF CallStep

\* In the steps of announcements and fetches, a delivery and a restart the calls that
\* change hold no processed transactions.
LEMMA OtherBacked ==
  ASSUME ReceiptInv, Untouched,
         \/ UNCHANGED calls
         \/ calls' = [n \in Caller |-> Idle]
         \/ \E n \in Caller : \E k : k.txs = <<>> /\ Stepped(n, k)
  PROVE  BackedInv' /\ ProcessedHasReceipt'
<1>1. Secured' = Secured /\ ProcessedHasReceipt'
  BY UntouchedKeeps
<1>2. CASE UNCHANGED calls
  BY <1>1, <1>2 DEF ReceiptInv, BackedInv
<1>3. CASE calls' = [n \in Caller |-> Idle]
  BY <1>1, <1>3 DEF BackedInv, Backed, Idle
<1>4. ASSUME NEW n \in Caller, NEW k, k.txs = <<>>, Stepped(n, k)
      PROVE  BackedInv'
  <2>1. Backed(k, Secured')
    BY <1>4 DEF Backed
  <2> QED
    BY <1>1, <1>4, <2>1, SteppedBacked
<1> QED
  BY <1>1, <1>2, <1>3, <1>4

LEMMA AskNextEmpty ==
  ASSUME NEW t, NEW time, NEW senders, AskNext(t, time, senders)
  PROVE  \E k : k.txs = <<>> /\ Stepped(t, k)
<1> DEFINE k == [Idle EXCEPT !.pc = "fetch", !.time = time, !.senders = senders]
<1>1. Idle.txs = <<>> /\ k.txs = <<>>
  BY DEF Idle
<1>2. Stepped(t, Idle) \/ Stepped(t, k)
  BY DEF AskNext, EndFetch, Stepped
<1> HIDE DEF k
<1> QED
  BY <1>1, <1>2

\* Whatever sizes the batches and buckets have and however calls interleave, receipts
\* reach their table before the processed transactions, so that a stop between the two
\* leaves nothing for the digests that has no receipt.
THEOREM ProcessedHasReceiptHolds == Spec => []ProcessedHasReceipt
<1>1. Init => ReceiptInv
  <2>1. Init => BackedInv /\ ProcessedHasReceipt
    BY DEF Init, BackedInv, Backed, Idle, ProcessedHasReceipt
  <2> QED
    BY <2>1, InitTypes DEF ReceiptInv
<1>2. ReceiptInv /\ [Next]_vars => ReceiptInv'
  <2> SUFFICES ASSUME ReceiptInv, [Next]_vars PROVE ReceiptInv'
    OBVIOUS
  <2>1. TypeInv'
    BY NextTypes DEF ReceiptInv
  <2>2. ASSUME NEW n \in Caller, CallStep(n)
        PROVE  BackedInv' /\ ProcessedHasReceipt'
    BY <2>2, CallStepBacked
  <2>3. ASSUME NEW n \in Caller, FetchStep(n)
        PROVE  BackedInv' /\ ProcessedHasReceipt'
    <3>1. ASSUME NEW a, FetchNothing(n, a)
          PROVE  BackedInv' /\ ProcessedHasReceipt'
      BY <3>1, AskNextEmpty, OtherBacked DEF FetchNothing, Untouched, dbVars
    <3>2. ASSUME NEW c, FetchFound(n, c)
          PROVE  BackedInv' /\ ProcessedHasReceipt'
      <4> DEFINE k == [Idle EXCEPT !.pc = "verify", !.todo = <<c>>]
      <4>1. Idle.txs = <<>> /\ k.txs = <<>>
        BY DEF Idle
      <4>2. Stepped(n, Idle) \/ Stepped(n, k)
        BY <3>2 DEF FetchFound, EndFetch, Stepped
      <4>3. Untouched
        BY <3>2 DEF FetchFound, Untouched, dbVars
      <4> HIDE DEF k
      <4> QED
        BY <4>1, <4>2, <4>3, OtherBacked
    <3> QED
      BY <2>3, <3>1, <3>2 DEF FetchStep
  <2>4. ASSUME NEW t \in Tx, NEW active \in SUBSET Archivers, StartFetch(t, active)
        PROVE  BackedInv' /\ ProcessedHasReceipt'
    BY <2>4, AskNextEmpty, OtherBacked DEF StartFetch, Untouched, dbVars, Caller
  <2>5. ASSUME NEW n \in Connection, NEW batch \in Batches, Deliver(n, batch)
        PROVE  BackedInv' /\ ProcessedHasReceipt'
    <3> DEFINE k == [Idle EXCEPT !.pc = "next", !.todo = batch]
    <3>1. k.txs = <<>> /\ Stepped(n, k) /\ n \in Caller /\ Untouched
      BY <2>5 DEF Deliver, Stepped, Idle, Caller, Untouched, dbVars
    <3> HIDE DEF k
    <3> QED
      BY <3>1, OtherBacked
  <2>6. ASSUME \/ \E c \in Announced, a \in Archivers : Announce(a, TxOf[c], TimeOf[c])
               \/ \E time \in Time : CleanOldReceiptsMap(time)
               \/ Restart
               \/ UNCHANGED vars
        PROVE  BackedInv' /\ ProcessedHasReceipt'
    BY <2>6, OtherBacked DEF Announce, CleanOldReceiptsMap, Restart, vars, Untouched, dbVars
  <2>7. BackedInv' /\ ProcessedHasReceipt'
    BY <2>2, <2>3, <2>4, <2>5, <2>6 DEF Next
  <2> QED
    BY <2>1, <2>7 DEF ReceiptInv
<1>3. ReceiptInv => ProcessedHasReceipt
  BY DEF ReceiptInv
<1> QED
  BY <1>1, <1>2, <1>3, PTL DEF Spec

-----------------------------------------------------------------------------
(* Rows that give way to others *)

\* Every receipt that a call is to insert was worth saving against the row it has seen.
Decided(k) == \A i \in DOMAIN k.receipts : NeedToSave(k.receipts[i].copy, k.receipts[i].seen)

DecidedInv == \A n \in Caller : Decided(calls[n])

LEMMA SteppedDecided ==
  ASSUME TypeInv, DecidedInv, NEW n \in Caller, NEW k, Stepped(n, k), Decided(k)
  PROVE  DecidedInv'
<1>1. \A m \in Caller : calls'[m] = IF m = n THEN k ELSE calls[m]
  BY DEF TypeInv, TypeOK, Stepped
<1>2. \A m \in Caller : Decided(calls'[m])
  BY <1>1 DEF DecidedInv
<1> QED
  BY <1>2 DEF DecidedInv

LEMMA ContinueDecided ==
  ASSUME TypeInv, DecidedInv, NEW n \in Caller, NEW k \in Call, NEW processed,
         Continue(n, k, processed), Decided(k)
  PROVE  DecidedInv'
<1>1. Stepped(n, Resumed(k))
  BY DEF Continue, Stepped
<1>2. Decided(Idle)
  BY DEF Idle, Decided
<1>3. ASSUME NEW j, j = [k EXCEPT !.pc = NextStage(k)] PROVE Decided(j)
  <2>1. j.receipts = k.receipts
    BY <1>3 DEF Call
  <2> QED
    BY <2>1 DEF Decided
<1>4. Decided(Resumed(k))
  BY <1>2, <1>3 DEF Resumed
<1> QED
  BY <1>1, <1>4, SteppedDecided

\* What happens to a copy that is through does not touch the receipts of its call.
LEMMA SameReceipts ==
  ASSUME NEW k \in Call, k.todo # <<>>
  PROVE  WithoutCurrent(k).receipts = k.receipts /\ FinishCopy(k).receipts = k.receipts
<1>1. \A j \in Call : WithoutCurrent(j).receipts = j.receipts
  BY DEF WithoutCurrent, Call
<1> DEFINE rows == Append(k.txs, Head(k.todo))
           i == [k EXCEPT !.txs = rows]
<1>2. FinishCopy(k) = WithoutCurrent(i)
  BY DEF FinishCopy
<1>3. rows \in Seq(Copy)
  BY DEF Call
<1> HIDE DEF rows
<1>4. i \in Call /\ i.receipts = k.receipts
  BY <1>3 DEF Call
<1> HIDE DEF i
<1> QED
  BY <1>1, <1>2, <1>4

LEMMA AcceptedDecided ==
  ASSUME TypeInv, DecidedInv, NEW n \in Caller, calls[n].pc = "decide",
         NeedToSave(Current(n), calls[n].seen)
  PROVE  Decided(AcceptedNext(n))
<1> DEFINE row == [copy |-> Current(n), seen |-> calls[n].seen]
           queue == Append(calls[n].receipts, row)
           k == Accepted(n)
<1>1. /\ calls[n] \in Call /\ calls[n].todo # <<>> /\ Current(n) \in Copy /\ Decided(calls[n])
  BY AtHand DEF TypeInv, DecidedInv
<1>2. row \in [copy : Copy, seen : Copy \cup {NoCopy}]
  BY <1>1 DEF Call
<1>3. NeedToSave(row.copy, row.seen)
  OBVIOUS
<1>4. StatesOf[Current(n)] \in Seq(AccountState)
  BY <1>1, CopyAssumption
<1>5. k = [calls[n] EXCEPT !.receipts = queue, !.states = StatesOf[Current(n)], !.seen = NoCopy]
  BY DEF Accepted
<1> HIDE DEF row
<1>6. /\ queue \in Seq([copy : Copy, seen : Copy \cup {NoCopy}])
      /\ \A i \in DOMAIN queue :
           \/ queue[i] = row
           \/ i \in DOMAIN calls[n].receipts /\ queue[i] = calls[n].receipts[i]
  BY <1>1, <1>2 DEF Call
<1> HIDE DEF queue, k
<1>7. k \in Call /\ k.receipts = queue /\ k.todo # <<>>
  BY <1>1, <1>4, <1>5, <1>6 DEF Call
<1>8. Decided(k)
  BY <1>1, <1>3, <1>6, <1>7 DEF Decided
<1>9. Decided(FinishCopy(k))
  BY <1>7, <1>8, SameReceipts DEF Decided
<1> QED
  BY <1>8, <1>9 DEF AcceptedNext, k

LEMMA AppliedDecided ==
  ASSUME TypeInv, DecidedInv, NEW n \in Caller, calls[n].pc = "apply"
  PROVE  Decided(AppliedNext(n))
<1> DEFINE queue == IF calls[n].row = 0
                      THEN Append(calls[n].accounts, Head(calls[n].states))
                      ELSE calls[n].accounts
           k == Applied(n)
<1>1. /\ calls[n] \in Call /\ calls[n].states # <<>> /\ calls[n].todo # <<>>
      /\ Decided(calls[n])
  BY DEF TypeInv, TypeOK, ShapeInv, Shape, Ready, DecidedInv
<1>2. Tail(calls[n].states) \in Seq(AccountState) /\ queue \in Seq(AccountState)
  BY <1>1 DEF Call
<1>3. k = [calls[n] EXCEPT !.states = Tail(calls[n].states), !.row = 0, !.accounts = queue]
  BY DEF Applied
<1> HIDE DEF queue, k
<1>4. k \in Call /\ k.receipts = calls[n].receipts /\ k.todo # <<>>
  BY <1>1, <1>2, <1>3 DEF Call
<1>5. Decided(k) /\ Decided(FinishCopy(k))
  BY <1>1, <1>4, SameReceipts DEF Decided
<1> QED
  BY <1>5 DEF AppliedNext, k

LEMMA CallStepDecided ==
  ASSUME TypeInv, DecidedInv, NEW n \in Caller, CallStep(n)
  PROVE  DecidedInv'
<1>0. calls[n] \in Call /\ Decided(calls[n])
  BY DEF TypeInv, TypeOK, DecidedInv
<1>1. CASE SkipCopy(n) \/ Reject(n) \/ Decline(n)
  <2>1. Continue(n, WithoutCurrent(calls[n]), processedReceiptsMap)
    BY <1>1 DEF SkipCopy, Reject, Decline, Drop
  <2>2. WithoutCurrent(calls[n]) \in Call /\ calls[n].todo # <<>>
    BY <1>1, AtHand DEF SkipCopy, Reject, Decline, TypeInv
  <2>3. Decided(WithoutCurrent(calls[n]))
    BY <1>0, <2>2, SameReceipts DEF Decided
  <2> QED
    BY <2>1, <2>2, <2>3, ContinueDecided
<1>2. ASSUME NEW k, Stepped(n, k), k.receipts = calls[n].receipts
      PROVE  DecidedInv'
  BY <1>0, <1>2, SteppedDecided DEF Decided
<1>3. CASE StartCopy(n)
  <2>1. Stepped(n, [calls[n] EXCEPT !.pc = "verify"])
    BY <1>3 DEF StartCopy, Stepped
  <2>2. [calls[n] EXCEPT !.pc = "verify"].receipts = calls[n].receipts
    BY <1>0 DEF Call
  <2> QED
    BY <1>2, <2>1, <2>2
<1>4. CASE ReadReceipt(n)
  <2> DEFINE row == receiptsTable[TxOf[Current(n)]]
             k == [calls[n] EXCEPT !.pc = "decide", !.seen = row]
  <2>1. Stepped(n, k)
    BY <1>4 DEF ReadReceipt, Stepped
  <2> HIDE DEF row
  <2>2. k.receipts = calls[n].receipts
    BY <1>0 DEF Call
  <2> HIDE DEF k
  <2> QED
    BY <1>2, <2>1, <2>2
<1>5. CASE ReadAccount(n)
  <2> DEFINE row == accountsTable[Head(calls[n].states).account]
             k == [calls[n] EXCEPT !.pc = "apply", !.row = row]
  <2>1. Stepped(n, k)
    BY <1>5 DEF ReadAccount, Stepped
  <2> HIDE DEF row
  <2>2. k.receipts = calls[n].receipts
    BY <1>0 DEF Call
  <2> HIDE DEF k
  <2> QED
    BY <1>2, <2>1, <2>2
<1>6. CASE Accept(n)
  <2>1. /\ Continue(n, AcceptedNext(n),
                    [processedReceiptsMap EXCEPT ![TxOf[Current(n)]] = TimeOf[Current(n)]])
        /\ calls[n].pc = "decide" /\ NeedToSave(Current(n), calls[n].seen)
    BY <1>6 DEF Accept, AcceptedNext, Accepted
  <2>2. AcceptedNext(n) \in Call /\ Decided(AcceptedNext(n))
    BY <2>1, AcceptedReady, AcceptedDecided
  <2> QED
    BY <2>1, <2>2, ContinueDecided
<1>7. CASE ApplyAccount(n)
  <2>1. Continue(n, AppliedNext(n), processedReceiptsMap) /\ calls[n].pc = "apply"
    BY <1>7 DEF ApplyAccount, AppliedNext, Applied
  <2>2. AppliedNext(n) \in Call /\ Decided(AppliedNext(n))
    BY <2>1, AppliedReady, AppliedDecided
  <2> QED
    BY <2>1, <2>2, ContinueDecided
<1>8. CASE InsertReceipts(n)
  <2> DEFINE k == [calls[n] EXCEPT !.receipts = <<>>]
  <2>1. Continue(n, k, processedReceiptsMap) /\ k \in Call
    BY <1>8, InsertedReady DEF InsertReceipts
  <2>2. k.receipts = <<>>
    BY <1>0 DEF Call
  <2> HIDE DEF k
  <2>3. Decided(k)
    BY <2>2 DEF Decided
  <2> QED
    BY <2>1, <2>3, ContinueDecided
<1>9. CASE InsertAccounts(n)
  <2> DEFINE k == [calls[n] EXCEPT !.accounts = <<>>]
  <2>1. Continue(n, k, processedReceiptsMap) /\ k \in Call
    BY <1>9, InsertedReady DEF InsertAccounts
  <2>2. k.receipts = calls[n].receipts
    BY <1>0 DEF Call
  <2> HIDE DEF k
  <2>3. Decided(k)
    BY <1>0, <2>2 DEF Decided
  <2> QED
    BY <2>1, <2>3, ContinueDecided
<1>10. CASE InsertTxs(n)
  <2> DEFINE k == [calls[n] EXCEPT !.txs = <<>>]
  <2>1. Continue(n, k, processedReceiptsMap) /\ k \in Call
    BY <1>10, InsertedReady DEF InsertTxs
  <2>2. k.receipts = calls[n].receipts
    BY <1>0 DEF Call
  <2> HIDE DEF k
  <2>3. Decided(k)
    BY <1>0, <2>2 DEF Decided
  <2> QED
    BY <2>1, <2>3, ContinueDecided
<1>11. CASE Throw(n) \/ ThrowAccepted(n)
  <2>1. Stepped(n, Idle)
    BY <1>11 DEF Throw, ThrowAccepted, Stepped
  <2>2. Decided(Idle)
    BY DEF Idle, Decided
  <2> QED
    BY <2>1, <2>2, SteppedDecided
<1> QED
  BY <1>1, <1>3, <1>4, <1>5, <1>6, <1>7, <1>8, <1>9, <1>10, <1>11 DEF CallStep

\* The calls that other steps change hold no receipts.
LEMMA AskNextQueuesNone ==
  ASSUME NEW t, NEW time, NEW senders, AskNext(t, time, senders)
  PROVE  \E k : k.receipts = <<>> /\ Stepped(t, k)
<1> DEFINE k == [Idle EXCEPT !.pc = "fetch", !.time = time, !.senders = senders]
<1>1. Idle.receipts = <<>> /\ k.receipts = <<>>
  BY DEF Idle
<1>2. Stepped(t, Idle) \/ Stepped(t, k)
  BY DEF AskNext, EndFetch, Stepped
<1> HIDE DEF k
<1> QED
  BY <1>1, <1>2

LEMMA DecidedInvariance ==
  ASSUME TypeInv, DecidedInv, [Next]_vars
  PROVE  DecidedInv'
<1>1. ASSUME NEW n \in Caller, NEW k, k.receipts = <<>>, Stepped(n, k)
      PROVE  DecidedInv'
  <2>1. Decided(k)
    BY <1>1 DEF Decided
  <2> QED
    BY <1>1, <2>1, SteppedDecided
<1>2. ASSUME NEW n \in Caller, CallStep(n) PROVE DecidedInv'
  BY <1>2, CallStepDecided
<1>3. ASSUME NEW n \in Caller, FetchStep(n) PROVE DecidedInv'
  <2>1. ASSUME NEW a, FetchNothing(n, a) PROVE DecidedInv'
    BY <1>1, <2>1, AskNextQueuesNone DEF FetchNothing
  <2>2. ASSUME NEW c, FetchFound(n, c) PROVE DecidedInv'
    <3> DEFINE k == [Idle EXCEPT !.pc = "verify", !.todo = <<c>>]
    <3>1. Idle.receipts = <<>> /\ k.receipts = <<>>
      BY DEF Idle
    <3>2. Stepped(n, Idle) \/ Stepped(n, k)
      BY <2>2 DEF FetchFound, EndFetch, Stepped
    <3> HIDE DEF k
    <3> QED
      BY <1>1, <3>1, <3>2
  <2> QED
    BY <1>3, <2>1, <2>2 DEF FetchStep
<1>4. ASSUME NEW t \in Tx, NEW active \in SUBSET Archivers, StartFetch(t, active)
      PROVE  DecidedInv'
  BY <1>1, <1>4, AskNextQueuesNone DEF StartFetch, Caller
<1>5. ASSUME NEW n \in Connection, NEW batch \in Batches, Deliver(n, batch)
      PROVE  DecidedInv'
  <2> DEFINE k == [Idle EXCEPT !.pc = "next", !.todo = batch]
  <2>1. k.receipts = <<>> /\ Stepped(n, k) /\ n \in Caller
    BY <1>5 DEF Deliver, Stepped, Idle, Caller
  <2> HIDE DEF k
  <2> QED
    BY <1>1, <2>1
<1>6. CASE UNCHANGED calls
  BY <1>6 DEF DecidedInv
<1>7. CASE Restart
  BY <1>7 DEF Restart, DecidedInv, Decided, Idle
<1>8. ASSUME \/ \E c \in Announced, a \in Archivers : Announce(a, TxOf[c], TimeOf[c])
             \/ \E time \in Time : CleanOldReceiptsMap(time)
             \/ UNCHANGED vars
      PROVE  DecidedInv'
  BY <1>6, <1>8 DEF Announce, CleanOldReceiptsMap, vars
<1> QED
  BY <1>2, <1>3, <1>4, <1>5, <1>7, <1>8 DEF Next

\* A row that a bulk insert changes is one of those inserted.
LEMMA ReplacedReceipt ==
  ASSUME NEW table, NEW S, NEW rows \in Seq(S), NEW t \in Tx,
         ReplaceReceipts(table, rows)[t] # table[t]
  PROVE  \E i \in DOMAIN rows : TxOf[rows[i].copy] = t /\ ReplaceReceipts(table, rows)[t] = rows[i].copy
<1> DEFINE at == {i \in DOMAIN rows : TxOf[rows[i].copy] = t}
<1>1. ReplaceReceipts(table, rows)[t] = IF at = {} THEN table[t] ELSE rows[LastOf(at)].copy
  BY DEF ReplaceReceipts
<1>2. at # {} /\ at \subseteq 1..Len(rows) /\ Len(rows) \in Nat
  BY <1>1
<1>3. LastOf(at) \in at
  BY <1>2, LastOfIn
<1> QED
  BY <1>1, <1>2, <1>3

LEMMA ReplacedAccount ==
  ASSUME NEW table, NEW rows, NEW a \in Account,
         ReplaceAccounts(table, rows)[a] # table[a]
  PROVE  \E i \in DOMAIN rows : rows[i].account = a
BY DEF ReplaceAccounts

\* Only an insert writes receipts, and only two steps write accounts.
LEMMA WhoWrites ==
  ASSUME [Next]_vars
  PROVE  /\ \/ UNCHANGED receiptsTable
            \/ \E n \in Caller : InsertReceipts(n)
         /\ \/ UNCHANGED accountsTable
            \/ \E n \in Caller : ApplyAccount(n) \/ InsertAccounts(n)
<1>1. ASSUME NEW n \in Caller, CallStep(n)
      PROVE  /\ UNCHANGED receiptsTable \/ InsertReceipts(n)
             /\ UNCHANGED accountsTable \/ ApplyAccount(n) \/ InsertAccounts(n)
  BY <1>1 DEF CallStep, SkipCopy, StartCopy, Reject, Decline, Drop, ReadReceipt, Accept, ReadAccount,
              Throw, ThrowAccepted, ApplyAccount, InsertReceipts, InsertAccounts, InsertTxs, dbVars
<1>2. ASSUME NEW n \in Caller, FetchStep(n)
      PROVE  UNCHANGED <<receiptsTable, accountsTable>>
  BY <1>2 DEF FetchStep, FetchNothing, FetchFound, dbVars
<1>3. ASSUME \/ \E n \in Connection, batch \in Batches : Deliver(n, batch)
             \/ \E c \in Announced, a \in Archivers : Announce(a, TxOf[c], TimeOf[c])
             \/ \E t \in Tx, active \in SUBSET Archivers : StartFetch(t, active)
             \/ \E time \in Time : CleanOldReceiptsMap(time)
             \/ Restart
             \/ UNCHANGED vars
      PROVE  UNCHANGED <<receiptsTable, accountsTable>>
  BY <1>3 DEF Deliver, Announce, StartFetch, CleanOldReceiptsMap, Restart, vars, dbVars
<1> QED
  BY <1>1, <1>2, <1>3 DEF Next

\* The cases of verifyAppReceiptData, for a decision on the row that is there.
LEMMA SettlesMore ==
  ASSUME NEW c \in Copy, NEW d \in Copy, NeedToSave(c, d), TimeOf[c] # TimeOf[d],
         OutcomeOf[c] # "global"
  PROVE  ~(Rank(c) <= Rank(d))
<1>1. OutcomeOf[d] = "free" /\ OutcomeOf[c] \in {"success", "charged"}
  BY CopyAssumption DEF NeedToSave
<1>2. Rank(d) = 0
  BY <1>1 DEF Rank
<1>3. Rank(c) = 1
  BY <1>1 DEF Rank
<1> QED
  BY <1>2, <1>3

\* A stored receipt gives way to one that settles no more only after a decision on another
\* row, for any receipts, batches and buckets (verifyAppReceiptData, storeReceiptData).
THEOREM SupersededHolds == Spec => SupersededOnlyUnseen
<1>1. Init => DecidedInv
  BY DEF Init, DecidedInv, Decided, Idle
<1>2. TypeInv /\ DecidedInv /\ [Next]_vars => DecidedInv'
  BY DecidedInvariance
<1>3. Spec => []DecidedInv
  BY <1>1, <1>2, TypeCorrect, PTL DEF Spec
<1> DEFINE Right == \A t \in Tx :
                      /\ receiptsTable[t] # NoCopy
                      /\ receiptsTable'[t] # receiptsTable[t]
                      /\ TimeOf[receiptsTable'[t]] # TimeOf[receiptsTable[t]]
                      /\ OutcomeOf[receiptsTable'[t]] # "global"
                      /\ Rank(receiptsTable'[t]) <= Rank(receiptsTable[t])
                      => OutdatedReceipt(t)
<1>4. TypeInv /\ DecidedInv /\ [Next]_vars => [Right]_vars
  <2> SUFFICES ASSUME TypeInv, DecidedInv, [Next]_vars, NEW t \in Tx,
                      receiptsTable[t] # NoCopy,
                      receiptsTable'[t] # receiptsTable[t],
                      TimeOf[receiptsTable'[t]] # TimeOf[receiptsTable[t]],
                      OutcomeOf[receiptsTable'[t]] # "global",
                      Rank(receiptsTable'[t]) <= Rank(receiptsTable[t]),
                      ~OutdatedReceipt(t)
               PROVE  FALSE
    OBVIOUS
  <2>1. PICK n \in Caller : InsertReceipts(n)
    BY WhoWrites
  <2> DEFINE rows == calls[n].receipts
  <2>2. /\ rows \in Seq([copy : Copy, seen : Copy \cup {NoCopy}])
        /\ receiptsTable[t] \in Copy
    BY DEF TypeInv, TypeOK, Call
  <2>3. receiptsTable' = ReplaceReceipts(receiptsTable, rows) /\ calls[n].pc = "insertReceipts"
    BY <2>1 DEF InsertReceipts
  <2>4. PICK i \in DOMAIN rows : TxOf[rows[i].copy] = t /\ receiptsTable'[t] = rows[i].copy
    BY <2>2, <2>3, ReplacedReceipt
  <2>5. rows[i] \in [copy : Copy, seen : Copy \cup {NoCopy}]
    BY <2>2, EntryIn, Zenon
  <2>6. rows[i].seen = receiptsTable[t]
    BY <2>3, <2>4 DEF OutdatedReceipt
  <2>7. NeedToSave(rows[i].copy, rows[i].seen)
    BY DEF DecidedInv, Decided
  <2> QED
    BY <2>2, <2>4, <2>5, <2>6, <2>7, SettlesMore
<1> QED
  BY <1>3, <1>4, TypeCorrect, PTL DEF Spec, SupersededOnlyUnseen

\* An account goes back to an older state only after its row was read too early, for any
\* receipts and calls (storeReceiptData).
THEOREM RewoundHolds == Spec => RewoundOnlyUnseen
<1> DEFINE Right == \A a \in Account : accountsTable'[a] < accountsTable[a] => OutdatedAccount(a)
<1>1. TypeInv /\ [Next]_vars => [Right]_vars
  <2> SUFFICES ASSUME TypeInv, [Next]_vars, NEW a \in Account,
                      accountsTable'[a] < accountsTable[a], ~OutdatedAccount(a)
               PROVE  FALSE
    OBVIOUS
  <2>0. accountsTable \in [Account -> Nat]
    BY DEF TypeInv, TypeOK
  <2>1. accountsTable'[a] # accountsTable[a]
    BY <2>0
  <2>2. PICK n \in Caller : ApplyAccount(n) \/ InsertAccounts(n)
    BY <2>1, WhoWrites
  <2>3. CASE InsertAccounts(n)
    <3>1. /\ accountsTable' = ReplaceAccounts(accountsTable, calls[n].accounts)
          /\ calls[n].pc = "insertAccounts"
      BY <2>1, <2>3 DEF InsertAccounts
    <3>2. \E i \in DOMAIN calls[n].accounts : calls[n].accounts[i].account = a
      BY <2>1, <3>1, ReplacedAccount
    <3> QED
      BY <3>1, <3>2 DEF OutdatedAccount
  <2>4. CASE ApplyAccount(n)
    <3> DEFINE state == Head(calls[n].states)
    <3>1. /\ calls[n].pc = "apply" /\ Newer(state, calls[n].row)
          /\ accountsTable' = [accountsTable EXCEPT ![state.account] = state.time]
      BY <2>1, <2>4 DEF ApplyAccount
    <3>2. state \in AccountState
      BY <3>1, AppliedReady
    <3> HIDE DEF state
    <3>3. state.account = a /\ accountsTable'[a] = state.time
      BY <2>0, <2>1, <3>1
    <3>4. calls[n].row = accountsTable[a]
      BY <3>1, <3>3 DEF OutdatedAccount, state
    <3>5. state.time > accountsTable[a] /\ state.time \in Nat /\ accountsTable[a] \in Nat
      BY <2>0, <3>1, <3>2, <3>4 DEF Newer, AccountState
    <3> QED
      BY <3>3, <3>5
  <2> QED
    BY <2>2, <2>3, <2>4
<1> QED
  BY <1>1, TypeCorrect, PTL DEF Spec, RewoundOnlyUnseen

=============================================================================

----------------------------- MODULE ArchiverApi -----------------------------
(***************************************************************************)
(* The queries archivers answer for each other: the statements of dbstore/ *)
(* and the handlers of API.ts around them.  A table is a set of rows with  *)
(* an id, a cycle and a timestamp; a request is a record that has the      *)
(* fields the client sent.  Signatures and the check of the sender         *)
(* (validateRequestData) are left out: requests come from archivers that   *)
(* are allowed.  A query that fails is the client's lost answer.           *)
(***************************************************************************)
EXTENDS Integers, FiniteSets

CONSTANTS
  MaxPerRequest,      \* MAX_RECEIPTS_PER_REQUEST and its like, which are equal
  MaxAccounts,        \* MAX_ACCOUNTS_PER_REQUEST
  MaxBetweenCycles    \* MAX_BETWEEN_CYCLES_PER_REQUEST

\* Assumed of the constants.
RequestLimits ==
  /\ MaxPerRequest \in Nat \ {0}
  /\ MaxAccounts \in Nat \ {0}
  /\ MaxBetweenCycles \in Nat \ {0}

\* ORDER BY cycle ASC, timestamp ASC; rows that are equal in both come by id.
Before(r, s) ==
  \/ r.cycle < s.cycle
  \/ r.cycle = s.cycle /\ r.timestamp < s.timestamp
  \/ r.cycle = s.cycle /\ r.timestamp = s.timestamp /\ r.id < s.id

Rank(T, r) == Cardinality({s \in T : Before(s, r)})

\* LIMIT limit OFFSET skip, and the same in descending order.
Page(T, skip, limit) == {r \in T : skip <= Rank(T, r) /\ Rank(T, r) < skip + limit}
Last(T, count) == {r \in T : Rank(T, r) >= Cardinality(T) - count}

\* WHERE cycle BETWEEN from AND to.
Between(T, from, to) == {r \in T : from <= r.cycle /\ r.cycle <= to}

\* COUNT(*) ... GROUP BY cycle: only cycles that have rows are in the answer.
CountByCycle(T, from, to) ==
  [c \in {r.cycle : r \in Between(T, from, to)} |-> Cardinality({r \in T : r.cycle = c})]

-----------------------------------------------------------------------------
(* The statements of each table.                                           *)

queryReceipts(T, skip, limit) == Page(T, skip, limit)
queryLatestReceipts(T, count) == Last(T, count)
queryReceiptByReceiptId(T, id, timestamp) ==
  {r \in T : r.id = id /\ (timestamp = 0 \/ r.timestamp = timestamp)}
queryReceiptCountByCycles(T, from, to) == CountByCycle(T, from, to)
queryReceiptCountBetweenCycles(T, from, to) == Cardinality(Between(T, from, to))
queryReceiptsBetweenCycles(T, skip, limit, from, to) == Page(Between(T, from, to), skip, limit)

\* startCycle && endCycle: with a cycle 0 the WHERE is left out.
OriginalTxsOf(T, from, to) == IF from = 0 \/ to = 0 THEN T ELSE Between(T, from, to)
queryOriginalTxsData(T, skip, limit, from, to) == Page(OriginalTxsOf(T, from, to), skip, limit)
queryOriginalTxDataCount(T, from, to) == Cardinality(OriginalTxsOf(T, from, to))
queryOriginalTxDataCountByCycles(T, from, to) == CountByCycle(T, from, to)
queryLatestOriginalTxs(T, count) == Last(T, count)
queryOriginalTxDataByTxId(T, id, timestamp) ==
  {r \in T : r.id = id /\ (timestamp = 0 \/ r.timestamp = timestamp)}

queryAccountCountBetweenCycles(T, from, to) == Cardinality(Between(T, from, to))
queryAccountsBetweenCycles(T, skip, limit, from, to) == Page(Between(T, from, to), skip, limit)

queryTransactionCountBetweenCycles(T, from, to) == Cardinality(Between(T, from, to))
queryTransactionsBetweenCycles(T, skip, limit, from, to) ==
  Page(Between(T, from, to), skip, limit)

\* The cycles table of an archiver is the set of its records, whatever order they came in.
queryCycleRecordsBetween(C, start, end) == {c \in C : start <= c.counter /\ c.counter <= end}
queryLatestCycleRecords(C, count) ==
  {c \in C : Cardinality({d \in C : d.counter > c.counter}) < count}

-----------------------------------------------------------------------------
(* The handlers.                                                           *)

Has(req, field) == field \in DOMAIN req
Truthy(req, field) == Has(req, field) /\ req[field] # 0

Invalid == [success |-> FALSE]
Rows(S) == [success |-> TRUE, rows |-> S]
Total(n) == [success |-> TRUE, total |-> n]
Tally(f) == [success |-> TRUE, tally |-> f]

\* end ? end : from
To(req, from, to) == IF Truthy(req, to) THEN req[to] ELSE req[from]
ValidRange(req, from, to, max) ==
  /\ req[from] >= 0
  /\ To(req, from, to) >= req[from]
  /\ To(req, from, to) - req[from] <= max

\* skip = page - 1, times the limit
Skip(req, limit) == IF Truthy(req, "page") THEN (req.page - 1) * limit ELSE 0
ValidPage(req) == Truthy(req, "page") => req.page >= 1

ValidCount(req, max) == 0 < req.count /\ req.count <= max

receiptReply(T, req) ==
  LET from == req.startCycle
      to == To(req, "startCycle", "endCycle")
  IN  CASE Truthy(req, "count") ->
             IF ValidCount(req, MaxPerRequest) THEN Rows(queryLatestReceipts(T, req.count)) ELSE Invalid
        [] ~Truthy(req, "count") /\ Has(req, "txIdList") ->
             IF Cardinality(req.txIdList) <= MaxPerRequest
               THEN Rows(UNION {queryReceiptByReceiptId(T, tx[1], tx[2]) : tx \in req.txIdList})
               ELSE Invalid
        [] ~Truthy(req, "count") /\ ~Has(req, "txIdList") /\ Has(req, "start") ->
             IF ValidRange(req, "start", "end", MaxPerRequest)
               THEN Rows(queryReceipts(T, req.start, To(req, "start", "end") - req.start + 1))
               ELSE Invalid
        [] OTHER ->
             CASE ~ValidRange(req, "startCycle", "endCycle", MaxBetweenCycles) -> Invalid
               [] Has(req, "type") /\ req.type = "tally" -> Tally(queryReceiptCountByCycles(T, from, to))
               [] Has(req, "type") /\ req.type = "count" -> Total(queryReceiptCountBetweenCycles(T, from, to))
               [] ~Has(req, "type") /\ ~ValidPage(req) -> Invalid
               [] OTHER -> Rows(queryReceiptsBetweenCycles(T, Skip(req, MaxPerRequest), MaxPerRequest, from, to))

originalTxReply(T, req) ==
  LET from == req.startCycle
      to == To(req, "startCycle", "endCycle")
  IN  CASE Truthy(req, "count") ->
             IF ValidCount(req, MaxPerRequest) THEN Rows(queryLatestOriginalTxs(T, req.count)) ELSE Invalid
        [] ~Truthy(req, "count") /\ Has(req, "txIdList") ->
             IF Cardinality(req.txIdList) <= MaxPerRequest
               THEN Rows(UNION {queryOriginalTxDataByTxId(T, tx[1], tx[2]) : tx \in req.txIdList})
               ELSE Invalid
        [] ~Truthy(req, "count") /\ ~Has(req, "txIdList") /\ Has(req, "start") ->
             IF ValidRange(req, "start", "end", MaxPerRequest)
               THEN Rows(queryOriginalTxsData(T, req.start, To(req, "start", "end") - req.start + 1, 0, 0))
               ELSE Invalid
        [] OTHER ->
             CASE ~ValidRange(req, "startCycle", "endCycle", MaxBetweenCycles) -> Invalid
               [] Has(req, "type") /\ req.type = "tally" -> Tally(queryOriginalTxDataCountByCycles(T, from, to))
               [] Has(req, "type") /\ req.type = "count" -> Total(queryOriginalTxDataCount(T, from, to))
               [] ~Has(req, "type") /\ ~ValidPage(req) -> Invalid
               [] OTHER -> Rows(queryOriginalTxsData(T, Skip(req, MaxPerRequest), MaxPerRequest, from, to))

\* With a page the answer has the rows of the page, and always the total.
accountReply(T, req) ==
  LET from == req.startCycle
      to == To(req, "startCycle", "endCycle")
  IN  CASE ~ValidRange(req, "startCycle", "endCycle", MaxBetweenCycles) \/ ~ValidPage(req) -> Invalid
        [] Truthy(req, "page") ->
             [success |-> TRUE, total |-> queryAccountCountBetweenCycles(T, from, to),
              rows |-> queryAccountsBetweenCycles(T, Skip(req, MaxAccounts), MaxAccounts, from, to)]
        [] OTHER -> Total(queryAccountCountBetweenCycles(T, from, to))

transactionReply(T, req) ==
  LET from == req.startCycle
      to == To(req, "startCycle", "endCycle")
  IN  CASE ~ValidRange(req, "startCycle", "endCycle", MaxBetweenCycles) \/ ~ValidPage(req) -> Invalid
        [] Truthy(req, "page") ->
             [success |-> TRUE, total |-> queryTransactionCountBetweenCycles(T, from, to),
              rows |-> queryTransactionsBetweenCycles(T, Skip(req, MaxAccounts), MaxAccounts, from, to)]
        [] OTHER -> Total(queryTransactionCountBetweenCycles(T, from, to))

cycleinfoReply(C, req) ==
  IF Truthy(req, "count")
    THEN IF ValidCount(req, MaxPerRequest) THEN Rows(queryLatestCycleRecords(C, req.count)) ELSE Invalid
    ELSE IF ValidRange(req, "start", "end", MaxPerRequest)
           THEN Rows(queryCycleRecordsBetween(C, req.start, To(req, "start", "end")))
           ELSE Invalid

=============================================================================

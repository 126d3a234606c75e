--------------------------- MODULE AccountServing ---------------------------
(***************************************************************************)
(* Account data served to validators while the network restores its state  *)
(* (Data/AccountDataProvider.ts, API.ts): which validators an archiver     *)
(* serves at the same time, and the pages of accounts they get.            *)
(*                                                                         *)
(* Time is counted in the ten seconds that are both the timeout of a       *)
(* validator and the period of the timer that looks for timeouts.          *)
(***************************************************************************)
EXTENDS Integers, FiniteSetsExt, SequencesExt

CONSTANTS
  Validators,
  maxValidatorsToServe,
  Modes, Changes,    \* network modes, and which may follow which
  Tables,            \* accounts at first: identifier |-> timestamp, identifiers ordered as numbers
  MaxRecords,        \* accounts per page
  StartTime, MaxTime \* bounds

\* Assumed of the constants.
ServingAssumption ==
  /\ IsFiniteSet(Validators)
  /\ maxValidatorsToServe \in Nat \ {0} /\ MaxRecords \in Nat \ {0}
  /\ StartTime \in Nat /\ MaxTime \in Nat /\ StartTime <= MaxTime
  /\ "none" \in Modes /\ Changes \subseteq Modes \X Modes

VARIABLES
  now, mode,
  accounts,
  servingValidators,   \* validator |-> when it was last served
  interval,            \* when the timer was started, or Never
  asked,               \* validator |-> when it last asked, or Never
  paging,              \* validator |-> what its next page starts with, and what it has got
  refused              \* history: the last refusal of a validator as one too many

vars == <<now, mode, accounts, servingValidators, interval, asked, paging, refused>>

Never == -1

-----------------------------------------------------------------------------
(* Pages.                                                                  *)

Row == [accountId : Nat, timestamp : Nat]
Rows == {[accountId |-> id, timestamp |-> accounts[id]] : id \in DOMAIN accounts}
Before(a, b) ==
  a.timestamp < b.timestamp \/ (a.timestamp = b.timestamp /\ a.accountId < b.accountId)
OrderedRows(rows, limit) ==
  LET sorted == SetToSortSeq(rows, Before) IN SubSeq(sorted, 1, Min({limit, Len(sorted)}))

\* accountId >= accountOffset AND timestamp BETWEEN tsStart AND now, without an offset otherwise.
QueryAccounts(tsStart, accountOffset) ==
  OrderedRows({r \in Rows : r.accountId >= accountOffset /\ r.timestamp \in tsStart..now}, MaxRecords)

highestTs(page) == Max({page[i].timestamp : i \in DOMAIN page})
Recent(page) == now - highestTs(page) <= 1     \* less than twice the queue sit time

provideAccountDataRequest(tsStart, accountOffset) ==
  LET page == QueryAccounts(tsStart, accountOffset)
      last == page = <<>> \/ Recent(page)
  IN [wrappedAccounts |-> page,
      lastUpdateNeeded |-> last,
      wrappedAccounts2 |-> IF last /\ page # <<>> THEN QueryAccounts(highestTs(page), 0) ELSE <<>>]

-----------------------------------------------------------------------------
(* Requests.                                                               *)

Busy(v) ==
  v \notin DOMAIN servingValidators /\ Cardinality(DOMAIN servingValidators) >= maxValidatorsToServe

\* A validator asks on from the last account of its page, until a page is not full.
Received(position, data) ==
  LET page == data.wrappedAccounts
      ids == {r.accountId : r \in ToSet(page) \cup ToSet(data.wrappedAccounts2)}
  IN [tsStart |-> IF page = <<>> THEN position.tsStart ELSE Last(page).timestamp,
      accountOffset |-> IF page = <<>> THEN position.accountOffset ELSE Last(page).accountId,
      got |-> position.got \cup ids,
      finished |-> Len(page) < MaxRecords]

\* POST /get_account_data_archiver: validateAccountDataRequest and provideAccountDataRequest.
GetAccountData(v) ==
  /\ mode = "restore" /\ ~paging[v].finished
  /\ asked' = [asked EXCEPT ![v] = now]
  /\ IF Busy(v)
     THEN /\ refused' = [time |-> now, timer |-> interval,
                          others |-> {u \in Validators \ {v} : asked[u] # Never /\ now - asked[u] <= 1}]
          /\ UNCHANGED <<servingValidators, paging>>
     ELSE /\ servingValidators' = [u \in DOMAIN servingValidators \cup {v} |->
                                     IF u = v THEN now ELSE servingValidators[u]]
          /\ paging' = [paging EXCEPT ![v] =
               Received(@, provideAccountDataRequest(@.tsStart, @.accountOffset))]
          /\ UNCHANGED refused
  /\ UNCHANGED <<now, mode, accounts, interval>>

\* A receipt or another archiver's page makes an account newer.
AccountStored ==
  \E id \in DOMAIN accounts :
    /\ accounts' = [accounts EXCEPT ![id] = now]
    /\ UNCHANGED <<now, mode, servingValidators, interval, asked, paging, refused>>

-----------------------------------------------------------------------------
(* Time and modes.                                                         *)

\* Wrong on purpose: a validator keeps its place for a period more.
clearTimeoutLate(time) ==
  LET kept == {v \in DOMAIN servingValidators : time - servingValidators[v] <= 2}
  IN servingValidators' = [v \in kept |-> servingValidators[v]]

clearTimeoutServingValidators(time) ==
  LET kept == {v \in DOMAIN servingValidators : time - servingValidators[v] <= 1}
  IN servingValidators' = [v \in kept |-> servingValidators[v]]

Tick ==
  /\ now < MaxTime
  /\ now' = now + 1
  /\ IF interval # Never THEN clearTimeoutServingValidators(now') ELSE UNCHANGED servingValidators
  /\ UNCHANGED <<mode, accounts, interval, asked, paging, refused>>

\* changeNetworkMode.  The map of validators is left as it is.
ChangeNetworkMode ==
  \E newMode \in Modes :
    /\ <<mode, newMode>> \in Changes
    /\ mode' = newMode
    /\ interval' = CASE mode = "restore" /\ newMode = "processing" -> Never
                    [] mode \in {"restart", "recovery"} /\ newMode = "restore" /\ interval = Never -> now
                    [] OTHER -> interval
    /\ UNCHANGED <<now, accounts, servingValidators, asked, paging, refused>>

-----------------------------------------------------------------------------
Init ==
  /\ now = StartTime /\ mode = "none" /\ interval = Never
  /\ accounts \in Tables
  /\ servingValidators = <<>>
  /\ asked = [v \in Validators |-> Never]
  /\ paging = [v \in Validators |->
                 [tsStart |-> 0, accountOffset |-> 0, got |-> {}, finished |-> FALSE]]
  /\ refused = [time |-> 0, timer |-> Never, others |-> {}]

Next == (\E v \in Validators : GetAccountData(v)) \/ AccountStored \/ Tick \/ ChangeNetworkMode

Spec == Init /\ [][Next]_vars

-----------------------------------------------------------------------------
TypeOK ==
  /\ now \in StartTime..MaxTime /\ mode \in Modes
  /\ DOMAIN servingValidators \subseteq Validators
  /\ Cardinality(DOMAIN servingValidators) <= maxValidatorsToServe
  /\ interval \in {Never} \cup StartTime..now
  /\ \A v \in Validators : asked[v] \in {Never} \cup StartTime..now

\* An archiver that has seen the network restart, and had its timer for a period, turns a validator
\* away only while as many others as it serves at a time have asked it within the last periods:
\* the places of validators that fell silent, and of an earlier restore, are free again.
BusyOnlyWithOthers ==
  refused.timer # Never /\ refused.timer < refused.time
    => Cardinality(refused.others) >= maxValidatorsToServe

\* A validator that pages through the accounts, each page from the last account of the one before,
\* as the query quoted in the code would let it, ends with every account.
EveryAccountPaged ==
  \A v \in Validators : paging[v].finished => paging[v].got = DOMAIN accounts
=============================================================================

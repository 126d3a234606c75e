--------------------------- MODULE NetworkAccount ---------------------------
(***************************************************************************)
(* The global network account as an archiver keeps it (GlobalAccount.ts):  *)
(* replaced by the account of every receipt of a change to it, and changed *)
(* by the archiver itself in the cycle for which a listed change is due.   *)
(*                                                                         *)
(* An account has a timestamp, the list of its changes and the values now  *)
(* in force ("current").  Validators put a change on the list with a       *)
(* transaction and give it effect, with no transaction, in its cycle.      *)
(* Writes to the database are queued, and each is followed by the          *)
(* assignment of what it wrote, so that the two are one step.              *)
(***************************************************************************)
EXTENDS Integers, FiniteSetsExt, SequencesExt

CONSTANTS
  Settings,      \* what changes set
  MaxChanges, MaxCycle, MaxRestarts, Lag,   \* bounds
  CyclesToKeep, ChangesToKeep

\* Assumed of the constants.
AccountAssumption ==
  /\ MaxChanges \in Nat /\ MaxCycle \in Nat /\ MaxRestarts \in Nat /\ Lag \in Nat
  /\ CyclesToKeep \in Nat /\ ChangesToKeep \in Nat \ {0}

VARIABLES
  netCycle, net,   \* the validators' cycle and account
  receipts,        \* accounts of receipts not yet collected
  done,            \* cycles the archiver has processed
  account, stored, \* cachedGlobalNetworkAccount, and its row
  applied,         \* appliedConfigChanges
  updates,         \* cycle |-> the run of updateGlobalNetworkAccount in it
  disturbed,       \* history: an account was set at a bad moment
  restarts

vars == <<netCycle, net, receipts, done, account, stored, applied, updates, disturbed, restarts>>

NoAccount == [timestamp |-> 0]
Change ==
  [id : 1..MaxChanges, cycle : 1..(MaxCycle + 1), set : SUBSET Settings, initShutdown : BOOLEAN]
Account == [timestamp : Nat, changes : Seq(Change), current : [Settings -> Nat]]

-----------------------------------------------------------------------------
(* Changes and their effect.                                               *)

generatePathKeys(change) == change.set \cup (IF change.initShutdown THEN {"p2p.initShutdown"} ELSE {})
Newer(changes, i, key) == {j \in (i + 1)..Len(changes) : key \in generatePathKeys(changes[j])}
KeepAlive(changes, i, cycle) ==
  \/ \E key \in generatePathKeys(changes[i]) : Cardinality(Newer(changes, i, key)) < ChangesToKeep
  \/ cycle - changes[i].cycle <= CyclesToKeep

pruneNetworkChangeQueue(changes, cycle) ==
  LET kept == {i \in DOMAIN changes : KeepAlive(changes, i, cycle)}
  IN [k \in 1..Cardinality(kept) |->
        changes[CHOOSE i \in kept : Cardinality({j \in kept : j <= i}) = k]]

patchAndUpdate(current, change) ==
  [s \in Settings |-> IF s \in change.set THEN change.id ELSE current[s]]

Changed(acc, change, cycle) ==
  [acc EXCEPT !.changes = pruneNetworkChangeQueue(@, cycle), !.current = patchAndUpdate(@, change)]

-----------------------------------------------------------------------------
(* The validators.                                                         *)

\* A transaction lists a change for a later cycle, not before one that is listed already: after a
\* restart an archiver goes through the whole list again, in the order of the list.
ListChange ==
  /\ net.timestamp <= MaxChanges
  /\ \E cycle \in (netCycle + 1)..(MaxCycle + 1), set \in SUBSET Settings :
       /\ \A change \in ToSet(net.changes) : change.cycle <= cycle
       /\ net' = [net EXCEPT !.timestamp = @ + 1,
                    !.changes = Append(@, [id |-> net.timestamp, cycle |-> cycle, set |-> set,
                                           initShutdown |-> set = {}])]
  /\ receipts' = receipts \cup {net'}
  /\ UNCHANGED <<netCycle, done, account, stored, applied, updates, disturbed, restarts>>

\* The changes due in a cycle take effect in the order of the list.
NetworkCycle ==
  /\ netCycle < MaxCycle /\ netCycle - done < Lag
  /\ netCycle' = netCycle + 1
  /\ net' = FoldLeft(LAMBDA acc, change :
                       IF change.cycle = netCycle' THEN Changed(acc, change, netCycle') ELSE acc,
                     net, net.changes)
  /\ UNCHANGED <<receipts, done, account, stored, applied, updates, disturbed, restarts>>

-----------------------------------------------------------------------------
(* updateGlobalNetworkAccount, called at the end of processing a cycle.    *)

Future(change, cycle) == change.cycle > cycle
\* Wrong on purpose: every change of an earlier cycle is skipped.
SkippedLate(change, cycle) == change.cycle # cycle
Skipped(change, cycle) == change.initShutdown /\ change.cycle # cycle

\* The loop from position "from" on, up to the next change that it applies.
Loop(run, from, cycle, handled) ==
  LET list == run.account.changes
      apply == {i \in from..Len(list) : /\ ~Future(list[i], cycle) /\ list[i] \notin handled
                                        /\ ~Skipped(list[i], cycle)}
      at == IF apply = {} THEN Len(list) + 1 ELSE Min(apply)
      seen == {list[i] : i \in {j \in from..Len(list) : j <= at /\ ~Future(list[j], cycle)}}
  IN [at |-> at, seen |-> seen, ends |-> apply = {},
      account |-> IF apply = {} THEN run.account ELSE Changed(run.account, list[at], cycle)]

\* The change applied is older than one in force that the loop will not apply again, because it is
\* handled already or no longer in the list: a value is set back.
SetsBack(acc, change) ==
  \E s \in change.set : /\ acc.current[s] > change.id
                        /\ \A other \in ToSet(acc.changes) \ applied : other.id # acc.current[s]

\* activeConfigChanges is empty when no change of the list is due.
Kept(handled, active) == IF active = {} THEN handled ELSE handled \cap active

\* What the loop does until it writes the account, or ends.
Proceed(cycle, run, from) ==
  LET step == Loop(run, from, cycle, applied)
      active == run.active \cup step.seen
      next == [account |-> step.account, at |-> step.at, active |-> active,
               spoilt |-> \/ Len(step.account.changes) < Len(run.account.changes)
                          \/ ~step.ends /\ SetsBack(run.account, run.account.changes[step.at])]
  IN IF step.ends
     THEN /\ applied' = Kept(applied \cup step.seen, active)
          /\ updates' = [c \in DOMAIN updates \ {cycle} |-> updates[c]]
     ELSE /\ applied' = applied \cup step.seen
          /\ updates' = [c \in DOMAIN updates \cup {cycle} |-> IF c = cycle THEN next ELSE updates[c]]

\* The list that is gone through becomes shorter, and the change after the one applied is passed
\* over; or a value is set back.
Spoilt(cycle, runs) ==
  cycle \in DOMAIN runs /\ runs[cycle].spoilt

\* An update that starts while another is under way copies the account without the other's change.
ProcessCycle ==
  /\ done < netCycle
  /\ done' = done + 1
  /\ IF account = NoAccount
     THEN UNCHANGED <<applied, updates>>
     ELSE Proceed(done', [account |-> account, active |-> {}], 1)
  /\ disturbed' = (disturbed \/ updates # <<>> \/ Spoilt(done', updates'))
  /\ UNCHANGED <<netCycle, net, receipts, account, stored, restarts>>

\* The account is written and set, and the loop goes on in the list it has pruned.
AccountUpdated ==
  \E cycle \in DOMAIN updates :
    /\ account' = updates[cycle].account
    /\ stored' = updates[cycle].account
    /\ Proceed(cycle, updates[cycle], updates[cycle].at + 1)
    /\ disturbed' = (disturbed \/ Spoilt(cycle, updates'))
    /\ UNCHANGED <<netCycle, net, receipts, done, restarts>>

-----------------------------------------------------------------------------
(* Accounts from receipts, and after a restart.                            *)

\* A bad moment for an account: an update under way will put its own copy in its place, or it was
\* made before a change of its list took effect that is handled already.
BadMoment(acc) ==
  \/ updates # <<>>
  \/ acc # net /\ \E i \in DOMAIN acc.changes : acc.changes[i] \in applied

\* storeReceiptData: the row only becomes newer, the cached account is set in any case.
CollectReceipt ==
  \E acc \in receipts :
    /\ account' = acc
    /\ stored' = IF stored = NoAccount \/ acc.timestamp > stored.timestamp THEN acc ELSE stored
    /\ receipts' = receipts \ {acc}
    /\ disturbed' = (BadMoment(acc) \/ (disturbed /\ acc # net))
    /\ UNCHANGED <<netCycle, net, done, applied, updates, restarts>>

\* loadGlobalAccounts of the first archiver, or syncGlobalAccount from others that are up to date.
Restart ==
  /\ restarts < MaxRestarts
  /\ restarts' = restarts + 1
  /\ applied' = {} /\ updates' = <<>>
  /\ \/ account' = stored /\ UNCHANGED <<done, stored>>
        /\ disturbed' = (disturbed \/ account # stored \/ updates # <<>>)
     \/ account' = net /\ done' = netCycle /\ disturbed' = FALSE /\ UNCHANGED stored
     \/ account' = NoAccount /\ UNCHANGED <<done, stored>> /\ disturbed' = FALSE
  /\ UNCHANGED <<netCycle, net, receipts>>

-----------------------------------------------------------------------------
Init ==
  /\ netCycle = 0 /\ done = 0 /\ restarts = 0
  /\ net = [timestamp |-> 1, changes |-> <<>>, current |-> [s \in Settings |-> 0]]
  /\ account \in {NoAccount, net} /\ stored = account
  /\ receipts = {} /\ applied = {} /\ updates = <<>> /\ disturbed = FALSE

Next == ListChange \/ NetworkCycle \/ ProcessCycle \/ AccountUpdated \/ CollectReceipt \/ Restart

Spec == Init /\ [][Next]_vars

-----------------------------------------------------------------------------
TypeOK ==
  /\ done \in 0..netCycle /\ netCycle \in 0..MaxCycle
  /\ net \in Account /\ receipts \subseteq Account
  /\ {account, stored} \subseteq Account \cup {NoAccount}
  /\ applied \subseteq Change /\ DOMAIN updates \subseteq 1..done
  /\ disturbed \in BOOLEAN /\ restarts \in 0..MaxRestarts

\* Due changes of the account that no update has handled yet: those of a receipt that came after its
\* cycle, of the stored account after a restart, and those an update passed over because it pruned
\* the list it went through.  The next update handles them.
Outstanding == {change \in ToSet(account.changes) : ~Future(change, done) /\ change \notin applied}

\* An archiver whose account came from the newest receipt, that has every cycle the validators have
\* and nothing outstanding, has the values in force that they have, unless an account was set at a
\* bad moment.
FollowsNetwork ==
  /\ account # NoAccount /\ account.timestamp = net.timestamp /\ done = netCycle
  /\ updates = <<>> /\ ~disturbed /\ Outstanding = {}
  => account.current = net.current
=============================================================================

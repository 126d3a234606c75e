-------------------------- MODULE ArchiverTracking --------------------------
(***************************************************************************)
(* One archiver among the others: how it joins and leaves the network, its *)
(* lists of archivers and their reputation (State.ts, Data/Cycles.ts), the *)
(* archivers it gossips to (Data/GossipData.ts), and how it answers when   *)
(* the network takes it for lost (LostArchivers.ts).                       *)
(*                                                                         *)
(* Archivers are ordered as their public keys are.  The network makes one  *)
(* record at the end of each cycle, and an archiver that is up processes   *)
(* it, with what it starts, before the next one.  NodeListTracking and     *)
(* CycleProcessing have records that are missed, and calls that overlap.   *)
(***************************************************************************)
EXTENDS Integers, FiniteSetsExt, SequencesExt

CONSTANTS
  Archivers, Self,
  Members,     \* archivers of the network at first
  Changes,     \* what a record may say of other archivers, or of a lost one
  Starts,      \* "start" or "compare": what a start begins with
  Patience,    \* cycles from lostArchivers to removedArchivers
  MaxCycle, MaxRestarts   \* bounds

ASSUME ArchiverAssumption ==
  /\ Archivers \subseteq Nat /\ IsFiniteSet(Archivers) /\ Self \in Archivers
  /\ Members \subseteq Archivers \ {Self}
  /\ \A change \in Changes : change.joined \subseteq Archivers
  /\ Starts \subseteq {"start", "compare"}
  /\ Patience \in Nat \ {0} /\ MaxCycle \in Nat /\ MaxRestarts \in Nat

VARIABLES
  now,        \* the cycle in progress
  record,     \* the newest one, of cycle now - 1
  lostIn,     \* archivers reported lost |-> in which cycle
  heard,      \* requests of this archiver that a validator got in this cycle
  phase, firstTime, asked,
  current, stored,  \* the counters of the newest record processed, and of the stored one
  active, sorted, other, adjacent, remaining, reputation,
  shouldSendRefutes,
  reading,    \* scheduleRefute awaits the newest stored record
  timers,     \* cycles in whose first quarter sendRefute is due
  checking,   \* the archivers recordArchiversReputation has asked
  stale, late, unheard,  \* history
  restarts

network == <<now, record, lostIn, heard>>
lists == <<active, sorted, other, adjacent, remaining>>
refuting == <<shouldSendRefutes, reading, timers>>
starting == <<phase, firstTime, asked, restarts>>
history == <<stale, late, unheard>>
vars == <<network, lists, reputation, refuting, starting, current, stored, checking, history>>

N == INSTANCE NodeList WITH NoId <- -1
Key == [a \in Archivers |-> a]

NoRequest == [join |-> FALSE, leave |-> FALSE, refute |-> FALSE]
Newest == now - 1

-----------------------------------------------------------------------------
(* The lists of State.ts and GossipData.ts.                                *)

\* A set of archivers in the order of their public keys.
InOrder(archivers) == N!InsertAllSorted(Key, <<>>, archivers)

\* addArchiver, for archivers in any order that a record has them.
Added(l, archivers) ==
  LET missing == archivers \ Range(l.active)
  IN [active |-> l.active \o InOrder(missing),
      sorted |-> N!InsertAllSorted(Key, l.sorted, missing),
      other |-> l.other \o InOrder(missing \ {Self})]

Removed(l, archivers) ==
  [active |-> N!Without(l.active, archivers),
   sorted |-> N!Without(l.sorted, archivers),
   other |-> N!Without(l.other, archivers)]

\* resetActiveArchivers.
Reset(archivers) ==
  [active |-> InOrder(archivers), sorted |-> InOrder(archivers),
   other |-> InOrder(archivers \ {Self})]

NoArchivers == [active |-> <<>>, sorted |-> <<>>, other |-> <<>>]

\* getAdjacentLeftAndRightArchivers: an archiver that is not in the list (index 0) has
\* its ends as neighbours.
Adjacent(list, self) ==
  LET index == SelectInSeq(list, LAMBDA a : a = self)
      left == IF index <= 1 THEN Len(list) ELSE index - 1
      right == IF index = Len(list) THEN 1 ELSE index + 1
  IN IF Len(list) = 2
       THEN IF index = 1 THEN {list[2]} ELSE {list[1]}
       ELSE {list[left], list[right]}

Lists == [active |-> active, sorted |-> sorted, other |-> other]

\* Wrong on purpose: the lists are those before the change.
NeighboursBefore(l) ==
  IF Len(active) <= 1
    THEN adjacent' = {} /\ UNCHANGED remaining
    ELSE adjacent' = Adjacent(sorted, Self) /\ remaining' = Range(other) \ adjacent'

\* Alone, it empties one list and leaves the other one.
Neighbours(l) ==
  IF Len(l.active) <= 1
    THEN adjacent' = {} /\ UNCHANGED remaining
    ELSE /\ adjacent' = Adjacent(l.sorted, Self)
         /\ remaining' = Range(l.other) \ adjacent'

SetLists(l) == active' = l.active /\ sorted' = l.sorted /\ other' = l.other

-----------------------------------------------------------------------------
(* The network.                                                            *)

\* A record is made when the archiver has processed the last one, with what it started:
\* requests and timers are far shorter than a cycle.
Paced ==
  phase = "up" => /\ current = Newest /\ stored = current
                  /\ ~reading /\ \A t \in timers : t > now

NetworkCycle ==
  /\ now <= MaxCycle /\ Paced
  /\ \E change \in Changes :
       LET members == record.members
           joined == (change.joined \cup (IF heard.join THEN {Self} ELSE {})) \ members
           leaving == (change.leaving \cup (IF heard.leave THEN {Self} ELSE {})) \cap members
           refuted == (IF heard.refute THEN {Self} ELSE {}) \cap DOMAIN lostIn
           removed == {a \in DOMAIN lostIn : lostIn[a] + Patience <= now} \ refuted
           lost == (change.lost \cap members) \ (DOMAIN lostIn \cup leaving)
           after == (members \cup joined) \ (leaving \cup removed)
           missing == [a \in (DOMAIN lostIn \cup lost) \ (refuted \cup removed \cup leaving) |->
                         IF a \in lost THEN now ELSE lostIn[a]]
       IN /\ record' = [joinedArchivers |-> joined, leavingArchivers |-> leaving,
                         refreshedArchivers |-> change.refreshed \cap members,
                         lostArchivers |-> lost, refutedArchivers |-> refuted,
                         removedArchivers |-> removed, before |-> members, members |-> after]
          /\ lostIn' = missing
  /\ now' = now + 1
  /\ heard' = NoRequest
  /\ UNCHANGED <<lists, reputation, refuting, starting, current, stored, checking, history>>

Hear(request) ==
  heard' = [heard EXCEPT ![request] = TRUE] /\ UNCHANGED <<now, record, lostIn>>

-----------------------------------------------------------------------------
(* Records.                                                                *)

\* handleLostArchivers.
HandleLostArchivers ==
  IF Self \in record.refutedArchivers
    THEN shouldSendRefutes' = FALSE /\ UNCHANGED <<reading, phase>>
    ELSE IF Self \in record.lostArchivers
      THEN shouldSendRefutes' = TRUE /\ reading' = TRUE /\ UNCHANGED phase
      ELSE /\ phase' = IF Self \in record.removedArchivers THEN "exited" ELSE phase
           /\ UNCHANGED <<shouldSendRefutes, reading>>

\* Wrong on purpose: keeps the reputation of an archiver that leaves.
ReputationKept(leaving) == reputation

\* removeActiveArchiver, archiversReputation.
ReputationWithout(leaving) == Restrict(reputation, DOMAIN reputation \ leaving)

\* processCycles up to its first await: updateNodeList with the archivers of a record,
\* getAdjacentLeftAndRightArchivers and handleLostArchivers.
ReceiveRecord ==
  /\ phase = "up" /\ current < Newest
  /\ LET joined == Added(Lists, record.joinedArchivers)
         refreshed == Added(joined, record.refreshedArchivers)
         leaving == record.leavingArchivers
         l == Removed(refreshed, leaving)
     IN /\ SetLists(l) /\ Neighbours(l)
        /\ reputation' = ReputationWithout(leaving)
        /\ HandleLostArchivers
        /\ stale' = (stale \cup (record.removedArchivers \cap Range(l.active)))
                    \ (leaving \cup record.joinedArchivers)
        /\ late' = late \ leaving
  /\ current' = current + 1
  /\ UNCHANGED <<network, firstTime, asked, restarts, stored, timers, checking, unheard>>

\* storeCycleData; recordArchiversReputation follows it.
StoreRecord ==
  /\ phase = "up" /\ stored < current /\ checking = {}
  /\ stored' = current
  /\ checking' = Range(active)
  /\ UNCHANGED <<network, lists, reputation, refuting, starting, current, history>>

\* The answers are set for the archivers that were active when they were asked.
ReputationAnswers ==
  /\ checking # {}
  /\ \E down \in {{}} \cup {{a} : a \in checking} :
       reputation' = [a \in checking \cup DOMAIN reputation |->
                        IF a \in down THEN "down"
                        ELSE IF a \in checking THEN "up" ELSE reputation[a]]
  /\ late' = late \cup (checking \ Range(active))
  /\ checking' = {}
  /\ UNCHANGED <<network, lists, refuting, starting, current, stored, stale, unheard>>

\* Wrong on purpose: the quarter after the one of the next cycle.
DueAfterNext(counter) == counter + 3

\* scheduleRefute: startQ1 + 4 * quarterDuration of the record with a counter.
Due(counter) == counter + 2

ScheduleRefute ==
  /\ reading
  /\ reading' = FALSE
  /\ timers' = timers \cup {Due(stored)}
  /\ UNCHANGED <<network, lists, reputation, starting, shouldSendRefutes, current, stored,
                 checking, history>>

\* sendRefute: postJson does not throw, so that what no node gets is not sent again.
SendRefute ==
  /\ \E t \in timers : t <= now /\ timers' = timers \ {t}
  /\ IF shouldSendRefutes
       THEN \/ Hear("refute") /\ UNCHANGED unheard
            \/ unheard' = TRUE /\ UNCHANGED network
       ELSE UNCHANGED <<network, unheard>>
  /\ UNCHANGED <<lists, reputation, starting, shouldSendRefutes, reading, current, stored,
                 checking, stale, late>>

-----------------------------------------------------------------------------
(* Joining and leaving.                                                    *)

\* initFromConfig: the archivers that answered with a node list are taken for active.
Discover ==
  /\ phase = "start"
  /\ \E found \in SUBSET (Archivers \ {Self}) :
       IF found = {}
         THEN phase' = "exited" /\ UNCHANGED <<active, sorted, other>>
         ELSE phase' = "asking" /\ SetLists(Added(NoArchivers, found))
  /\ UNCHANGED <<network, adjacent, remaining, reputation, refuting, firstTime, asked, restarts,
                 current, stored, checking, history>>

\* checkJoinStatus: what enough nodes say, or the most of those that answer, now or a
\* cycle ago; no answer is not an answer that it has joined.
JoinAnswers == {FALSE, (Self \in record.before), (Self \in record.members)}

\* joinNetwork up to submitJoin: the first time it does not ask.
AskJoined ==
  /\ phase = "asking"
  /\ \E answer \in IF firstTime THEN {FALSE} ELSE JoinAnswers :
       phase' = IF answer THEN "syncing" ELSE "joining"
  /\ firstTime' = FALSE
  /\ UNCHANGED <<network, lists, reputation, refuting, asked, restarts, current, stored,
                 checking, history>>

\* submitJoin in the first quarter: a validator gets the request in time, or none does;
\* or the newest record could not be had.
SubmitJoin ==
  /\ phase = "joining"
  /\ \/ Hear("join")
     \/ UNCHANGED network
  /\ phase' = "waiting"
  /\ asked' = now
  /\ UNCHANGED <<lists, reputation, refuting, firstTime, restarts, current, stored, checking, history>>

\* One cycle and half a second later.
AskAgain ==
  /\ phase = "waiting" /\ now > asked
  /\ phase' = "asking"
  /\ UNCHANGED <<network, lists, reputation, refuting, firstTime, asked, restarts, current, stored,
                 checking, history>>

\* syncV2 with resetActiveArchivers, for the newest record, which is processed next.  A
\* record that says it is lost may be among those it does not see.
Sync ==
  /\ phase = "syncing" /\ Newest > 0
  /\ LET l == Reset(record.before)
     IN SetLists(l) /\ Neighbours(l)
  /\ reputation' = [a \in record.before |-> "up"]
  /\ current' = Newest - 1 /\ stored' = Newest - 1
  /\ phase' = "up"
  /\ stale' = {} /\ late' = {}
  /\ unheard' = (Self \in (DOMAIN lostIn \cup record.removedArchivers) \ record.lostArchivers)
  /\ UNCHANGED <<network, refuting, firstTime, asked, restarts, checking>>

\* exitArchiver on a signal, with sendLeaveRequest.
Exit ==
  /\ phase = "up"
  /\ \/ Hear("leave")
     \/ UNCHANGED network
  /\ phase' = "exited"
  /\ UNCHANGED <<lists, reputation, refuting, firstTime, asked, restarts, current, stored,
                 checking, history>>

Restart ==
  /\ phase = "exited" /\ restarts < MaxRestarts
  /\ restarts' = restarts + 1
  /\ phase' = "start" /\ firstTime' = TRUE /\ asked' = 0
  /\ SetLists(NoArchivers) /\ adjacent' = {} /\ remaining' = {}
  /\ reputation' = <<>>
  /\ shouldSendRefutes' = FALSE /\ reading' = FALSE /\ timers' = {}
  /\ checking' = {}
  /\ stale' = {} /\ late' = {} /\ unheard' = FALSE
  /\ current' = 0 /\ stored' = 0
  /\ UNCHANGED network

\* compareCycleRecordWithOtherArchivers: the archiver whose answer is ahead is looked up
\* among the active ones; where there is none the TypeError is caught and found to match.
Matched(answers) ==
  LET first == SelectInSeq(answers, LAMBDA answer : answer = "ahead")
  IN first = 0 \/ first > Len(active)

\* start with a stored record in shutdown mode: its archivers are asked for theirs.
CompareRecords ==
  /\ phase = "compare"
  /\ LET archivers == InOrder(Members)
     IN \E answers \in [DOMAIN archivers -> {"same", "ahead", "none"}] :
          IF Matched(answers)
            THEN LET l == Reset(Members)
                 IN /\ SetLists(l) /\ Neighbours(l)
                    /\ reputation' = [a \in Members |-> "up"]
                    /\ phase' = "serving"
            ELSE phase' = "start" /\ UNCHANGED <<lists, reputation>>
  /\ UNCHANGED <<network, refuting, firstTime, asked, restarts, current, stored, checking,
                 stale, late, unheard>>

-----------------------------------------------------------------------------
Init ==
  /\ now = 1 /\ lostIn = <<>>
  /\ record = [joinedArchivers |-> {}, leavingArchivers |-> {}, refreshedArchivers |-> {},
               lostArchivers |-> {}, refutedArchivers |-> {}, removedArchivers |-> {},
               before |-> Members, members |-> Members]
  /\ heard = NoRequest
  /\ phase \in Starts /\ firstTime = TRUE /\ asked = 0 /\ restarts = 0
  /\ current = 0 /\ stored = 0
  /\ active = <<>> /\ sorted = <<>> /\ other = <<>> /\ adjacent = {} /\ remaining = {}
  /\ reputation = <<>>
  /\ shouldSendRefutes = FALSE /\ reading = FALSE /\ timers = {} /\ checking = {}
  /\ stale = {} /\ late = {} /\ unheard = FALSE

Next ==
  \/ NetworkCycle
  \/ ReceiveRecord \/ StoreRecord \/ ReputationAnswers
  \/ ScheduleRefute \/ SendRefute
  \/ Discover \/ AskJoined \/ SubmitJoin \/ AskAgain \/ Sync
  \/ Exit \/ Restart \/ CompareRecords

Spec == Init /\ [][Next]_vars

-----------------------------------------------------------------------------
(* Properties.                                                             *)

\* Types of the variables; a refute is due at most two cycles ahead.
TypeOK ==
  /\ phase \in {"start", "asking", "joining", "waiting", "syncing", "up", "exited",
                "compare", "serving"}
  /\ Range(active) \cup adjacent \cup remaining \cup checking \subseteq Archivers
  /\ Self \notin adjacent \cup remaining \cup Range(other)
  /\ DOMAIN reputation \subseteq Archivers
  /\ \A t \in timers : t <= now + 1
  /\ stored <= current /\ current <= Newest

\* An archiver that processes every record has the archivers of the network in its three
\* lists, each once, one of them sorted and one without itself, and reputations of these
\* alone; but one that the network removed stays until it leaves, and one that left while
\* it was asked may keep its reputation.  (The types of the state are its first conjunct.)
TracksArchivers ==
  /\ TypeOK
  /\ phase = "up" =>
      /\ Range(active) = stale \cup
           (IF current = Newest THEN record.members ELSE record.before)
      /\ Range(sorted) = Range(active) /\ Range(other) = Range(active) \ {Self}
      /\ IsInjective(active) /\ IsInjective(other)
      /\ \A i, j \in DOMAIN sorted : i < j => sorted[i] < sorted[j]
      /\ DOMAIN reputation \subseteq Range(active) \cup late

\* What one archiver of the list starts reaches all of them when each sends it on to its
\* neighbours, whatever archivers came and went; and an archiver's neighbours and those
\* it picks more recipients from are the other archivers.
GossipConnects ==
  (phase = "up" /\ Len(active) > 1) =>
    /\ adjacent \cup remaining = Range(other) /\ adjacent \cap remaining = {}
    /\ \A reached \in SUBSET Range(sorted) :
         reached \in {{}, Range(sorted)} \/
         \E a \in reached, b \in Range(sorted) \ reached : b \in Adjacent(sorted, a)

\* An archiver that the network takes for lost while it is up refutes it before the
\* network has waited for long enough to remove it, unless no validator gets its refute.
RefutedInTime ==
  (phase = "up" /\ Self \in record.removedArchivers) => unheard

=============================================================================

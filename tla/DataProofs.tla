----------------------------- MODULE DataProofs -----------------------------
(***************************************************************************)
(* Proofs about four parts of Data/, which share no state:                 *)
(*   - DataSubscription, for any validators, radii and numbers of calls in *)
(*     flight: the maps of senders and of sockets agree, a sender keeps    *)
(*     its contact timeout, and a healthy one is dropped only next to one  *)
(*     that stays;                                                         *)
(*   - GenesisAccounts, for any batches and any number of overlapping      *)
(*     calls: every batch is written;                                      *)
(*   - AccountServing, for any number of validators and places: a          *)
(*     validator is turned away only while the places are taken;           *)
(*   - DataLogWriter, for any number of files, of entries in each and of   *)
(*     crashes: a data log is complete while no rotation is cut short.     *)
(***************************************************************************)
EXTENDS DataSubscription, Services, FiniteSetTheorems, TLAPS

LOCAL INSTANCE Functions

S == INSTANCE NodeListSorting WITH NoId <- -1

\* A step takes no timer from a sender that stays.
TimerKept == senders' \ watched' \subseteq senders \ watched

\* unsubscribeDataSender takes a node from both maps and clears its timer.
LEMMA UnsubscribeKeeps ==
  ASSUME NEW nodes, Unsubscribe(nodes)
  PROVE  (SocketPerSender => SocketPerSender') /\ TimerKept
BY DEF Unsubscribe, SocketPerSender, TimerKept

\* createDataTransferConnection enters a node in both with a timer.
LEMMA SubscribeKeeps ==
  ASSUME NEW n, Subscribe(n)
  PROVE  (SocketPerSender => SocketPerSender') /\ TimerKept
BY DEF Subscribe, SocketPerSender, TimerKept

\* A sender is replaced, or stays alone in its network.
LEMMA ReplaceKeeps ==
  ASSUME NEW n, NEW running, ReplaceDataSender(n, running)
  PROVE  (SocketPerSender => SocketPerSender') /\ (TimerKept \/ Cardinality(active) < 2)
<1>1. CASE Cardinality(active) < 2
  BY <1>1 DEF ReplaceDataSender, SocketPerSender
<1>2. CASE ~(Cardinality(active) < 2)
  <2>1. \E nodes : Unsubscribe(nodes)
    BY <1>2 DEF ReplaceDataSender, SubscribeFrom
  <2>2. QED BY <2>1, UnsubscribeKeeps
<1>3. QED BY <1>1, <1>2

\* No handler separates the maps or takes a timer that it should not take.
LEMMA StepKeeps ==
  ASSUME [Next]_vars
  PROVE  (SocketPerSender => SocketPerSender') /\ (TimerKept \/ Cardinality(active) < 2)
<1>1. CASE UNCHANGED senderVars
  BY <1>1 DEF senderVars, SocketPerSender, TimerKept
<1>2. CASE NextCycle
  BY <1>2, UnsubscribeKeeps DEF NextCycle, ApplyCycle
<1>3. CASE Shutdown
  BY <1>3, UnsubscribeKeeps DEF Shutdown
<1>4. CASE DataSendersCleared
  BY <1>4 DEF DataSendersCleared, SocketPerSender, TimerKept
<1>5. ASSUME NEW r \in Radii, Grouped(r)
      PROVE  (SocketPerSender => SocketPerSender') /\ TimerKept
  BY <1>5, UnsubscribeKeeps DEF Grouped, SubscribeFrom
<1>6. ASSUME NEW n \in Nodes,
             FirstNode(n) \/ Answered(n) \/ ContactTimeout(n) \/ StrayTimeout(n)
               \/ DataReceived(n) \/ DataRefused(n)
      PROVE  (SocketPerSender => SocketPerSender') /\ (TimerKept \/ Cardinality(active) < 2)
  <2>1. CASE FirstNode(n)
    BY <2>1, SubscribeKeeps DEF FirstNode
  <2>2. CASE Answered(n)
    <3>1. PICK call, success : SubscribeAnswered(call, success)
      BY <2>2 DEF Answered
    <3>2. CASE success
      BY <3>1, <3>2, SubscribeKeeps DEF SubscribeAnswered
    <3>3. CASE ~success
      BY <1>1, <3>1, <3>3 DEF SubscribeAnswered
    <3>4. QED BY <3>2, <3>3
  <2>3. CASE ContactTimeout(n)
    BY <2>3, ReplaceKeeps DEF ContactTimeout
  <2>4. CASE StrayTimeout(n)
    BY <2>4, ReplaceKeeps DEF StrayTimeout
  <2>5. CASE DataReceived(n)
    BY <2>5 DEF DataReceived, SocketPerSender, TimerKept
  <2>6. CASE DataRefused(n)
    BY <2>6, UnsubscribeKeeps DEF DataRefused
  <2>7. QED BY <1>6, <2>1, <2>2, <2>3, <2>4, <2>5, <2>6
<1>7. CASE UNCHANGED vars
  BY <1>1, <1>7 DEF vars
<1>8. QED BY <1>2, <1>3, <1>4, <1>5, <1>6, <1>7 DEF Next

\* Every data sender has its socket and every registered socket its sender, through
\* subscriptions that overlap with replacements and with clearDataSenders.
THEOREM SocketsAgree == Spec => []SocketPerSender
<1>1. Init => SocketPerSender
  BY DEF Init, SocketPerSender
<1>2. SocketPerSender /\ [Next]_vars => SocketPerSender'
  BY StepKeeps
<1>3. QED BY <1>1, <1>2, PTL DEF Spec

\* A data sender loses its contact timeout without being dropped only in a network with a
\* single active validator (replaceDataSender).
THEOREM Watched == Spec => AlwaysWatched
<1>1. [Next]_vars => [TimerKept \/ Cardinality(active) < 2]_vars
  BY StepKeeps
<1>2. QED BY <1>1, PTL DEF Spec, AlwaysWatched, TimerKept

-----------------------------------------------------------------------------
(* What a subscription can come to *)

\* A call that waits for the answer to its request.
Waits == {c \in Call : c.retry < MaxRetry * c.wanted}

\* What is left of the rounds of a call: whole ones, and nodes of this one.
RoundsLeft(c) == (MaxRetry * c.wanted - c.retry) * (Cardinality(Nodes) + 1) + Cardinality(c.left)

MostRounds == MaxRetry * (1 + ExtraSenders) * (Cardinality(Nodes) + 1) + Cardinality(Nodes)

LEMMA Times ==
  ASSUME NEW a \in Nat, NEW b \in Nat, NEW k \in Nat, a <= b
  PROVE  a * k \in Nat /\ a * k <= b * k
OBVIOUS

LEMMA SomeNodes ==
  ASSUME NEW T \in SUBSET Nodes
  PROVE  /\ IsFiniteSet(T) /\ Cardinality(T) \in Nat /\ Cardinality(Nodes) \in Nat
         /\ Cardinality(T) <= Cardinality(Nodes)
BY SubscriptionAssumption, FS_Subset, FS_CardinalityType

LEMMA RoundsLeftType ==
  ASSUME NEW c \in Call
  PROVE  RoundsLeft(c) \in 0..MostRounds
<1> DEFINE most == MaxRetry * (1 + ExtraSenders)
           mine == MaxRetry * c.wanted
           size == Cardinality(Nodes) + 1
<1>1. /\ c.left \in SUBSET Nodes /\ c.retry \in Nat /\ c.retry <= mine
      /\ c.wanted \in {1, 1 + ExtraSenders} /\ ExtraSenders \in Nat /\ MaxRetry \in Nat
  BY SubscriptionAssumption DEF Call
<1>2. mine \in Nat /\ most \in Nat /\ mine <= most
  <2>1. c.wanted \in Nat /\ 1 + ExtraSenders \in Nat /\ c.wanted <= 1 + ExtraSenders
    BY <1>1
  <2>2. c.wanted * MaxRetry \in Nat /\ c.wanted * MaxRetry <= (1 + ExtraSenders) * MaxRetry
    BY <1>1, <2>1, Times
  <2> QED
    BY <1>1, <2>1, <2>2
<1>3. /\ Cardinality(c.left) \in Nat /\ Cardinality(Nodes) \in Nat /\ size \in Nat
      /\ Cardinality(c.left) <= Cardinality(Nodes)
  BY <1>1, SomeNodes
<1>4. /\ RoundsLeft(c) = (mine - c.retry) * size + Cardinality(c.left)
      /\ MostRounds = most * size + Cardinality(Nodes)
  BY DEF RoundsLeft, MostRounds
<1> HIDE DEF most, mine, size
<1>5. mine - c.retry \in Nat /\ mine - c.retry <= most
  BY <1>1, <1>2
<1>6. /\ (mine - c.retry) * size \in Nat /\ most * size \in Nat
      /\ (mine - c.retry) * size <= most * size
  BY <1>2, <1>3, <1>5, Times
<1> DEFINE x == (mine - c.retry) * size
           y == most * size
<1> HIDE DEF x, y
<1>7. x \in Nat /\ y \in Nat /\ x <= y /\ RoundsLeft(c) = x + Cardinality(c.left)
      /\ MostRounds = y + Cardinality(Nodes)
  BY <1>4, <1>6 DEF x, y
<1> QED
  BY <1>3, <1>7

\* The next node, or the next round, is a step towards the end.
LEMMA PicksTyped ==
  ASSUME NEW c \in Waits, NEW found \in SUBSET Nodes,
         NEW d \in NextPicks([c EXCEPT !.found = found])
  PROVE  d \in Call /\ RoundsLeft(d) < RoundsLeft(c)
<1> DEFINE left == c.left \ {c.pick}
           all == Cardinality(Nodes)
           mine == MaxRetry * c.wanted
<1>1. /\ c = [nodes |-> c.nodes, left |-> c.left, pick |-> c.pick, found |-> c.found,
              wanted |-> c.wanted, retry |-> c.retry]
      /\ c.nodes \in SUBSET Nodes /\ c.left \in SUBSET Nodes /\ c.pick \in c.left
      /\ c.left \subseteq c.nodes
      /\ c.wanted \in {1, 1 + ExtraSenders} /\ c.retry \in Nat /\ c.retry < mine
  BY DEF Waits, Call
<1>2. MaxRetry \in Nat /\ c.wanted \in Nat /\ mine \in Nat
  <2>1. MaxRetry \in Nat /\ c.wanted \in Nat
    BY <1>1, SubscriptionAssumption
  <2> QED
    BY <2>1, Times
<1>3. /\ left \in SUBSET Nodes /\ all \in Nat /\ Cardinality(c.nodes) \in Nat
      /\ Cardinality(c.nodes) <= all
      /\ Cardinality(left) = Cardinality(c.left) - 1 /\ Cardinality(c.left) \in Nat \ {0}
  <2>1. IsFiniteSet(c.left) /\ left \in SUBSET Nodes
    BY <1>1, SomeNodes
  <2>2. Cardinality(left) = Cardinality(c.left) - 1
    BY <1>1, <2>1, FS_RemoveElement
  <2>3. Cardinality(left) \in Nat /\ Cardinality(c.left) \in Nat
        /\ Cardinality(c.nodes) \in Nat /\ Cardinality(c.nodes) <= all /\ all \in Nat
    BY <1>1, <2>1, SomeNodes
  <2> QED
    BY <2>1, <2>2, <2>3
<1>4. \/ /\ left # {} /\ \E n \in left :
              d = [nodes |-> c.nodes, left |-> left, pick |-> n, found |-> found,
                   wanted |-> c.wanted, retry |-> c.retry]
      \/ d = [nodes |-> c.nodes, left |-> c.nodes, pick |-> c.pick, found |-> found,
              wanted |-> c.wanted, retry |-> c.retry + 1]
  BY <1>1 DEF NextPicks
<1>5. RoundsLeft(c) = (mine - c.retry) * (all + 1) + Cardinality(c.left)
  BY DEF RoundsLeft
<1> HIDE DEF left, all, mine
<1>6. ASSUME NEW n \in left,
             d = [nodes |-> c.nodes, left |-> left, pick |-> n, found |-> found,
                  wanted |-> c.wanted, retry |-> c.retry]
      PROVE  d \in Call /\ RoundsLeft(d) < RoundsLeft(c)
  <2>1. d.left = left /\ d.wanted = c.wanted /\ d.retry = c.retry /\ d.pick = n
        /\ d.nodes = c.nodes
    BY <1>6
  <2>2. left \subseteq c.nodes
    BY <1>1 DEF left
  <2>3. d \in Call
    <3>1. c.retry <= MaxRetry * c.wanted
      BY <1>1, <1>2 DEF mine
    <3>2. d \in [nodes : SUBSET Nodes, left : SUBSET Nodes, pick : Nodes, found : SUBSET Nodes,
                 wanted : {1, 1 + ExtraSenders}, retry : Nat]
      BY <1>1, <1>3, <1>6
    <3> QED
      BY <1>6, <2>1, <2>2, <3>1, <3>2 DEF Call
  <2>4. RoundsLeft(d) = (mine - c.retry) * (all + 1) + Cardinality(left)
    BY <2>1 DEF RoundsLeft, mine, all
  <2> DEFINE x == (mine - c.retry) * (all + 1)
  <2>5. x \in Int
    BY <1>1, <1>2, <1>3
  <2> HIDE DEF x
  <2>6. RoundsLeft(d) = x + Cardinality(left) /\ RoundsLeft(c) = x + Cardinality(c.left)
    BY <1>5, <2>4 DEF x
  <2> QED
    BY <1>3, <2>3, <2>5, <2>6
<1>7. ASSUME d = [nodes |-> c.nodes, left |-> c.nodes, pick |-> c.pick, found |-> found,
                  wanted |-> c.wanted, retry |-> c.retry + 1]
      PROVE  d \in Call /\ RoundsLeft(d) < RoundsLeft(c)
  <2>1. d.left = c.nodes /\ d.wanted = c.wanted /\ d.retry = c.retry + 1 /\ d.pick = c.pick
        /\ d.nodes = c.nodes
    BY <1>7
  <2>2. d \in Call
    <3>1. c.retry + 1 <= MaxRetry * c.wanted
      BY <1>1, <1>2 DEF mine
    <3>2. d \in [nodes : SUBSET Nodes, left : SUBSET Nodes, pick : Nodes, found : SUBSET Nodes,
                 wanted : {1, 1 + ExtraSenders}, retry : Nat]
      BY <1>1, <1>7
    <3> QED
      BY <1>1, <2>1, <3>1, <3>2 DEF Call
  <2>3. RoundsLeft(d) = (mine - (c.retry + 1)) * (all + 1) + Cardinality(c.nodes)
    BY <2>1 DEF RoundsLeft, mine, all
  <2>4. (mine - c.retry) * (all + 1) = (mine - (c.retry + 1)) * (all + 1) + (all + 1)
    BY <1>1, <1>2, <1>3
  <2> DEFINE x == (mine - c.retry) * (all + 1)
             y == (mine - (c.retry + 1)) * (all + 1)
  <2>5. x \in Int /\ y \in Int
    BY <1>1, <1>2, <1>3
  <2> HIDE DEF x, y
  <2>6. RoundsLeft(d) = y + Cardinality(c.nodes) /\ RoundsLeft(c) = x + Cardinality(c.left)
        /\ x = y + (all + 1)
    BY <1>5, <2>3, <2>4 DEF x, y
  <2> QED
    BY <1>3, <2>2, <2>5, <2>6
<1> QED
  BY <1>4, <1>6, <1>7

\* A call that runs: it ends, asks, or counts the node at hand and goes on.
Over(c) == c.retry >= MaxRetry * c.wanted \/ Cardinality(c.found) >= c.wanted
Counted(c) == NextPicks([c EXCEPT !.found = @ \cup {c.pick}])

\* One step of the recursion of Outcomes, which goes on with f.
Running(f, subscribed) ==
  [c \in Call |->
     IF c.retry >= MaxRetry * c.wanted \/ Cardinality(c.found) >= c.wanted
       THEN {{}}
     ELSE IF c.pick \notin subscribed
       THEN {{c}}
     ELSE UNION {f[d] : d \in NextPicks([c EXCEPT !.found = @ \cup {c.pick}])}]

LEMMA RunningCases ==
  ASSUME NEW subscribed, NEW c \in Call, NEW f
  PROVE  /\ Over(c) => Running(f, subscribed)[c] = {{}}
         /\ ~Over(c) /\ c.pick \notin subscribed => Running(f, subscribed)[c] = {{c}}
         /\ ~Over(c) /\ c.pick \in subscribed =>
              Running(f, subscribed)[c] = UNION {f[d] : d \in Counted(c)}
BY DEF Running, Over, Counted

LEMMA CountedTyped ==
  ASSUME NEW c \in Call, ~Over(c)
  PROVE  /\ c \in Waits
         /\ \A d \in Counted(c) : d \in Call /\ RoundsLeft(d) < RoundsLeft(c)
<1>1. c.retry \in Nat /\ MaxRetry * c.wanted \in Nat
  <2>1. c.retry \in Nat /\ c.wanted \in Nat /\ MaxRetry \in Nat
    BY SubscriptionAssumption DEF Call
  <2> QED
    BY <2>1, Times
<1>2. c \in Waits
  BY <1>1 DEF Waits, Over
<1>3. c.found \cup {c.pick} \in SUBSET Nodes
  BY DEF Call
<1>4. \A d \in Counted(c) : d \in NextPicks([c EXCEPT !.found = c.found \cup {c.pick}])
  BY DEF Counted
<1> QED
  BY <1>2, <1>3, <1>4, PicksTyped

\* The recursion goes on with smaller calls only.
LEMMA RunningSame ==
  ASSUME NEW subscribed, NEW c \in Call, NEW f, NEW g,
         \A d \in Call : RoundsLeft(d) < RoundsLeft(c) => f[d] = g[d]
  PROVE  Running(f, subscribed)[c] = Running(g, subscribed)[c]
<1>1. CASE Over(c)
  <2>1. Running(f, subscribed)[c] = {{}} /\ Running(g, subscribed)[c] = {{}}
    BY <1>1, RunningCases
  <2> QED
    BY <2>1
<1>2. CASE ~Over(c) /\ c.pick \notin subscribed
  <2>1. Running(f, subscribed)[c] = {{c}} /\ Running(g, subscribed)[c] = {{c}}
    BY <1>2, RunningCases
  <2> QED
    BY <2>1
<1>3. CASE ~Over(c) /\ c.pick \in subscribed
  <2>1. \A d \in Counted(c) : f[d] = g[d]
    BY <1>3, CountedTyped
  <2>2. {f[d] : d \in Counted(c)} = {g[d] : d \in Counted(c)}
    BY <2>1
  <2>3. /\ Running(f, subscribed)[c] = UNION {f[d] : d \in Counted(c)}
        /\ Running(g, subscribed)[c] = UNION {g[d] : d \in Counted(c)}
    BY <1>3, RunningCases
  <2> QED
    BY <2>2, <2>3
<1> QED
  BY <1>1, <1>2, <1>3

LEMMA RunExists ==
  ASSUME NEW subscribed
  PROVE  \E f : f = Running(f, subscribed)
<1> DEFINE Go(f) == Running(f, subscribed)
           Stable(f, n) == \A c \in Call : RoundsLeft(c) < n => f[c] = Go(f)[c]
           unsettled == {n \in Nat : \A f : ~Stable(f, n)}
<1>1. 0 \notin unsettled
  <2>1. \A c \in Call : ~(RoundsLeft(c) < 0)
    BY RoundsLeftType
  <2> HIDE DEF Go
  <2> QED
    BY <2>1
<1>2. ASSUME NEW n \in Nat, n \notin unsettled
      PROVE  n + 1 \notin unsettled
  <2>1. PICK f : Stable(f, n)
    BY <1>2
  <2>2. ASSUME NEW c \in Call, RoundsLeft(c) < n + 1
        PROVE  Go(f)[c] = Go(Go(f))[c]
    <3>1. ASSUME NEW d \in Call, RoundsLeft(d) < RoundsLeft(c)
          PROVE  f[d] = Go(f)[d]
      <4>1. RoundsLeft(d) \in Int /\ RoundsLeft(c) \in Int
        BY RoundsLeftType
      <4>2. RoundsLeft(d) < n
        BY <2>2, <3>1, <4>1
      <4> HIDE DEF Go
      <4> QED
        BY <2>1, <4>2
    <3> QED
      BY <3>1, RunningSame
  <2>3. Stable(Go(f), n + 1)
    BY <2>2
  <2> QED
    BY <2>3
<1>3. unsettled = {}
  <2> HIDE DEF unsettled
  <2> SUFFICES ASSUME unsettled # {} PROVE FALSE
    OBVIOUS
  <2>1. unsettled \subseteq Nat
    BY DEF unsettled
  <2>2. PICK n \in unsettled : \A m \in unsettled : n <= m
    BY <2>1, S!Least
  <2>3. n - 1 \in Nat /\ n - 1 \notin unsettled
    BY <1>1, <2>1, <2>2
  <2>4. (n - 1) + 1 \notin unsettled
    BY <1>2, <2>3
  <2> QED
    BY <2>1, <2>2, <2>4
<1>4. MostRounds \in Nat
  <2>1. MaxRetry * (1 + ExtraSenders) \in Nat /\ Cardinality(Nodes) + 1 \in Nat
    <3>1. MaxRetry \in Nat /\ 1 + ExtraSenders \in Nat
      BY SubscriptionAssumption
    <3> QED
      BY <3>1, SomeNodes, Times
  <2>2. MaxRetry * (1 + ExtraSenders) * (Cardinality(Nodes) + 1) \in Nat
    BY <2>1, Times
  <2> QED
    BY <2>2, SomeNodes DEF MostRounds
<1>5. \A c \in Call : RoundsLeft(c) < MostRounds + 1
  BY <1>4, RoundsLeftType
<1>6. PICK f : Stable(f, MostRounds + 1)
  BY <1>3, <1>4
<1>7. \A c \in Call : f[c] = Go(f)[c]
  <2> HIDE DEF Go
  <2> QED
    BY <1>5, <1>6
<1>8. \A c \in Call : Go(f)[c] = Go(Go(f))[c]
  BY <1>7, RunningSame
<1>9. Go(Go(f)) = Go(f)
  BY <1>8 DEF Running
<1> QED
  BY <1>9

\* What a call comes to is its end or a request of it, which leaves rounds to go.
LEMMA OutcomesTyped ==
  ASSUME NEW subscribed, NEW c \in Call
  PROVE  \A next \in Outcomes(c, subscribed) : next \subseteq Waits
<1> DEFINE run == CHOOSE f : f = Running(f, subscribed)
           Right(d) == \A next \in run[d] : next \subseteq Waits
           wrong == {n \in Nat : \E d \in Call : RoundsLeft(d) = n /\ ~Right(d)}
<1>1. run = Running(run, subscribed)
  BY RunExists
<1>2. Outcomes(c, subscribed) = run[c]
  BY DEF Outcomes, Running
<1> HIDE DEF run
<1>3. wrong = {}
  <2> HIDE DEF wrong
  <2> SUFFICES ASSUME wrong # {} PROVE FALSE
    OBVIOUS
  <2>1. wrong \subseteq Nat
    BY DEF wrong
  <2>2. PICK n \in wrong : \A m \in wrong : n <= m
    BY <2>1, S!Least
  <2>3. PICK d \in Call : RoundsLeft(d) = n /\ ~Right(d)
    BY <2>2 DEF wrong
  <2>4. CASE Over(d)
    BY <1>1, <2>3, <2>4, RunningCases
  <2>5. CASE ~Over(d) /\ d.pick \notin subscribed
    <3>1. run[d] = {{d}} /\ d \in Waits
      BY <1>1, <2>5, RunningCases, CountedTyped
    <3> QED
      BY <2>3, <3>1
  <2>6. CASE ~Over(d) /\ d.pick \in subscribed
    <3>1. run[d] = UNION {run[e] : e \in Counted(d)}
      BY <1>1, <2>6, RunningCases
    <3>2. ASSUME NEW e \in Counted(d) PROVE Right(e)
      <4>1. e \in Call /\ RoundsLeft(e) < n
        BY <2>3, <2>6, <3>2, CountedTyped
      <4>2. RoundsLeft(e) \in Nat
        BY <4>1, RoundsLeftType
      <4>3. RoundsLeft(e) \notin wrong
        BY <2>1, <2>2, <4>1, <4>2
      <4> QED
        BY <4>1, <4>2, <4>3 DEF wrong
    <3> QED
      BY <2>3, <3>1, <3>2
  <2> QED
    BY <2>4, <2>5, <2>6
<1>4. RoundsLeft(c) \in Nat
  BY RoundsLeftType
<1> QED
  BY <1>2, <1>3, <1>4

LEMMA KeptTyped ==
  ASSUME NEW g \in SUBSET Nodes, NEW subscribed, NEW wanted
  PROVE  Kept(g, subscribed, wanted) \in SUBSET Nodes
BY DEF Kept

LEMMA WantedTyped ==
  ASSUME NEW r
  PROVE  Wanted(r) \in {1, 1 + ExtraSenders} /\ Wanted(r) \in Nat \ {0}
BY SubscriptionAssumption DEF Wanted

LEMMA StartsTyped ==
  ASSUME NEW g \in SUBSET Nodes, NEW subscribed, NEW wanted \in {1, 1 + ExtraSenders}
  PROVE  \A next \in Starts(g, subscribed, wanted) : next \subseteq Waits
<1> DEFINE found == Kept(g, subscribed, wanted)
           start(n) == [nodes |-> g, left |-> g, pick |-> n, found |-> found,
                        wanted |-> wanted, retry |-> 0]
<1>1. ASSUME NEW n \in g PROVE start(n) \in Call
  <2>1. found \in SUBSET Nodes
    BY KeptTyped
  <2>2. MaxRetry * wanted \in Nat
    <3>1. MaxRetry \in Nat /\ wanted \in Nat
      BY SubscriptionAssumption
    <3> QED
      BY <3>1, Times
  <2> HIDE DEF found
  <2> QED
    BY <2>1, <2>2 DEF Call
<1>2. Starts(g, subscribed, wanted) =
        IF Cardinality(found) = wanted THEN {{}}
        ELSE UNION {Outcomes(start(n), subscribed) : n \in g}
  BY DEF Starts
<1> HIDE DEF start, found
<1>3. \A n \in g : \A next \in Outcomes(start(n), subscribed) : next \subseteq Waits
  BY <1>1, OutcomesTyped
<1> QED
  BY <1>2, <1>3

LEMMA StartsOfAllTyped ==
  ASSUME NEW groups \in SUBSET SUBSET Nodes, NEW subscribed, NEW wanted \in {1, 1 + ExtraSenders},
         NEW started \in StartsOfAll(groups, subscribed, wanted)
  PROVE  started \subseteq Waits
<1> DEFINE starts == [g \in groups |-> Starts(g, subscribed, wanted)]
<1>1. PICK f \in [groups -> UNION Range(starts)] :
        (\A g \in groups : f[g] \in starts[g]) /\ started = UNION Range(f)
  BY DEF StartsOfAll
<1>2. \A g \in groups : f[g] \in Starts(g, subscribed, wanted)
  BY <1>1
<1>3. \A g \in groups : f[g] \subseteq Waits
  BY <1>2, StartsTyped
<1> HIDE DEF starts
<1>4. Range(f) = {f[g] : g \in groups}
  BY <1>1 DEF Range
<1> QED
  BY <1>1, <1>3, <1>4

CallsTyped(bag) == BagToSet(bag) \subseteq Waits

LEMMA Bagged ==
  ASSUME NEW bag, NEW other, NEW T
  PROVE  /\ BagToSet(bag (+) other) = BagToSet(bag) \cup BagToSet(other)
         /\ BagToSet(bag (-) other) \subseteq BagToSet(bag)
         /\ BagToSet(SetToBag(T)) = T
<1>1. BagToSet(bag (+) other) = BagToSet(bag) \cup BagToSet(other)
  BY DEF BagToSet, (+)
<1>2. BagToSet(bag (-) other) \subseteq BagToSet(bag)
  BY DEF BagToSet, (-)
<1>3. BagToSet(SetToBag(T)) = T
  BY DEF BagToSet, SetToBag
<1> QED
  BY <1>1, <1>2, <1>3

LEMMA SubscribeFromTyped ==
  ASSUME NEW groups \in SUBSET SUBSET Nodes, NEW gone, NEW wanted \in {1, 1 + ExtraSenders},
         SubscribeFrom(groups, gone, wanted), CallsTyped(calls)
  PROVE  CallsTyped(calls') /\ \E nodes : Unsubscribe(nodes)
<1>1. PICK subscribed : \E started \in StartsOfAll(groups, subscribed, wanted) :
                          calls' = calls (+) SetToBag(started)
  BY DEF SubscribeFrom
<1>2. PICK started \in StartsOfAll(groups, subscribed, wanted) : calls' = calls (+) SetToBag(started)
  BY <1>1
<1>3. started \subseteq Waits
  BY StartsOfAllTyped
<1>4. BagToSet(calls') = BagToSet(calls) \cup started
  BY <1>2, Bagged
<1>5. \E nodes : Unsubscribe(nodes)
  BY DEF SubscribeFrom
<1> QED
  BY <1>3, <1>4, <1>5 DEF CallsTyped

LEMMA SubsetsTyped ==
  ASSUME NEW nodes \in SUBSET Nodes, NEW r \in Radii
  PROVE  \A i \in DOMAIN SubsetsOf(nodes, r) :
           i \in Nat /\ SubsetsOf(nodes, r)[i] \in (SUBSET Nodes) \ {{}}
<1>1. ASSUME NEW n \in nodes PROVE IndexIn(n, nodes) \div r \in Nat
  <2>1. {m \in nodes : m < n} \in SUBSET Nodes
    OBVIOUS
  <2>2. IndexIn(n, nodes) \in Nat
    BY <2>1, SomeNodes DEF IndexIn
  <2>3. r \in Nat \ {0}
    BY SubscriptionAssumption
  <2> QED
    BY <2>2, <2>3
<1> QED
  BY <1>1 DEF SubsetsOf

\* TypeOK without what is said of the calls.
MapsTyped ==
  /\ active \subseteq listed /\ listed \subseteq Nodes
  /\ foundFirstNode \in BOOLEAN /\ clearing \in BOOLEAN
  /\ radius \in Radii
  /\ \A i \in DOMAIN subsets : i \in Nat /\ subsets[i] \in (SUBSET Nodes) \ {{}}
  /\ watched \subseteq senders /\ senders \subseteq Nodes
  /\ strays \in [Nodes -> Nat]
  /\ sockets \subseteq Nodes
  /\ groupings \in 0..MaxGroupings

LEMMA TypeOKParts ==
  /\ TypeOK <=> MapsTyped /\ CallsTyped(calls)
  /\ TypeOK' <=> MapsTyped' /\ CallsTyped(calls')
BY DEF TypeOK, MapsTyped, CallsTyped, Waits

\* What the helpers do to the maps.
SendersTyped ==
  watched \subseteq senders /\ senders \subseteq Nodes /\ sockets \subseteq Nodes

LEMMA SendersSteps ==
  ASSUME SendersTyped
  PROVE  /\ \A nodes : Unsubscribe(nodes) => SendersTyped'
         /\ \A n \in Nodes : Subscribe(n) => SendersTyped'
BY DEF SendersTyped, Unsubscribe, Subscribe

LEMMA ReplaceTyped ==
  ASSUME TypeOK, NEW n, NEW running \in SUBSET watched, ReplaceDataSender(n, running)
  PROVE  SendersTyped' /\ CallsTyped(calls')
<1> DEFINE index == IndexIn(n, active) \div radius
           groups == {subsets[i] : i \in {index} \cap DOMAIN subsets}
<1> USE TypeOKParts
<1>1. SendersTyped
  BY DEF MapsTyped, SendersTyped
<1>2. groups \in SUBSET SUBSET Nodes
  BY DEF MapsTyped
<1>3. CASE watched' = running /\ UNCHANGED <<senders, sockets, calls>>
  BY <1>1, <1>3 DEF SendersTyped
<1>4. CASE SubscribeFrom(groups, {n}, Wanted(radius))
  <2> HIDE DEF groups
  <2>1. CallsTyped(calls') /\ \E nodes : Unsubscribe(nodes)
    BY <1>2, <1>4, SubscribeFromTyped, WantedTyped
  <2> QED
    BY <1>1, <2>1, SendersSteps
<1>5. CASE Unsubscribe({n}) /\ UNCHANGED calls
  BY <1>1, <1>5, SendersSteps
<1>6. \/ watched' = running /\ UNCHANGED <<senders, sockets, calls>>
      \/ SubscribeFrom(groups, {n}, Wanted(radius))
      \/ Unsubscribe({n}) /\ UNCHANGED calls
  BY DEF ReplaceDataSender
<1> QED
  BY <1>3, <1>4, <1>5, <1>6

LEMMA AnsweredTyped ==
  ASSUME TypeOK, NEW n \in Nodes, Answered(n)
  PROVE  TypeOK'
<1> USE TypeOKParts
<1>1. PICK call \in BagToSet(calls), success \in BOOLEAN :
        call.pick = n /\ SubscribeAnswered(call, success)
  BY DEF Answered
<1>2. call \in Waits
  BY DEF CallsTyped
<1> DEFINE answered == IF success THEN [call EXCEPT !.found = @ \cup {call.pick}] ELSE call
<1>3. PICK next \in UNION {Outcomes(c, senders') : c \in NextPicks(answered)} :
        calls' = (calls (-) SetToBag({call})) (+) SetToBag(next)
  BY <1>1 DEF SubscribeAnswered
<1>4. PICK c \in NextPicks(answered) : next \in Outcomes(c, senders')
  BY <1>3
<1>5. c \in Call
  <2>1. \E found \in SUBSET Nodes : answered = [call EXCEPT !.found = found]
    <3>1. call.found \in SUBSET Nodes /\ call.found \cup {call.pick} \in SUBSET Nodes
          /\ call = [call EXCEPT !.found = call.found]
      BY <1>2 DEF Waits, Call
    <3>2. CASE success
      BY <3>1, <3>2
    <3>3. CASE ~success
      BY <3>1, <3>3
    <3> QED
      BY <3>2, <3>3
  <2> HIDE DEF answered
  <2>2. PICK found \in SUBSET Nodes : answered = [call EXCEPT !.found = found]
    BY <2>1
  <2>3. c \in NextPicks([call EXCEPT !.found = found])
    BY <2>2
  <2> QED
    BY <1>2, <2>3, PicksTyped
<1>6. next \subseteq Waits
  BY <1>4, <1>5, OutcomesTyped
<1>7. CallsTyped(calls')
  <2>1. /\ BagToSet(calls') = BagToSet(calls (-) SetToBag({call})) \cup BagToSet(SetToBag(next))
        /\ BagToSet(calls (-) SetToBag({call})) \subseteq BagToSet(calls)
        /\ BagToSet(SetToBag(next)) = next
    BY <1>3, Bagged, Zenon
  <2> QED
    BY <1>6, <2>1 DEF CallsTyped
<1>8. UNCHANGED <<nodeVars, groupVars, clearing>>
      /\ (Subscribe(n) \/ UNCHANGED senderVars)
  BY <1>1 DEF SubscribeAnswered
<1>9. MapsTyped'
  BY <1>8 DEF nodeVars, groupVars, senderVars, Subscribe, MapsTyped
<1> QED
  BY <1>7, <1>9

\* The types of the maps, and of every suspended call: its node at hand is one of those left of
\* its subset, and it has rounds to go, however its picks fall and whatever was subscribed
\* meanwhile (subscribeNodeFromThisSubset, createNodesGroupByConsensusRadius).
THEOREM SubscriptionsTyped == Spec => []TypeOK
<1> USE TypeOKParts
<1>1. Init => TypeOK
  <2> SUFFICES ASSUME Init PROVE TypeOK
    OBVIOUS
  <2>1. CallsTyped(calls)
    <3>1. BagToSet(EmptyBag) = {}
      BY Bagged DEF EmptyBag
    <3> QED
      BY <3>1 DEF Init, CallsTyped
  <2>2. MapsTyped
    <3>1. subsets = <<>> /\ DOMAIN subsets = {}
      BY DEF Init
    <3>2. active \subseteq listed /\ listed \subseteq Nodes /\ groupings \in {0, 1}
          /\ foundFirstNode \in BOOLEAN
      BY DEF Init
    <3>3. 0 \in 0..MaxGroupings /\ 1 \in 0..MaxGroupings
      BY SubscriptionAssumption
    <3>4. /\ strays \in [Nodes -> Nat] /\ radius \in Radii /\ clearing = FALSE
          /\ senders = {} /\ watched = {} /\ sockets = {}
      BY DEF Init
    <3> QED
      BY <3>1, <3>2, <3>3, <3>4 DEF MapsTyped
  <2> QED
    BY <2>1, <2>2
<1>2. TypeOK /\ [Next]_vars => TypeOK'
  <2> SUFFICES ASSUME TypeOK, [Next]_vars PROVE TypeOK'
    OBVIOUS
  <2>0. SendersTyped
    BY DEF MapsTyped, SendersTyped
  <2>1. CASE NextCycle
    <3>1. PICK change \in Changes : ApplyCycle(change.come, change.gone, change.restore)
      BY <2>1 DEF NextCycle
    <3>2. change.come \in SUBSET Nodes /\ change.gone \in SUBSET Nodes
      BY DEF Changes
    <3>3. SendersTyped'
      BY <2>0, <3>1, SendersSteps DEF ApplyCycle
    <3>4. groupings' \in 0..MaxGroupings
      BY <2>1, <3>1, SubscriptionAssumption DEF NextCycle, ApplyCycle, WithinBounds, MapsTyped
    <3>5. /\ active' \subseteq listed' /\ listed' \subseteq Nodes
          /\ UNCHANGED <<foundFirstNode, radius, subsets, strays, calls, clearing>>
      BY <3>1, <3>2 DEF ApplyCycle, MapsTyped
    <3>6. MapsTyped'
      BY <3>3, <3>4, <3>5 DEF MapsTyped, SendersTyped
    <3> QED
      BY <3>5, <3>6
  <2>2. CASE Shutdown
    <3>1. SendersTyped'
      BY <2>0, <2>2, SendersSteps DEF Shutdown
    <3>2. MapsTyped' /\ calls' = calls
      BY <2>2, <3>1 DEF Shutdown, groupVars, MapsTyped, SendersTyped
    <3> QED
      BY <3>2
  <2>3. CASE DataSendersCleared
    <3>1. strays' \in [Nodes -> Nat]
      BY <2>3 DEF DataSendersCleared, MapsTyped
    <3>2. subsets' = <<>> /\ DOMAIN subsets' = {}
      BY <2>3 DEF DataSendersCleared
    <3>3. MapsTyped' /\ calls' = calls
      BY <2>3, <3>1, <3>2 DEF DataSendersCleared, MapsTyped
    <3> QED
      BY <3>3
  <2>4. ASSUME NEW r \in Radii, Grouped(r) PROVE TypeOK'
    <3>1. /\ groupings > 0 /\ groupings' = groupings - 1 /\ radius' = r
          /\ subsets' = SubsetsOf(active, r)
          /\ SubscribeFrom(Range(subsets'), {}, Wanted(r))
          /\ UNCHANGED <<nodeVars, strays, clearing>>
      BY <2>4 DEF Grouped
    <3>2. \A i \in DOMAIN subsets' : i \in Nat /\ subsets'[i] \in (SUBSET Nodes) \ {{}}
      BY <3>1, SubsetsTyped DEF MapsTyped
    <3>3. Range(subsets') \in SUBSET SUBSET Nodes
      BY <3>2 DEF Range
    <3>4. CallsTyped(calls') /\ \E nodes : Unsubscribe(nodes)
      BY <3>1, <3>3, SubscribeFromTyped, WantedTyped
    <3>5. SendersTyped'
      BY <2>0, <3>4, SendersSteps
    <3>6. groupings' \in 0..MaxGroupings
      BY <3>1, SubscriptionAssumption DEF MapsTyped
    <3>7. MapsTyped'
      BY <3>1, <3>2, <3>5, <3>6 DEF MapsTyped, SendersTyped, nodeVars
    <3> QED
      BY <3>4, <3>7
  <2>5. ASSUME NEW n \in Nodes, FirstNode(n) PROVE TypeOK'
    <3>1. MapsTyped' /\ calls' = calls
      <4>1. SendersTyped'
        BY <2>0, <2>5, SendersSteps DEF FirstNode
      <4>2. strays' \in [Nodes -> Nat]
        BY <2>5 DEF FirstNode, Subscribe, MapsTyped
      <4>3. /\ listed = {} /\ listed' = {n} /\ active' = active /\ foundFirstNode' = TRUE
            /\ UNCHANGED <<radius, subsets, groupings, calls, clearing>>
        BY <2>5 DEF FirstNode, groupVars
      <4> QED
        BY <4>1, <4>2, <4>3 DEF MapsTyped, SendersTyped
    <3> QED
      BY <3>1
  <2>6. ASSUME NEW n \in Nodes, Answered(n) PROVE TypeOK'
    BY <2>6, AnsweredTyped
  <2>7. ASSUME NEW n \in Nodes, ContactTimeout(n) PROVE TypeOK'
    <3>1. SendersTyped' /\ CallsTyped(calls')
      BY <2>7, ReplaceTyped DEF ContactTimeout
    <3>2. MapsTyped'
      BY <2>7, <3>1 DEF ContactTimeout, nodeVars, groupVars, MapsTyped, SendersTyped
    <3> QED
      BY <3>1, <3>2
  <2>8. ASSUME NEW n \in Nodes, StrayTimeout(n) PROVE TypeOK'
    <3>1. SendersTyped' /\ CallsTyped(calls')
      BY <2>8, ReplaceTyped DEF StrayTimeout
    <3>2. strays' \in [Nodes -> Nat]
      BY <2>8 DEF StrayTimeout, MapsTyped
    <3>3. MapsTyped'
      BY <2>8, <3>1, <3>2 DEF StrayTimeout, nodeVars, groupVars, MapsTyped, SendersTyped
    <3> QED
      BY <3>1, <3>3
  <2>9. ASSUME NEW n \in Nodes, DataReceived(n) \/ DataRefused(n) PROVE TypeOK'
    <3>1. MapsTyped' /\ calls' = calls
      BY <2>9 DEF DataReceived, DataRefused, Unsubscribe, nodeVars, groupVars, MapsTyped
    <3> QED
      BY <3>1
  <2>10. CASE UNCHANGED vars
    BY <2>10 DEF vars, nodeVars, groupVars, senderVars, TypeOK
  <2> QED
    BY <2>1, <2>2, <2>3, <2>4, <2>5, <2>6, <2>7, <2>8, <2>9, <2>10 DEF Next
<1> QED
  BY <1>1, <1>2, PTL DEF Spec

-----------------------------------------------------------------------------
(* Senders that stay *)

\* What HealthyKept needs of the types.
SenderTypes == senders \subseteq Nodes /\ strays \in [Nodes -> Nat]

\* Of the senders of a subset one stays at least: the first in the order of their ids.
LEMMA KeepsOne ==
  ASSUME NEW g, NEW subscribed, subscribed \subseteq Nodes, NEW wanted \in Nat \ {0},
         g \cap subscribed # {}
  PROVE  Kept(g, subscribed, wanted) # {} /\ Kept(g, subscribed, wanted) \subseteq g \cap subscribed
<1> DEFINE found == g \cap subscribed
<1>1. found \in SUBSET Nat /\ found # {}
  BY SubscriptionAssumption
<1>2. PICK n \in found : \A m \in found : n <= m
  BY <1>1, S!Least
<1>3. {m \in found : m < n} = {}
  BY <1>1, <1>2
<1>4. IndexIn(n, found) = 0
  BY <1>3, FS_EmptySet DEF IndexIn
<1>5. Kept(g, subscribed, wanted) = {m \in found : IndexIn(m, found) < wanted}
  BY DEF Kept
<1> QED
  BY <1>2, <1>4, <1>5

\* The subsets are disjoint.
LEMMA Disjoint ==
  ASSUME NEW nodes, NEW r, NEW i \in DOMAIN SubsetsOf(nodes, r), NEW j \in DOMAIN SubsetsOf(nodes, r),
         NEW n \in SubsetsOf(nodes, r)[i], n \in SubsetsOf(nodes, r)[j]
  PROVE  i = j
BY DEF SubsetsOf

\* What is trimmed from subsets that have no node in common leaves one of the same subset.
LEMMA TrimKeepsOne ==
  ASSUME NEW groups, NEW subscribed, subscribed \subseteq Nodes, NEW wanted \in Nat \ {0},
         \A g, h \in groups : g \cap h # {} => g = h,
         NEW n \in Extras(groups, subscribed, wanted)
  PROVE  \E g \in groups : n \in g /\ g \cap (subscribed \ Extras(groups, subscribed, wanted)) # {}
<1>1. PICK g \in groups : n \in (g \cap subscribed) \ Kept(g, subscribed, wanted)
  BY DEF Extras
<1>2. PICK m \in Kept(g, subscribed, wanted) : m \in g \cap subscribed
  BY <1>1, KeepsOne
<1>3. ASSUME NEW h \in groups, m \in (h \cap subscribed) \ Kept(h, subscribed, wanted)
      PROVE  FALSE
  <2>1. g = h
    BY <1>2, <1>3
  <2> QED
    BY <1>2, <1>3, <2>1
<1>4. m \notin Extras(groups, subscribed, wanted)
  BY <1>3 DEF Extras
<1> QED
  BY <1>1, <1>2, <1>4

\* When a subscription starts from subsets, what it drops besides the nodes it is to drop
\* leaves a sender in the same subset.
LEMMA SubscribeFromKeepsOne ==
  ASSUME SenderTypes, NEW groups, NEW gone, NEW wanted \in Nat \ {0},
         SubscribeFrom(groups, gone, wanted),
         \A g, h \in groups : g \cap h # {} => g = h,
         NEW n \in senders, n \notin senders', n \notin gone
  PROVE  \E g \in groups : n \in g /\ g \cap senders' # {}
<1> DEFINE remaining == senders \ gone
           extras == Extras(groups, remaining, wanted)
<1>1. senders' = senders \ (gone \cup extras)
  BY DEF SubscribeFrom, Unsubscribe
<1>2. remaining \subseteq Nodes /\ senders' = remaining \ extras /\ n \in extras
  BY <1>1 DEF SenderTypes
<1> HIDE DEF remaining
<1> QED
  BY <1>2, TrimKeepsOne

\* A replacement drops the node it replaces; what it drops besides has neighbours that stay.
LEMMA ReplaceKeepsOne ==
  ASSUME SenderTypes, NEW o, NEW running, ReplaceDataSender(o, running), UNCHANGED subsets,
         NEW n \in senders, n \notin senders', n # o
  PROVE  (Neighbours(n))' \cap senders' # {}
<1> DEFINE index == IndexIn(o, active) \div radius
           groups == {subsets[i] : i \in {index} \cap DOMAIN subsets}
<1>1. SubscribeFrom(groups, {o}, Wanted(radius))
  BY DEF ReplaceDataSender, Unsubscribe
<1> HIDE DEF index
<1>2. \A g, h \in groups : g = h
  OBVIOUS
<1>3. \A g \in groups : \E i \in DOMAIN subsets : g = subsets[i]
  OBVIOUS
<1> HIDE DEF groups
<1>4. PICK g \in groups : n \in g /\ g \cap senders' # {}
  BY <1>1, <1>2, SubscribeFromKeepsOne, WantedTyped
<1>5. PICK i \in DOMAIN subsets : g = subsets[i]
  BY <1>3
<1> QED
  BY <1>4, <1>5 DEF Neighbours

\* A sender that sends its data in time is dropped only next to one that stays, for a timer
\* that was orphaned, or with the network: for any validators, radii and calls in flight
\* (subscribeNodeFromThisSubset, replaceDataSender, clearDataSenders).
THEOREM HealthyStay == Spec => HealthyKept
<1> DEFINE Right == \A n \in senders \ senders' :
                      Heard(n) /\ n \in listed' =>
                        strays'[n] < strays[n] \/ clearing \/ (Neighbours(n))' \cap senders' # {}
<1>1. TypeOK => SenderTypes
  BY DEF TypeOK, SenderTypes
<1>2. SenderTypes /\ [Next]_vars => [Right]_vars
  <2> SUFFICES ASSUME SenderTypes, [Next]_vars,
                      NEW n \in senders, n \notin senders', Heard(n), n \in listed'
               PROVE  strays'[n] < strays[n] \/ clearing \/ (Neighbours(n))' \cap senders' # {}
    OBVIOUS
  <2>1. CASE NextCycle
    BY <2>1 DEF NextCycle, ApplyCycle, Unsubscribe
  <2>2. CASE Shutdown
    BY <2>2 DEF Shutdown
  <2>3. CASE DataSendersCleared
    BY <2>3 DEF DataSendersCleared
  <2>4. ASSUME NEW r \in Radii, Grouped(r)
        PROVE  (Neighbours(n))' \cap senders' # {}
    <3>1. subsets' = SubsetsOf(active, r) /\ SubscribeFrom(Range(subsets'), {}, Wanted(r))
      BY <2>4 DEF Grouped
    <3>2. \A i, j \in DOMAIN subsets' : subsets'[i] \cap subsets'[j] # {} => i = j
      BY <3>1, Disjoint
    <3>3. \A g \in Range(subsets') : \E i \in DOMAIN subsets' : g = subsets'[i]
      BY DEF Range
    <3>4. \A g, h \in Range(subsets') : g \cap h # {} => g = h
      BY <3>2, <3>3
    <3>5. PICK g \in Range(subsets') : n \in g /\ g \cap senders' # {}
      BY <3>1, <3>4, SubscribeFromKeepsOne, WantedTyped
    <3> QED
      BY <3>3, <3>5 DEF Neighbours
  <2>5. ASSUME NEW o \in Nodes, Answered(o) \/ FirstNode(o) \/ DataReceived(o)
        PROVE  FALSE
    BY <2>5 DEF Answered, SubscribeAnswered, FirstNode, Subscribe, DataReceived, senderVars
  <2>6. ASSUME NEW o \in Nodes, ContactTimeout(o)
        PROVE  (Neighbours(n))' \cap senders' # {}
    BY <2>6, ReplaceKeepsOne DEF ContactTimeout, groupVars
  <2>7. ASSUME NEW o \in Nodes, StrayTimeout(o)
        PROVE  strays'[n] < strays[n] \/ (Neighbours(n))' \cap senders' # {}
    <3>1. CASE n # o
      BY <2>7, <3>1, ReplaceKeepsOne DEF StrayTimeout, groupVars
    <3>2. CASE n = o
      <4>1. strays[n] \in Nat /\ strays' = [strays EXCEPT ![n] = strays[n] - 1]
        BY <2>7, <3>2 DEF StrayTimeout, SenderTypes
      <4>2. strays'[n] = strays[n] - 1
        BY <2>7, <3>2, <4>1 DEF SenderTypes
      <4> QED
        BY <4>1, <4>2
    <3> QED
      BY <3>1, <3>2
  <2>8. ASSUME NEW o \in Nodes, DataRefused(o) PROVE FALSE
    BY <2>8 DEF DataRefused, Unsubscribe, Heard
  <2>9. CASE UNCHANGED vars
    BY <2>9 DEF vars, senderVars
  <2> QED
    BY <2>1, <2>2, <2>3, <2>4, <2>5, <2>6, <2>7, <2>8, <2>9 DEF Next
<1> QED
  BY <1>1, <1>2, SubscriptionsTyped, PTL DEF Spec, HealthyKept

-----------------------------------------------------------------------------
(* Genesis accounts *)

\* Where a batch that came may be.
Somewhere == genesisAccounts \cup combineAccountsData \cup (UNION storing)

\* While no call has ended with the flag set, batches wait only behind the flag, the flag is set only
\* while a call is under way, and no batch with a true account is nowhere.
Waiting ==
  ~stuck =>
    /\ storingAccountData => storing # {}
    /\ combineAccountsData # {} => storingAccountData
    /\ came \ (Untrue \cup Empty) \subseteq Somewhere

GenesisInv == Genesis!TypeOK /\ Waiting

LEMMA GenesisInit == Genesis!Init => GenesisInv
  BY DEF Genesis!Init, GenesisInv, Genesis!TypeOK, Waiting, Somewhere

\* Each step of a call keeps the state within its types and every batch somewhere.
LEMMA GenesisNext == GenesisInv /\ [Genesis!Next]_Genesis!vars => GenesisInv'
<1> SUFFICES ASSUME GenesisInv, [Genesis!Next]_Genesis!vars PROVE GenesisInv'
  OBVIOUS
<1>1. CASE Genesis!ReceiveAccounts
  BY <1>1 DEF Genesis!ReceiveAccounts, Genesis!StartStoring, GenesisInv, Genesis!TypeOK, Waiting, Somewhere
<1>2. CASE Genesis!SyncAccounts
  BY <1>2 DEF Genesis!SyncAccounts, Genesis!StartStoring, GenesisInv, Genesis!TypeOK, Waiting, Somewhere
<1>3. CASE Genesis!Stored
  <2> PICK batches \in storing :
        /\ genesisAccounts' = IF Genesis!AnyTrue(batches) THEN genesisAccounts \cup batches ELSE genesisAccounts
        /\ IF batches \cap Malformed # {}
           THEN /\ storing' = storing \ {batches}
                /\ stuck' = TRUE
                /\ UNCHANGED <<storingAccountData, combineAccountsData>>
           ELSE IF combineAccountsData # {}
           THEN /\ storingAccountData' = TRUE
                /\ combineAccountsData' = {}
                /\ storing' = (storing \ {batches}) \cup {combineAccountsData}
                /\ UNCHANGED stuck
           ELSE /\ storingAccountData' = FALSE
                /\ storing' = storing \ {batches}
                /\ UNCHANGED <<combineAccountsData, stuck>>
        /\ UNCHANGED came
    BY <1>3 DEF Genesis!Stored, Genesis!Combined
  <2>1. Genesis!TypeOK'
    <3>1. batches \subseteq came /\ combineAccountsData \subseteq came
      BY DEF GenesisInv, Genesis!TypeOK
    <3>2. storing' \subseteq storing \cup {combineAccountsData}
      OBVIOUS
    <3> QED
      BY <3>1, <3>2 DEF GenesisInv, Genesis!TypeOK
  <2>2. batches \ Untrue \subseteq genesisAccounts' /\ genesisAccounts \subseteq genesisAccounts'
    BY DEF Genesis!AnyTrue
  <2>3. CASE batches \cap Malformed # {}
    BY <2>1, <2>3 DEF GenesisInv, Waiting
  <2>4. CASE batches \cap Malformed = {} /\ combineAccountsData # {}
    <3>1. combineAccountsData \subseteq UNION storing'
      BY <2>4
    <3>2. UNION storing \subseteq (UNION storing') \cup batches
      BY <2>4
    <3>3. stuck' = stuck /\ storingAccountData' = TRUE /\ storing' # {} /\ combineAccountsData' = {}
      BY <2>4
    <3>4. ~stuck => came' \ (Untrue \cup Empty) \subseteq Somewhere'
      BY <2>2, <3>1, <3>2 DEF GenesisInv, Waiting, Somewhere
    <3> QED
      BY <2>1, <3>3, <3>4 DEF GenesisInv, Waiting
  <2>5. CASE batches \cap Malformed = {} /\ combineAccountsData = {}
    <3>1. UNION storing \subseteq (UNION storing') \cup batches
      BY <2>5
    <3>2. stuck' = stuck /\ storingAccountData' = FALSE /\ combineAccountsData' = {}
      BY <2>5
    <3>3. ~stuck => came' \ (Untrue \cup Empty) \subseteq Somewhere'
      BY <2>2, <2>5, <3>1 DEF GenesisInv, Waiting, Somewhere
    <3> QED
      BY <2>1, <3>2, <3>3 DEF GenesisInv, Waiting
  <2> QED
    BY <2>3, <2>4, <2>5
<1>4. CASE UNCHANGED Genesis!vars
  BY <1>4 DEF Genesis!vars, GenesisInv, Genesis!TypeOK, Waiting, Somewhere
<1> QED
  BY <1>1, <1>2, <1>3, <1>4 DEF Genesis!Next

\* Batches that overlap, are combined or are downloaded meanwhile are all written, whatever their
\* number, as long as no call of storeAccountData ends with its flag set.
THEOREM AllStored == Genesis!Spec => []GenesisStored
<1>1. GenesisInv => GenesisStored
  BY DEF GenesisStored, GenesisInv, Waiting, Genesis!GenesisStored, Somewhere
<1> QED
  BY GenesisInit, GenesisNext, <1>1, PTL DEF Genesis!Spec

-----------------------------------------------------------------------------
(* Validators that are served account data *)

\* A validator has its place since it asked last, and with the timer running for a period no
\* place is older than two.
Places ==
  /\ asked \in [Validators -> {Serving!Never} \cup StartTime..now]
  /\ \A v \in DOMAIN servingValidators :
       servingValidators[v] \in StartTime..now /\ servingValidators[v] = asked[v]
  /\ interval # Serving!Never /\ interval < now =>
       \A v \in DOMAIN servingValidators : now - servingValidators[v] <= 1

ServingInv == Serving!TypeOK /\ Places /\ Serving!BusyOnlyWithOthers

\* A set is finite, and has a number of elements, for AccountServing as here.
LEMMA ServingSets ==
  ASSUME NEW T
  PROVE  /\ Serving!IsFiniteSet(T) = IsFiniteSet(T)
         /\ Serving!Cardinality(T) = Cardinality(T)
BY DEF Serving!IsFiniteSet, IsFiniteSet, Serving!Cardinality, Cardinality

LEMMA ServingInit == Serving!ServingAssumption /\ Serving!Init => ServingInv
<1> SUFFICES ASSUME Serving!ServingAssumption, Serving!Init PROVE ServingInv
  OBVIOUS
<1>1. /\ now = StartTime /\ mode = "none" /\ interval = Serving!Never
      /\ DOMAIN servingValidators = {} /\ asked = [v \in Validators |-> Serving!Never]
      /\ refused.timer = Serving!Never
  BY DEF Serving!Init
<1>2. Serving!Cardinality(DOMAIN servingValidators) = 0
  BY <1>1, ServingSets, FS_EmptySet
<1>3. /\ maxValidatorsToServe \in Nat /\ "none" \in Modes
      /\ StartTime \in Nat /\ MaxTime \in Nat /\ StartTime <= MaxTime
  BY DEF Serving!ServingAssumption
<1>4. Serving!TypeOK
  BY <1>1, <1>2, <1>3 DEF Serving!TypeOK
<1> QED
  BY <1>1, <1>4 DEF ServingInv, Places, Serving!BusyOnlyWithOthers

\* Finite sets of validators.
LEMMA SomeValidators ==
  ASSUME Serving!ServingAssumption, NEW T \in SUBSET Validators, NEW U \in SUBSET T
  PROVE  /\ IsFiniteSet(T) /\ Cardinality(T) \in Nat /\ Cardinality(U) \in Nat
         /\ Cardinality(U) <= Cardinality(T)
         /\ Serving!Cardinality(T) = Cardinality(T) /\ Serving!Cardinality(U) = Cardinality(U)
<1>1. IsFiniteSet(Validators)
  BY ServingSets DEF Serving!ServingAssumption
<1>2. IsFiniteSet(T)
  BY <1>1, FS_Subset
<1> QED
  BY <1>2, ServingSets, FS_Subset, FS_CardinalityType

LEMMA RequestKeeps ==
  ASSUME Serving!ServingAssumption, ServingInv, NEW v \in Validators, Serving!GetAccountData(v)
  PROVE  ServingInv'
<1> DEFINE places == DOMAIN servingValidators
<1>1. /\ now' = now /\ mode' = mode /\ interval' = interval
      /\ asked' = [asked EXCEPT ![v] = now]
  BY DEF Serving!GetAccountData
<1>2. /\ StartTime \in Nat /\ MaxTime \in Nat /\ maxValidatorsToServe \in Nat
      /\ now \in StartTime..MaxTime /\ Serving!Never = -1
  BY DEF Serving!ServingAssumption, ServingInv, Serving!TypeOK, Serving!Never
<1>3. /\ asked' \in [Validators -> {Serving!Never} \cup StartTime..now] /\ asked'[v] = now
      /\ \A u \in Validators \ {v} : asked'[u] = asked[u]
  BY <1>1, <1>2 DEF ServingInv, Places
<1>4. places \in SUBSET Validators /\ Cardinality(places) \in Nat
      /\ Serving!Cardinality(places) = Cardinality(places) /\ IsFiniteSet(places)
  BY SomeValidators DEF ServingInv, Serving!TypeOK
<1>5. CASE Serving!Busy(v)
  <2> DEFINE others ==
        {u \in Validators \ {v} : asked[u] # Serving!Never /\ now - asked[u] <= 1}
  <2>1. /\ refused' = [time |-> now, timer |-> interval, others |-> others]
        /\ servingValidators' = servingValidators
    BY <1>5 DEF Serving!GetAccountData
  <2>2. v \notin places /\ Cardinality(places) >= maxValidatorsToServe
    BY <1>4, <1>5 DEF Serving!Busy
  <2>3. ASSUME interval # Serving!Never, interval < now
        PROVE  Serving!Cardinality(others) >= maxValidatorsToServe
    <3>1. places \subseteq others
      BY <1>2, <1>4, <2>2, <2>3 DEF ServingInv, Places
    <3>2. others \in SUBSET Validators
      OBVIOUS
    <3> HIDE DEF others, places
    <3>3. Cardinality(places) <= Cardinality(others) /\ Cardinality(others) \in Nat
          /\ Serving!Cardinality(others) = Cardinality(others)
      BY <3>1, <3>2, SomeValidators
    <3> QED
      BY <1>2, <1>4, <2>2, <3>3
  <2> HIDE DEF others
  <2>4. /\ refused'.time = now /\ refused'.timer = interval /\ refused'.others = others
    BY <2>1
  <2>5. Serving!BusyOnlyWithOthers'
    BY <2>3, <2>4 DEF Serving!BusyOnlyWithOthers
  <2>6. Serving!TypeOK'
    BY <1>1, <1>3, <2>1 DEF ServingInv, Serving!TypeOK
  <2>7. Places'
    BY <1>1, <1>3, <1>4, <2>1, <2>2 DEF ServingInv, Places
  <2> QED
    BY <2>5, <2>6, <2>7 DEF ServingInv
<1>6. CASE ~Serving!Busy(v)
  <2>1. /\ servingValidators' = [u \in places \cup {v} |->
                                  IF u = v THEN now ELSE servingValidators[u]]
        /\ refused' = refused
    BY <1>6 DEF Serving!GetAccountData
  <2>2. DOMAIN servingValidators' = places \cup {v}
    BY <2>1
  <2>3. Serving!Cardinality(places \cup {v}) <= maxValidatorsToServe
    <3>1. CASE v \in places
      <4>1. places \cup {v} = places
        BY <3>1
      <4> QED
        BY <4>1 DEF ServingInv, Serving!TypeOK
    <3>2. CASE v \notin places
      <4>1. Cardinality(places) < maxValidatorsToServe
        BY <1>2, <1>4, <1>6, <3>2 DEF Serving!Busy
      <4>2. Cardinality(places \cup {v}) = Cardinality(places) + 1
        BY <1>4, <3>2, FS_AddElement
      <4>3. Serving!Cardinality(places \cup {v}) = Cardinality(places \cup {v})
        BY ServingSets
      <4> QED
        BY <1>2, <1>4, <4>1, <4>2, <4>3
    <3> QED
      BY <3>1, <3>2
  <2>4. Serving!TypeOK'
    BY <1>1, <1>3, <1>4, <2>2, <2>3 DEF ServingInv, Serving!TypeOK
  <2>5. \A u \in places \cup {v} :
          servingValidators'[u] \in StartTime..now /\ servingValidators'[u] = asked'[u]
    BY <1>2, <1>3, <1>4, <2>1 DEF ServingInv, Places
  <2>6. interval # Serving!Never /\ interval < now =>
          \A u \in places \cup {v} : now - servingValidators'[u] <= 1
    BY <1>2, <2>1 DEF ServingInv, Places
  <2>7. Places'
    BY <1>1, <1>3, <2>2, <2>5, <2>6 DEF Places
  <2>8. Serving!BusyOnlyWithOthers'
    BY <2>1 DEF ServingInv, Serving!BusyOnlyWithOthers
  <2> QED
    BY <2>4, <2>7, <2>8 DEF ServingInv
<1> QED
  BY <1>5, <1>6

LEMMA TickKeeps ==
  ASSUME Serving!ServingAssumption, ServingInv, Serving!Tick
  PROVE  ServingInv'
<1> DEFINE places == DOMAIN servingValidators
           kept == {v \in places : now' - servingValidators[v] <= 1}
<1>1. /\ now < MaxTime /\ now' = now + 1 /\ mode' = mode /\ interval' = interval
      /\ asked' = asked /\ refused' = refused
  BY DEF Serving!Tick
<1>2. /\ StartTime \in Nat /\ MaxTime \in Nat /\ maxValidatorsToServe \in Nat
      /\ now \in StartTime..MaxTime
  BY DEF Serving!ServingAssumption, ServingInv, Serving!TypeOK
<1>3. now' \in StartTime..MaxTime
  BY <1>1, <1>2
<1>4. /\ asked' \in [Validators -> {Serving!Never} \cup StartTime..now']
      /\ interval' \in {Serving!Never} \cup StartTime..now'
  BY <1>1, <1>2 DEF ServingInv, Places, Serving!TypeOK
<1>5. places \in SUBSET Validators /\ Serving!Cardinality(places) <= maxValidatorsToServe
  BY DEF ServingInv, Serving!TypeOK
<1>6. \A v \in places : /\ servingValidators[v] \in StartTime..now'
                        /\ servingValidators[v] = asked'[v]
  BY <1>1, <1>2 DEF ServingInv, Places
<1>7. Serving!BusyOnlyWithOthers'
  BY <1>1 DEF ServingInv, Serving!BusyOnlyWithOthers
<1>8. CASE interval # Serving!Never
  <2>1. servingValidators' = [v \in kept |-> servingValidators[v]]
    BY <1>8 DEF Serving!Tick, Serving!clearTimeoutServingValidators
  <2>2. DOMAIN servingValidators' = kept /\ kept \in SUBSET places
        /\ \A v \in kept : servingValidators'[v] = servingValidators[v]
                           /\ now' - servingValidators'[v] <= 1
    BY <2>1
  <2> HIDE DEF kept, places
  <2>3. Serving!Cardinality(kept) <= maxValidatorsToServe
    <3>1. /\ Cardinality(kept) <= Cardinality(places)
          /\ Cardinality(kept) \in Nat /\ Cardinality(places) \in Nat
          /\ Serving!Cardinality(kept) = Cardinality(kept)
          /\ Serving!Cardinality(places) = Cardinality(places)
      BY <1>5, <2>2, SomeValidators
    <3> QED
      BY <1>2, <1>5, <3>1
  <2>4. Serving!TypeOK'
    BY <1>1, <1>3, <1>4, <1>5, <2>2, <2>3 DEF Serving!TypeOK, ServingInv
  <2>5. Places'
    BY <1>4, <1>6, <2>2 DEF Places
  <2> QED
    BY <1>7, <2>4, <2>5 DEF ServingInv
<1>9. CASE interval = Serving!Never
  <2>1. servingValidators' = servingValidators
    BY <1>9 DEF Serving!Tick
  <2>2. Serving!TypeOK'
    BY <1>1, <1>3, <1>4, <1>5, <2>1 DEF Serving!TypeOK, ServingInv
  <2>3. Places'
    BY <1>1, <1>4, <1>6, <1>9, <2>1 DEF Places
  <2> QED
    BY <1>7, <2>2, <2>3 DEF ServingInv
<1> QED
  BY <1>8, <1>9

LEMMA ModeKeeps ==
  ASSUME Serving!ServingAssumption, ServingInv, Serving!ChangeNetworkMode
  PROVE  ServingInv'
<1>1. /\ now' = now /\ asked' = asked /\ refused' = refused
      /\ servingValidators' = servingValidators
      /\ interval' \in {Serving!Never, now, interval} /\ mode' \in Modes
  BY DEF Serving!ChangeNetworkMode, Serving!ServingAssumption
<1>2. now \in StartTime..MaxTime /\ StartTime \in Nat /\ MaxTime \in Nat
  BY DEF Serving!ServingAssumption, ServingInv, Serving!TypeOK
<1>3. Serving!TypeOK'
  BY <1>1, <1>2 DEF ServingInv, Serving!TypeOK
<1>4. Places'
  BY <1>1, <1>2 DEF ServingInv, Places
<1> QED
  BY <1>1, <1>3, <1>4 DEF ServingInv, Serving!BusyOnlyWithOthers

\* A validator is turned away only while as many others have asked within the last periods as
\* are served at a time, for any number of validators and places, once the timer has run for a
\* period (validateAccountDataRequest, clearTimeoutServingValidators): the places of those
\* that fell silent are given up, those of an earlier restore too.
THEOREM TurnedAwayRightly == Serving!Spec => []BusyOnlyWithOthers
<1> USE PartsAssumption
<1>1. Serving!Init => ServingInv
  BY ServingInit
<1>2. ServingInv /\ [Serving!Next]_Serving!vars => ServingInv'
  <2> SUFFICES ASSUME ServingInv, [Serving!Next]_Serving!vars PROVE ServingInv'
    OBVIOUS
  <2>1. ASSUME NEW v \in Validators, Serving!GetAccountData(v) PROVE ServingInv'
    BY <2>1, RequestKeeps
  <2>2. CASE Serving!AccountStored
    BY <2>2 DEF Serving!AccountStored, ServingInv, Places, Serving!TypeOK,
                Serving!BusyOnlyWithOthers
  <2>3. CASE Serving!Tick
    BY <2>3, TickKeeps
  <2>4. CASE Serving!ChangeNetworkMode
    BY <2>4, ModeKeeps
  <2>5. CASE UNCHANGED Serving!vars
    BY <2>5 DEF Serving!vars, ServingInv, Places, Serving!TypeOK, Serving!BusyOnlyWithOthers
  <2> QED
    BY <2>1, <2>2, <2>3, <2>4, <2>5 DEF Serving!Next
<1>3. ServingInv => BusyOnlyWithOthers
  BY DEF ServingInv, BusyOnlyWithOthers
<1> QED
  BY <1>1, <1>2, <1>3, PTL DEF Serving!Spec

-----------------------------------------------------------------------------
(* Data logs: the files as one sequence of entries *)

\* What holds of a log writer even when a rotation was cut short.
AllNames == {"log", "old-log"} \X (1..maxLogFiles)
FilesTyped(fs) == fs \in [DOMAIN fs -> Seq(Nat)] /\ DOMAIN fs \subseteq AllNames
LogTypes ==
  /\ Logs!TypeOK
  /\ FilesTyped(files)
  /\ writeQueue \in Seq(Nat) /\ entries \in Nat /\ position \in Nat \ {0} /\ crashes \in Nat
  /\ logCounter <= maxLogFiles \/ at = "rotate"
  /\ at \in {"rotate", "setActive", "append"} =>
       totalNumberOfEntries = 0 /\ position <= Len(writeQueue)
  /\ at \in {"rotate", "setActive"} => stream = Logs!Ended

\* The files there are while number cur is written, in the first round and later.
LogNumbers(cur, first) ==
  (IF first \/ cur < maxLogFiles THEN 1..cur ELSE {})
    \cup (IF ~first /\ (cur < Logs!Half \/ cur = maxLogFiles) THEN (Logs!Half + 1)..maxLogFiles ELSE {})
OldNumbers(cur, first) ==
  IF first THEN {}
  ELSE IF cur < Logs!Half \/ cur = maxLogFiles THEN 1..Logs!Half
  ELSE (Logs!Half + 1)..maxLogFiles
Names(cur, first) ==
  {Logs!Log(n) : n \in LogNumbers(cur, first)} \cup {Logs!Old(n) : n \in OldNumbers(cur, first)}

\* The place of a file in the sequence of all: those of the last round come before number 1.
Age(name, cur) ==
  IF name[2] <= cur /\ (name[1] = "log" \/ cur = maxLogFiles) THEN name[2] ELSE name[2] - maxLogFiles

\* A file being written has entries only, one that has ended as many as it may and an end.
Ascends(f, n) == \A i, j \in 1..n : i < j => f[i] < f[j]
PartOfFile(f) ==
  /\ Len(f) <= maxNumberEntriesPerLog /\ Ascends(f, Len(f))
  /\ \A i \in DOMAIN f : f[i] # 0
WholeFile(f) ==
  /\ Len(f) > maxNumberEntriesPerLog /\ Ascends(f, maxNumberEntriesPerLog)
  /\ \A i \in DOMAIN f : f[i] = 0 <=> i > maxNumberEntriesPerLog

Before(f, g) ==
  \A i \in DOMAIN f, j \in DOMAIN g : f[i] # 0 /\ g[j] # 0 => f[i] < g[j]

\* The files of fs are there, in order, and have ended, but for number cur.
Chain(fs, cur, names) ==
  /\ fs \in [names -> Seq(Nat)]
  /\ \A name \in names \ {Logs!Log(cur)} : WholeFile(fs[name])
  /\ \A f, g \in names : Age(f, cur) < Age(g, cur) => Before(fs[f], fs[g])

\* No file has been renamed yet.
First(fs) == Logs!OldFiles(fs) = {}
\* The files while number cur is written, and before it is opened.
Writing(fs, cur) ==
  /\ cur \in 1..maxLogFiles /\ (First(fs) => cur < maxLogFiles)
  /\ Chain(fs, cur, Names(cur, First(fs)))
Turned(fs, cur) ==
  /\ cur \in 1..maxLogFiles /\ (First(fs) => cur \in 2..(maxLogFiles - 1))
  /\ Chain(fs, cur, Names(cur, First(fs)) \ {Logs!Log(cur)})

FilesInv ==
  /\ at \in {"idle", "loop", "append"} =>
       /\ Writing(files, activeLog)
       /\ PartOfFile(files[Logs!Log(activeLog)])
       /\ totalNumberOfEntries = Len(files[Logs!Log(activeLog)])
       /\ stream = Logs!Log(activeLog) /\ logCounter = activeLog
  /\ at = "rotate" =>
       /\ Writing(files, activeLog)
       /\ WholeFile(files[Logs!Log(activeLog)])
       /\ logCounter = activeLog + 1
  /\ at = "setActive" =>
       Turned(files, logCounter) /\ logCounter = Logs!Wrapped(activeLog + 1)

\* The entries of the queue from the one at hand on are not written yet.
QueueInv ==
  /\ position = dataWriteIndex + 1 /\ dataWriteIndex <= Len(writeQueue)
  /\ at = "idle" => writeQueue = <<>>
  /\ Ascends(writeQueue, Len(writeQueue))
  /\ \A i \in DOMAIN writeQueue : writeQueue[i] \in 1..entries
  /\ \A line \in Logs!LinesOf(files) :
       line <= entries /\ \A i \in position..Len(writeQueue) : line < writeQueue[i]

\* An entry that is in no file is lost, not written, or older than all files after the first round.
Unwritten(e) == \E i \in position..Len(writeQueue) : writeQueue[i] = e
Pushed(e, fs) == ~First(fs) /\ \A line \in Logs!LinesOf(fs) : line # 0 => e < line
EntriesInv ==
  \A e \in 1..entries : e \in lost \/ Unwritten(e) \/ e \in Logs!LinesOf(files) \/ Pushed(e, files)


LEMMA LogConstants ==
  /\ maxLogFiles \in Nat /\ Logs!Half \in Nat /\ Logs!Half >= 2 /\ maxLogFiles = 2 * Logs!Half
  /\ maxNumberEntriesPerLog \in Nat \ {0}
BY PartsAssumption DEF Logs!LogAssumption, Logs!Half

\* Names are of log files and of old ones, with numbers of their own.
LEMMA InNames ==
  ASSUME NEW cur \in 1..maxLogFiles, NEW first \in BOOLEAN
  PROVE  /\ \A n : Logs!Log(n) \in Names(cur, first) <=> n \in LogNumbers(cur, first)
         /\ \A n : Logs!Old(n) \in Names(cur, first) <=> n \in OldNumbers(cur, first)
         /\ \A name \in Names(cur, first) :
              \/ name = Logs!Log(name[2]) /\ name[2] \in LogNumbers(cur, first)
              \/ name = Logs!Old(name[2]) /\ name[2] \in OldNumbers(cur, first)
         /\ LogNumbers(cur, first) \subseteq 1..maxLogFiles
         /\ OldNumbers(cur, first) \subseteq 1..maxLogFiles
         /\ Names(cur, first) \subseteq AllNames
<1>1. \A n : Logs!Log(n) \in Names(cur, first) <=> n \in LogNumbers(cur, first)
  BY DEF Names, Logs!Log, Logs!Old
<1>2. \A n : Logs!Old(n) \in Names(cur, first) <=> n \in OldNumbers(cur, first)
  BY DEF Names, Logs!Log, Logs!Old
<1>3. \A name \in Names(cur, first) :
        \/ name = Logs!Log(name[2]) /\ name[2] \in LogNumbers(cur, first)
        \/ name = Logs!Old(name[2]) /\ name[2] \in OldNumbers(cur, first)
  BY DEF Names, Logs!Log, Logs!Old
<1>4. LogNumbers(cur, first) \subseteq 1..maxLogFiles
  BY LogConstants DEF LogNumbers
<1>5. OldNumbers(cur, first) \subseteq 1..maxLogFiles
  BY LogConstants DEF OldNumbers
<1>6. Names(cur, first) \subseteq AllNames
  BY <1>3, <1>4, <1>5 DEF AllNames, Logs!Log, Logs!Old
<1> QED
  BY <1>1, <1>2, <1>3, <1>4, <1>5, <1>6

\* No two files have the same age, and none is younger than the one being written.
LEMMA Ages ==
  ASSUME NEW cur \in 1..maxLogFiles, NEW first \in BOOLEAN, first => cur < maxLogFiles
  PROVE  /\ Logs!Log(cur) \in Names(cur, first) /\ Age(Logs!Log(cur), cur) = cur
         /\ \A f \in Names(cur, first) : Age(f, cur) \in Int /\ Age(f, cur) <= cur
         /\ \A f, g \in Names(cur, first) : Age(f, cur) = Age(g, cur) => f = g
<1>1. Logs!Log(cur) \in Names(cur, first)
  BY InNames, LogConstants DEF LogNumbers
<1>2. Age(Logs!Log(cur), cur) = cur
  BY LogConstants DEF Age, Logs!Log
<1>3. ASSUME NEW f \in Names(cur, first)
      PROVE  Age(f, cur) \in Int /\ Age(f, cur) <= cur
  BY InNames, LogConstants DEF Age
<1>4. ASSUME NEW f \in Names(cur, first), NEW g \in Names(cur, first), Age(f, cur) = Age(g, cur)
      PROVE  f = g
  <2> DEFINE m == f[2]
             n == g[2]
  <2>1. m \in 1..maxLogFiles /\ n \in 1..maxLogFiles
    BY InNames
  <2>2. m = n
    <3>1. Age(f, cur) \in {m, m - maxLogFiles} /\ Age(g, cur) \in {n, n - maxLogFiles}
      BY DEF Age
    <3> HIDE DEF m, n
    <3> QED
      BY <1>4, <2>1, <3>1, LogConstants
  <2>3. ASSUME NEW k \in LogNumbers(cur, first), k \in OldNumbers(cur, first)
        PROVE  Age(Logs!Log(k), cur) # Age(Logs!Old(k), cur)
    BY <2>3, LogConstants DEF LogNumbers, OldNumbers, Age, Logs!Log, Logs!Old
  <2>4. \/ f = Logs!Log(m) /\ m \in LogNumbers(cur, first)
        \/ f = Logs!Old(m) /\ m \in OldNumbers(cur, first)
    BY InNames
  <2>5. \/ g = Logs!Log(n) /\ n \in LogNumbers(cur, first)
        \/ g = Logs!Old(n) /\ n \in OldNumbers(cur, first)
    BY InNames
  <2> HIDE DEF m, n
  <2> QED
    BY <1>4, <2>2, <2>3, <2>4, <2>5
<1> QED
  BY <1>1, <1>2, <1>3, <1>4

\* There are renamed files after the first round, and only then.
LEMMA FirstNames ==
  ASSUME NEW cur \in 1..maxLogFiles, NEW first \in BOOLEAN, NEW fs,
         DOMAIN fs = Names(cur, first) \/ DOMAIN fs = Names(cur, first) \ {Logs!Log(cur)}
  PROVE  First(fs) = first
<1>1. Logs!OldFiles(fs) = {Logs!Old(n) : n \in OldNumbers(cur, first)}
  BY InNames DEF Logs!OldFiles, Logs!Log, Logs!Old
<1>2. first <=> OldNumbers(cur, first) = {}
  BY LogConstants DEF OldNumbers
<1> QED
  BY <1>1, <1>2 DEF First

\* What the rotation before the file after number cur renames, and which old files it leaves.
Moved(cur, first) ==
  IF cur + 1 = Logs!Half THEN (IF first THEN {} ELSE (Logs!Half + 1)..maxLogFiles)
  ELSE IF cur + 1 = maxLogFiles THEN 1..Logs!Half ELSE {}
OldLeft(cur, first) == IF cur + 1 \in {Logs!Half, maxLogFiles} THEN {} ELSE OldNumbers(cur, first)
StillFirst(cur, first) == first /\ cur + 1 # maxLogFiles
Source(name, cur, first) ==
  IF name[1] = "old-log" /\ name[2] \in Moved(cur, first) THEN Logs!Log(name[2]) ELSE name

\* The numbers of logs and of old files after a rotation.
LEMMA NextNumbers ==
  ASSUME NEW cur \in 1..maxLogFiles, NEW first \in BOOLEAN, first => cur < maxLogFiles,
         NEW w, w = Logs!Wrapped(cur + 1), NEW after, after = StillFirst(cur, first)
  PROVE  /\ LogNumbers(w, after) \ {w} = LogNumbers(cur, first) \ Moved(cur, first)
         /\ OldNumbers(w, after) = Moved(cur, first) \cup OldLeft(cur, first)
         /\ Moved(cur, first) \subseteq LogNumbers(cur, first)
         /\ OldLeft(cur, first) # {} => Moved(cur, first) = {}
         /\ w \in 1..maxLogFiles /\ (after => w \in 2..(maxLogFiles - 1))
<1>1. CASE cur + 1 = Logs!Half
  <2>1. w = cur + 1 /\ after = first
    BY <1>1, LogConstants DEF Logs!Wrapped, StillFirst
  <2> QED
    BY <1>1, <2>1, LogConstants DEF LogNumbers, OldNumbers, Moved, OldLeft
<1>2. CASE cur + 1 = maxLogFiles
  <2>1. w = cur + 1
    BY <1>2, LogConstants DEF Logs!Wrapped
  <2>2. ~after
    BY <1>2 DEF StillFirst
  <2> QED
    BY <1>2, <2>1, <2>2, LogConstants DEF LogNumbers, OldNumbers, Moved, OldLeft
<1>3. CASE cur = maxLogFiles
  <2>1. w = 1 /\ ~after
    BY <1>3, LogConstants DEF Logs!Wrapped, StillFirst
  <2> QED
    BY <1>3, <2>1, LogConstants DEF LogNumbers, OldNumbers, Moved, OldLeft
<1>4. CASE cur + 1 \notin {Logs!Half, maxLogFiles, maxLogFiles + 1}
  <2>1. w = cur + 1 /\ after = first
    BY <1>4, LogConstants DEF Logs!Wrapped, StillFirst
  <2> QED
    BY <1>4, <2>1, LogConstants DEF LogNumbers, OldNumbers, Moved, OldLeft
<1> QED
  BY <1>1, <1>2, <1>3, <1>4, LogConstants

\* A file is as far from the others after a rotation as before it.
LEMMA NextAges ==
  ASSUME NEW cur \in 1..maxLogFiles, NEW first \in BOOLEAN, first => cur < maxLogFiles,
         NEW w, w = Logs!Wrapped(cur + 1)
  PROVE  \E shift \in Int :
           /\ \A n \in Moved(cur, first) : Age(Logs!Old(n), w) = Age(Logs!Log(n), cur) + shift
           /\ \A n \in OldLeft(cur, first) : Age(Logs!Old(n), w) = Age(Logs!Old(n), cur) + shift
           /\ \A n \in LogNumbers(cur, first) \ Moved(cur, first) :
                Age(Logs!Log(n), w) = Age(Logs!Log(n), cur) + shift
<1>1. CASE cur = maxLogFiles
  <2>1. w = 1
    BY <1>1, LogConstants DEF Logs!Wrapped
  <2>2. 0 - maxLogFiles \in Int
    BY LogConstants
  <2> WITNESS 0 - maxLogFiles \in Int
  <2> QED
    BY <1>1, <2>1, LogConstants
    DEF LogNumbers, OldNumbers, Moved, OldLeft, Age, Logs!Log, Logs!Old
<1>2. CASE cur # maxLogFiles
  <2>1. w = cur + 1
    BY <1>2, LogConstants DEF Logs!Wrapped
  <2> WITNESS 0 \in Int
  <2> QED
    BY <1>2, <2>1, LogConstants
    DEF LogNumbers, OldNumbers, Moved, OldLeft, Age, Logs!Log, Logs!Old
<1> QED
  BY <1>1, <1>2

\* A rotation deletes what is older than all it leaves.
LEMMA OlderDeleted ==
  ASSUME NEW cur \in 1..maxLogFiles, NEW first \in BOOLEAN, first => cur < maxLogFiles,
         NEW n \in OldNumbers(cur, first), cur + 1 \in {Logs!Half, maxLogFiles}
  PROVE  /\ ~first
         /\ \A k \in LogNumbers(cur, first) : Age(Logs!Old(n), cur) < Age(Logs!Log(k), cur)
BY LogConstants DEF LogNumbers, OldNumbers, Age, Logs!Log, Logs!Old

LEMMA InLines ==
  ASSUME NEW fs
  PROVE  \A e : e \in Logs!LinesOf(fs) <=>
                  \E name \in DOMAIN fs : \E i \in DOMAIN fs[name] : fs[name][i] = e
BY DEF Logs!LinesOf, Logs!ToSet

\* What a rotation makes of the files: they are in order as before, and what it deletes is older
\* than what it leaves.
Rotates(fs, gs, cur) ==
  /\ ~Logs!RotationFails(fs, cur + 1)
  /\ Turned(gs, Logs!Wrapped(cur + 1))
  /\ First(gs) => First(fs)
  /\ Logs!LinesOf(gs) \subseteq Logs!LinesOf(fs)
  /\ \A e \in Logs!LinesOf(fs) \ {0} : e \in Logs!LinesOf(gs) \/ Pushed(e, gs)

LEMMA RotationKeeps ==
  ASSUME NEW fs, NEW cur, Writing(fs, cur), WholeFile(fs[Logs!Log(cur)]),
         NEW gs, gs = Logs!RotateLogFile(fs, cur + 1)
  PROVE  Rotates(fs, gs, cur)
<1> DEFINE first == First(fs)
           w == Logs!Wrapped(cur + 1)
           after == StillFirst(cur, first)
           moved == Moved(cur, first)
           names == Names(cur, first)
           Src(name) == Source(name, cur, first)
<1>1. /\ cur \in 1..maxLogFiles /\ first \in BOOLEAN /\ (first => cur < maxLogFiles)
      /\ fs \in [names -> Seq(Nat)]
      /\ \A f, g \in names : Age(f, cur) < Age(g, cur) => Before(fs[f], fs[g])
  BY DEF Writing, Chain, First
<1>2. \A name \in names : WholeFile(fs[name])
  BY DEF Writing, Chain
<1>3. Logs!OldFiles(fs) = {Logs!Old(n) : n \in OldNumbers(cur, first)}
  BY <1>1, InNames DEF Logs!OldFiles, Logs!Log, Logs!Old
<1>4. Logs!Renamed(fs, cur + 1) = moved
  BY <1>1, LogConstants DEF Logs!Renamed, Moved, First
<1>5. /\ LogNumbers(w, after) \ {w} = LogNumbers(cur, first) \ moved
      /\ OldNumbers(w, after) = moved \cup OldLeft(cur, first)
      /\ moved \subseteq LogNumbers(cur, first)
      /\ OldLeft(cur, first) # {} => moved = {}
      /\ w \in 1..maxLogFiles /\ (after => w \in 2..(maxLogFiles - 1))
      /\ after \in BOOLEAN
  <2>1. after \in BOOLEAN
    BY <1>1 DEF StillFirst
  <2> HIDE DEF first, w, after
  <2> QED
    BY <1>1, <2>1, NextNumbers DEF w, after
<1>6. ~Logs!RotationFails(fs, cur + 1) /\ Logs!Renamable(fs, cur + 1) = moved
  <2>1. \A n \in moved : Logs!Log(n) \in DOMAIN fs
    BY <1>1, <1>5, InNames
  <2> HIDE DEF moved
  <2> QED
    BY <1>4, <2>1 DEF Logs!RotationFails, Logs!Renamable
<1> DEFINE left == {Logs!Log(n) : n \in LogNumbers(cur, first) \ moved}
                     \cup {Logs!Old(n) : n \in OldLeft(cur, first)}
           old == {Logs!Old(n) : n \in moved}
<1>7. DOMAIN fs \ (Logs!Deleted(fs, cur + 1) \cup {Logs!Log(n) : n \in moved}) = left
  <2>1. Logs!Deleted(fs, cur + 1) = {Logs!Old(n) : n \in OldNumbers(cur, first) \ OldLeft(cur, first)}
    BY <1>1, <1>3, LogConstants DEF Logs!Deleted, OldLeft
  <2>2. OldLeft(cur, first) \subseteq OldNumbers(cur, first)
    BY DEF OldLeft
  <2> HIDE DEF moved, first
  <2> QED
    BY <1>1, <2>1, <2>2 DEF Names, Logs!Log, Logs!Old
<1>8. /\ DOMAIN gs = old \cup left
      /\ \A name \in DOMAIN gs : gs[name] = fs[IF name \in old THEN Logs!Log(name[2]) ELSE name]
  <2> HIDE DEF old, left, moved
  <2>1. gs = Logs!Rotated(fs, Logs!Deleted(fs, cur + 1), moved)
    BY <1>6 DEF Logs!RotateLogFile
  <2>2. gs = [name \in old \cup left |-> IF name \in old THEN fs[Logs!Log(name[2])] ELSE fs[name]]
    BY <2>1, <1>7 DEF Logs!Rotated, old
  <2> QED
    BY <2>2
<1>9. DOMAIN gs = Names(w, after) \ {Logs!Log(w)}
  <2> HIDE DEF moved, first, w, after
  <2>1. Names(w, after) \ {Logs!Log(w)}
          = {Logs!Log(n) : n \in LogNumbers(w, after) \ {w}} \cup {Logs!Old(n) : n \in OldNumbers(w, after)}
    BY DEF Names, Logs!Log, Logs!Old
  <2>2. DOMAIN gs = {Logs!Log(n) : n \in LogNumbers(w, after) \ {w}} \cup (old \cup {Logs!Old(n) : n \in OldLeft(cur, first)})
    BY <1>5, <1>8
  <2>3. old \cup {Logs!Old(n) : n \in OldLeft(cur, first)} = {Logs!Old(n) : n \in OldNumbers(w, after)}
    BY <1>5
  <2> QED
    BY <2>1, <2>2, <2>3
<1>10. \A name \in DOMAIN gs : Src(name) \in names /\ gs[name] = fs[Src(name)]
  <2> SUFFICES ASSUME NEW name \in DOMAIN gs PROVE Src(name) \in names /\ gs[name] = fs[Src(name)]
    OBVIOUS
  <2>1. CASE name \in old
    <3>1. PICK n \in moved : name = Logs!Old(n)
      BY <2>1
    <3>2. Src(name) = Logs!Log(n)
      BY <3>1 DEF Source, Logs!Old
    <3>3. gs[name] = fs[Logs!Log(n)]
      BY <1>8, <2>1, <3>1 DEF Logs!Old
    <3> QED
      BY <1>1, <1>5, <3>1, <3>2, <3>3, InNames
  <2>2. CASE name \notin old
    <3>1. name \in left /\ gs[name] = fs[name]
      BY <1>8, <2>2
    <3>2. Src(name) = name /\ name \in names
      <4>1. CASE \E n \in LogNumbers(cur, first) \ moved : name = Logs!Log(n)
        BY <1>1, <4>1, InNames DEF Source, Logs!Log
      <4>2. CASE \E n \in OldLeft(cur, first) : name = Logs!Old(n)
        <5>1. PICK n \in OldLeft(cur, first) : name = Logs!Old(n)
          BY <4>2
        <5>2. n \in OldNumbers(cur, first) /\ n \notin moved
          BY <1>5, <5>1 DEF OldLeft
        <5> QED
          BY <1>1, <5>1, <5>2, InNames DEF Source, Logs!Old
      <4> QED
        BY <3>1, <4>1, <4>2
    <3> QED
      BY <3>1, <3>2
  <2> QED
    BY <2>1, <2>2
<1>11. \A f, g \in DOMAIN gs : Age(f, w) < Age(g, w) => Age(Src(f), cur) < Age(Src(g), cur)
  <2>1. PICK shift \in Int :
          /\ \A n \in moved : Age(Logs!Old(n), w) = Age(Logs!Log(n), cur) + shift
          /\ \A n \in OldLeft(cur, first) : Age(Logs!Old(n), w) = Age(Logs!Old(n), cur) + shift
          /\ \A n \in LogNumbers(cur, first) \ moved :
               Age(Logs!Log(n), w) = Age(Logs!Log(n), cur) + shift
    BY <1>1, NextAges
  <2>2. \A name \in DOMAIN gs : Age(name, w) = Age(Src(name), cur) + shift
    <3> SUFFICES ASSUME NEW name \in DOMAIN gs PROVE Age(name, w) = Age(Src(name), cur) + shift
      OBVIOUS
    <3>1. CASE \E n \in moved : name = Logs!Old(n)
      BY <2>1, <3>1 DEF Source, Logs!Old
    <3>2. CASE \E n \in OldLeft(cur, first) : name = Logs!Old(n)
      BY <1>5, <2>1, <3>2 DEF Source, Logs!Old
    <3>3. CASE \E n \in LogNumbers(cur, first) \ moved : name = Logs!Log(n)
      BY <2>1, <3>3 DEF Source, Logs!Log
    <3> QED
      BY <1>8, <3>1, <3>2, <3>3
  <2>3. \A name \in DOMAIN gs : Age(Src(name), cur) \in Int
    BY <1>1, <1>10, Ages
  <2> HIDE DEF Src, w
  <2> QED
    BY <2>2, <2>3
<1>12. Turned(gs, w) /\ (First(gs) => first)
  <2>1. First(gs) = after
    BY <1>5, <1>9, FirstNames
  <2>2. gs \in [DOMAIN gs -> Seq(Nat)]
    <3>1. gs = [name \in DOMAIN gs |-> gs[name]]
      BY DEF Logs!RotateLogFile, Logs!Rotated
    <3>2. \A name \in DOMAIN gs : gs[name] \in Seq(Nat)
      BY <1>1, <1>10
    <3> QED
      BY <3>1, <3>2
  <2>3. \A name \in DOMAIN gs : WholeFile(gs[name])
    BY <1>2, <1>10
  <2>4. \A f, g \in DOMAIN gs : Age(f, w) < Age(g, w) => Before(gs[f], gs[g])
    <3> HIDE DEF Src, w, names
    <3> QED
      BY <1>1, <1>10, <1>11
  <2>5. Chain(gs, w, DOMAIN gs)
    BY <2>2, <2>3, <2>4 DEF Chain
  <2>6. after => first
    BY DEF StillFirst
  <2> HIDE DEF w, after
  <2> QED
    BY <1>5, <1>9, <2>1, <2>5, <2>6 DEF Turned
<1>13. Logs!LinesOf(gs) \subseteq Logs!LinesOf(fs)
  BY <1>1, <1>10, InLines
<1>14. ASSUME NEW e \in Logs!LinesOf(fs) \ {0}
       PROVE  e \in Logs!LinesOf(gs) \/ Pushed(e, gs)
  <2>1. PICK f \in names : \E i \in DOMAIN fs[f] : fs[f][i] = e
    BY <1>1, <1>14, InLines
  <2>2. PICK i \in DOMAIN fs[f] : fs[f][i] = e
    BY <2>1
  <2>3. ASSUME NEW name \in DOMAIN gs, Src(name) = f
        PROVE  e \in Logs!LinesOf(gs)
    BY <1>10, <2>2, <2>3, InLines
  <2>4. CASE \E n \in LogNumbers(cur, first) : f = Logs!Log(n)
    <3>1. PICK n \in LogNumbers(cur, first) : f = Logs!Log(n)
      BY <2>4
    <3>2. CASE n \in moved
      <4>1. Logs!Old(n) \in DOMAIN gs /\ Src(Logs!Old(n)) = f
        BY <1>8, <3>1, <3>2 DEF Source, Logs!Old
      <4> QED
        BY <2>3, <4>1
    <3>3. CASE n \notin moved
      <4>1. f \in DOMAIN gs /\ Src(f) = f
        BY <1>8, <3>1, <3>3 DEF Source, Logs!Log
      <4> QED
        BY <2>3, <4>1
    <3> QED
      BY <3>2, <3>3
  <2>5. CASE \E n \in OldNumbers(cur, first) : f = Logs!Old(n)
    <3>1. PICK n \in OldNumbers(cur, first) : f = Logs!Old(n)
      BY <2>5
    <3>2. CASE n \in OldLeft(cur, first)
      <4>1. f \in DOMAIN gs /\ Src(f) = f
        BY <1>5, <1>8, <3>1, <3>2 DEF Source, Logs!Old
      <4> QED
        BY <2>3, <4>1
    <3>3. CASE n \notin OldLeft(cur, first)
      <4>1. cur + 1 \in {Logs!Half, maxLogFiles} /\ OldLeft(cur, first) = {}
        BY <3>1, <3>3 DEF OldLeft
      <4>2. /\ ~first
            /\ \A k \in LogNumbers(cur, first) : Age(f, cur) < Age(Logs!Log(k), cur)
        BY <1>1, <3>1, <4>1, OlderDeleted
      <4>3. \A name \in DOMAIN gs : \E k \in LogNumbers(cur, first) : Src(name) = Logs!Log(k)
        <5> SUFFICES ASSUME NEW name \in DOMAIN gs
                     PROVE  \E k \in LogNumbers(cur, first) : Src(name) = Logs!Log(k)
          OBVIOUS
        <5>1. CASE \E k \in moved : name = Logs!Old(k)
          BY <1>5, <5>1 DEF Source, Logs!Old
        <5>2. CASE \E k \in LogNumbers(cur, first) \ moved : name = Logs!Log(k)
          BY <5>2 DEF Source, Logs!Log
        <5> QED
          BY <1>8, <4>1, <5>1, <5>2
      <4>4. ASSUME NEW line \in Logs!LinesOf(gs), line # 0
            PROVE  e < line
        <5>1. PICK name \in DOMAIN gs : \E j \in DOMAIN gs[name] : gs[name][j] = line
          BY InLines
        <5>2. Before(fs[f], gs[name])
          BY <1>1, <1>10, <4>2, <4>3
        <5> QED
          BY <1>14, <2>2, <4>4, <5>1, <5>2 DEF Before
      <4> QED
        BY <1>12, <4>2, <4>4 DEF Pushed
    <3> QED
      BY <3>2, <3>3
  <2> QED
    BY <1>1, <2>4, <2>5, InNames
<1> QED
  BY <1>6, <1>12, <1>13, <1>14 DEF Rotates

\* Files are opened, written and rotated as files.
LEMMA RotatedTyped ==
  ASSUME NEW fs, FilesTyped(fs), NEW unlinked,
         NEW renamed, \A n \in renamed : n \in 1..maxLogFiles /\ Logs!Log(n) \in DOMAIN fs
  PROVE  FilesTyped(Logs!Rotated(fs, unlinked, renamed))
<1> DEFINE gs == Logs!Rotated(fs, unlinked, renamed)
           old == {Logs!Old(n) : n \in renamed}
           left == DOMAIN fs \ (unlinked \cup {Logs!Log(n) : n \in renamed})
<1>1. gs = [name \in old \cup left |-> IF name \in old THEN fs[Logs!Log(name[2])] ELSE fs[name]]
  BY DEF Logs!Rotated
<1>2. \A name \in old : name \in AllNames /\ Logs!Log(name[2]) \in DOMAIN fs
  BY DEF AllNames, Logs!Old, Logs!Log
<1>3. \A name \in left : name \in AllNames /\ name \in DOMAIN fs
  BY DEF FilesTyped
<1> HIDE DEF gs, old, left
<1>4. gs \in [old \cup left -> Seq(Nat)]
  BY <1>1, <1>2, <1>3 DEF FilesTyped
<1> QED
  BY <1>2, <1>3, <1>4 DEF FilesTyped, gs

LEMMA RenamableNumbers ==
  ASSUME NEW fs, NEW counter
  PROVE  \A n \in Logs!Renamable(fs, counter) : n \in 1..maxLogFiles /\ Logs!Log(n) \in DOMAIN fs
BY LogConstants DEF Logs!Renamable, Logs!Renamed

LEMMA RotationTyped ==
  ASSUME NEW fs, FilesTyped(fs), NEW counter
  PROVE  FilesTyped(Logs!RotateLogFile(fs, counter))
BY RotatedTyped, RenamableNumbers DEF Logs!RotateLogFile

LEMMA OpenedTyped ==
  ASSUME NEW fs, FilesTyped(fs), NEW n \in 1..maxLogFiles
  PROVE  FilesTyped(Logs!Opened(fs, Logs!Log(n))) /\ Logs!Log(n) \in DOMAIN Logs!Opened(fs, Logs!Log(n))
<1>1. Logs!Log(n) \in AllNames
  BY DEF AllNames, Logs!Log
<1>2. <<>> \in Seq(Nat)
  OBVIOUS
<1> QED
  BY <1>1, <1>2 DEF FilesTyped, Logs!Opened

LEMMA WrittenTyped ==
  ASSUME NEW fs, FilesTyped(fs), NEW name \in DOMAIN fs \cup {Logs!Ended, Logs!None}, NEW line \in Nat
  PROVE  FilesTyped(Logs!Written(fs, name, line)) /\ DOMAIN Logs!Written(fs, name, line) = DOMAIN fs
BY DEF FilesTyped, Logs!Written

\* So are those that a crash leaves.
LEMMA CrashTyped ==
  ASSUME LogTypes, NEW fs \in Logs!CrashFiles
  PROVE  FilesTyped(fs)
<1>1. FilesTyped(files) /\ logCounter \in 1..(maxLogFiles + 1) /\ (at # "rotate" => logCounter <= maxLogFiles)
  BY DEF LogTypes, Logs!TypeOK
<1>2. CASE at = "rotate"
  <2>1. \E unlinked, renamed :
          fs = Logs!Rotated(files, unlinked, renamed) /\ renamed \subseteq Logs!Renamable(files, logCounter)
    BY <1>2 DEF Logs!CrashFiles
  <2> QED
    BY <1>1, <2>1, RotatedTyped, RenamableNumbers
<1>3. CASE at = "setActive"
  <2>1. fs = files \/ fs = Logs!Opened(files, Logs!Log(logCounter))
    BY <1>3 DEF Logs!CrashFiles
  <2>2. logCounter \in 1..maxLogFiles
    BY <1>1, <1>3, LogConstants
  <2> QED
    BY <1>1, <2>1, <2>2, OpenedTyped
<1>4. CASE at \notin {"rotate", "setActive"} /\ stream \in DOMAIN files
  <2>4. Logs!CrashFiles = {[files EXCEPT ![stream] = SubSeq(@, 1, k)] : k \in 0..Len(files[stream])}
    <3>1. at # "rotate" /\ at # "setActive" /\ stream \in DOMAIN files
      BY <1>4
    <3>2. (at \notin {"rotate", "setActive"}) = TRUE /\ (stream \in DOMAIN files) = TRUE
      BY <1>4
    <3> QED
      BY <3>1, <3>2, SMTT(30) DEF Logs!CrashFiles
  <2>1. PICK k \in 0..Len(files[stream]) : fs = [files EXCEPT ![stream] = SubSeq(@, 1, k)]
    BY <2>4
  <2>2. files[stream] \in Seq(Nat)
    BY <1>1, <1>4 DEF FilesTyped
  <2>3. SubSeq(files[stream], 1, k) \in Seq(Nat)
    BY <2>1, <2>2
  <2> QED
    BY <1>1, <2>1, <2>3 DEF FilesTyped
<1>5. CASE at \notin {"rotate", "setActive"} /\ stream \notin DOMAIN files
  BY <1>1, <1>5 DEF Logs!CrashFiles
<1> QED
  BY <1>2, <1>3, <1>4, <1>5

\* What init finds and does.
LEMMA ReopenTyped ==
  ASSUME LogTypes, NEW fs, FilesTyped(fs), Logs!Reopen(fs)
  PROVE  /\ FilesTyped(files')
         /\ activeLog' \in 1..maxLogFiles /\ logCounter' \in 1..maxLogFiles
         /\ stream' \in DOMAIN files' \cup {Logs!Ended, Logs!None}
         /\ totalNumberOfEntries' \in 0..maxNumberEntriesPerLog
<1>1. activeLog \in 1..maxLogFiles
  BY DEF LogTypes, Logs!TypeOK
<1>2. CASE ~Logs!ActiveFound(fs)
  <2>1. /\ logCounter' = activeLog /\ totalNumberOfEntries' = 0 /\ activeLog' = activeLog
        /\ \/ files' = Logs!Opened(fs, Logs!Log(activeLog)) /\ stream' = Logs!Log(activeLog)
           \/ files' = fs /\ stream' = Logs!None
    BY <1>2 DEF Logs!Reopen, Logs!ReopenFull
  <2> QED
    BY <1>1, <2>1, OpenedTyped, LogConstants
<1>3. CASE Logs!ActiveFound(fs) /\ ~Logs!ReopenFull(fs)
  <2>1. /\ logCounter' = activeLog /\ stream' = Logs!Log(activeLog) /\ files' = fs
        /\ totalNumberOfEntries' = Len(fs[Logs!Log(activeLog)]) /\ activeLog' = activeLog
    BY <1>3 DEF Logs!Reopen, Logs!ReopenFull
  <2>2. fs[Logs!Log(activeLog)] \in Seq(Nat)
    BY <1>3 DEF FilesTyped, Logs!ActiveFound
  <2>3. ~(Len(fs[Logs!Log(activeLog)]) >= maxNumberEntriesPerLog)
    BY <1>3 DEF Logs!ReopenFull
  <2> QED
    BY <1>1, <1>3, <2>1, <2>2, <2>3, LogConstants DEF Logs!ActiveFound
<1>4. CASE Logs!ReopenFull(fs)
  <2> DEFINE name == Logs!Log(activeLog)
             next == Logs!Wrapped(activeLog + 1)
             rotated == Logs!RotateLogFile(Logs!Written(fs, name, Logs!EndLine), activeLog + 1)
  <2>1. /\ logCounter' = next /\ totalNumberOfEntries' = 0
        /\ \/ files' = rotated /\ stream' = Logs!Ended /\ activeLog' = activeLog
           \/ files' = Logs!Opened(rotated, Logs!Log(next)) /\ stream' = Logs!Log(next) /\ activeLog' = next
    BY <1>4 DEF Logs!Reopen, Logs!ReopenFull
  <2>2. next \in 1..maxLogFiles
    BY <1>1, LogConstants DEF Logs!Wrapped
  <2>3. FilesTyped(rotated)
    <3>1. FilesTyped(Logs!Written(fs, name, Logs!EndLine))
      BY <1>4, WrittenTyped DEF Logs!ReopenFull, Logs!ActiveFound, Logs!EndLine
    <3> QED
      BY <3>1, RotationTyped
  <2> HIDE DEF rotated, next
  <2> QED
    BY <1>1, <2>1, <2>2, <2>3, OpenedTyped, LogConstants
<1> QED
  BY <1>2, <1>3, <1>4 DEF Logs!ReopenFull

LEMMA LogTypesInit == Logs!Init => LogTypes
<1> SUFFICES ASSUME Logs!Init PROVE LogTypes
  OBVIOUS
<1>1. /\ files = [name \in {Logs!Log(1)} |-> <<>>] /\ activeLog = 1 /\ logCounter = 1
      /\ stream = Logs!Log(1) /\ totalNumberOfEntries = 0 /\ writeQueue = <<>> /\ dataWriteIndex = 0
      /\ at = "idle" /\ position = 1 /\ entries = 0 /\ crashes = 0
  BY DEF Logs!Init
<1>2. <<>> \in Seq(Nat) /\ Len(<<>>) = 0
  OBVIOUS
<1>3. FilesTyped(files) /\ stream \in DOMAIN files
  BY <1>1, <1>2, LogConstants DEF FilesTyped, AllNames, Logs!Log
<1>4. MaxQueue \in Nat
  BY PartsAssumption DEF Logs!LogAssumption
<1>5. \A name \in DOMAIN files : name[1] \in {"log", "old-log"} /\ name[2] \in 1..maxLogFiles
  BY <1>3 DEF FilesTyped, AllNames
<1>6. Logs!TypeOK
  BY <1>1, <1>2, <1>3, <1>4, <1>5, LogConstants DEF Logs!TypeOK
<1> QED
  BY <1>1, <1>2, <1>3, <1>6, LogConstants DEF LogTypes

\* The types of the parts of a state are the types of the state.
LEMMA LogTypesNext ==
  ASSUME FilesTyped(files'), activeLog' \in 1..maxLogFiles,
         logCounter' \in 1..maxLogFiles \/ (logCounter' = maxLogFiles + 1 /\ at' = "rotate"),
         stream' \in DOMAIN files' \cup {Logs!Ended, Logs!None},
         totalNumberOfEntries' \in 0..maxNumberEntriesPerLog,
         at' \in {"idle", "loop", "append", "rotate", "setActive"},
         writeQueue' \in Seq(Nat), Len(writeQueue') <= MaxQueue, dataWriteIndex' \in Nat,
         entries' \in Nat, position' \in Nat \ {0}, crashes' \in Nat,
         at' \in {"rotate", "setActive", "append"} =>
           totalNumberOfEntries' = 0 /\ position' <= Len(writeQueue'),
         at' \in {"rotate", "setActive"} => stream' = Logs!Ended
  PROVE  LogTypes'
<1>1. \A name \in DOMAIN files' : name[1] \in {"log", "old-log"} /\ name[2] \in 1..maxLogFiles
  BY DEF FilesTyped, AllNames
<1>2. logCounter' \in 1..(maxLogFiles + 1) /\ (logCounter' <= maxLogFiles \/ at' = "rotate")
  BY LogConstants
<1>3. Logs!TypeOK'
  BY <1>1, <1>2 DEF Logs!TypeOK, Logs!Ended, Logs!None
<1> QED
  BY <1>2, <1>3 DEF LogTypes, FilesTyped, Logs!Ended

LEMMA LogTypesStep == LogTypes /\ [Logs!Next]_Logs!vars => LogTypes'
<1> SUFFICES ASSUME LogTypes, [Logs!Next]_Logs!vars PROVE LogTypes'
  OBVIOUS
<1> USE LogConstants
<1>1. /\ FilesTyped(files) /\ activeLog \in 1..maxLogFiles
      /\ logCounter \in 1..maxLogFiles \/ (logCounter = maxLogFiles + 1 /\ at = "rotate")
      /\ stream \in DOMAIN files \cup {Logs!Ended, Logs!None}
      /\ totalNumberOfEntries \in 0..maxNumberEntriesPerLog
      /\ at \in {"idle", "loop", "append", "rotate", "setActive"}
      /\ writeQueue \in Seq(Nat) /\ Len(writeQueue) <= MaxQueue /\ dataWriteIndex \in Nat
      /\ entries \in Nat /\ position \in Nat \ {0} /\ crashes \in Nat
      /\ at \in {"rotate", "setActive", "append"} =>
           totalNumberOfEntries = 0 /\ position <= Len(writeQueue)
      /\ at \in {"rotate", "setActive"} => stream = Logs!Ended
  BY DEF LogTypes, Logs!TypeOK
<1>2. MaxQueue \in Nat
  BY PartsAssumption DEF Logs!LogAssumption
<1>3. CASE UNCHANGED Logs!vars
  BY <1>1, <1>3, LogTypesNext DEF Logs!vars, Logs!state, Logs!loop
<1>4. CASE Logs!WriteToLog
  <2>1. /\ Len(writeQueue) < MaxQueue /\ entries' = entries + 1
        /\ writeQueue' = Append(writeQueue, entries + 1)
        /\ IF at = "idle" THEN position' = 1 /\ at' = "loop" ELSE position' = position /\ at' = at
        /\ UNCHANGED <<files, activeLog, logCounter, stream, totalNumberOfEntries>>
        /\ dataWriteIndex' = dataWriteIndex /\ crashes' = crashes
    BY <1>4 DEF Logs!WriteToLog, Logs!state
  <2>2. writeQueue' \in Seq(Nat) /\ Len(writeQueue') = Len(writeQueue) + 1
    BY <1>1, <2>1
  <2> QED
    BY <1>1, <1>2, <2>1, <2>2, LogTypesNext
<1>5. CASE Logs!AppendEntry
  <2>1. /\ at = "append" \/ (at = "loop" /\ position <= Len(writeQueue) /\ totalNumberOfEntries # maxNumberEntriesPerLog)
        /\ stream # Logs!None /\ files' = Logs!Written(files, stream, writeQueue[position])
        /\ dataWriteIndex' = dataWriteIndex + 1 /\ totalNumberOfEntries' = totalNumberOfEntries + 1
        /\ position' = position + 1 /\ at' = "loop"
        /\ UNCHANGED <<writeQueue, activeLog, logCounter, stream, entries, crashes>>
    BY <1>5 DEF Logs!AppendEntry, Logs!Left, Logs!Full
  <2>2. writeQueue[position] \in Nat
    BY <1>1, <2>1
  <2>3. FilesTyped(files') /\ DOMAIN files' = DOMAIN files
    BY <1>1, <2>1, <2>2, WrittenTyped
  <2> QED
    BY <1>1, <2>1, <2>3, LogTypesNext
<1>6. CASE Logs!SpliceQueue
  <2>1. /\ writeQueue' = SubSeq(writeQueue, dataWriteIndex + 1, Len(writeQueue))
        /\ dataWriteIndex' = 0 /\ position' = 1 /\ at' \in {"idle", "loop"}
        /\ UNCHANGED <<files, activeLog, logCounter, stream, totalNumberOfEntries>>
        /\ entries' = entries /\ crashes' = crashes /\ at = "loop"
    BY <1>6 DEF Logs!SpliceQueue, Logs!state
  <2>2. writeQueue' \in Seq(Nat) /\ Len(writeQueue') <= Len(writeQueue)
    BY <1>1, <2>1
  <2>3. Len(writeQueue') <= MaxQueue
    BY <1>1, <1>2, <2>2
  <2> QED
    BY <1>1, <2>1, <2>2, <2>3, LogTypesNext
<1>7. CASE Logs!EndFile
  <2>1. /\ at = "loop" /\ position <= Len(writeQueue)
        /\ files' = Logs!Written(files, stream, 0) /\ stream' = Logs!Ended
        /\ totalNumberOfEntries' = 0 /\ logCounter' = logCounter + 1 /\ at' = "rotate"
        /\ UNCHANGED <<activeLog, writeQueue, dataWriteIndex, position, entries, crashes>>
    BY <1>7 DEF Logs!EndFile, Logs!Left, Logs!EndLine
  <2>2. FilesTyped(files')
    BY <1>1, <2>1, WrittenTyped
  <2> QED
    BY <1>1, <2>1, <2>2, LogTypesNext
<1>8. CASE Logs!Rotate
  <2>1. /\ at = "rotate" /\ files' = Logs!RotateLogFile(files, logCounter)
        /\ IF Logs!RotationFails(files, logCounter)
           THEN position' = 1 /\ at' = "loop" /\ logCounter' = logCounter
           ELSE logCounter' = Logs!Wrapped(logCounter) /\ at' = "setActive" /\ position' = position
        /\ UNCHANGED <<activeLog, stream, totalNumberOfEntries, writeQueue, dataWriteIndex, entries, crashes>>
    BY <1>8 DEF Logs!Rotate, Logs!Again
  <2>2. FilesTyped(files')
    BY <1>1, <2>1, RotationTyped
  <2>3. logCounter' \in 1..maxLogFiles
    <3>1. CASE Logs!RotationFails(files, logCounter)
      <4>1. logCounter \in {Logs!Half, maxLogFiles}
        BY <3>1 DEF Logs!RotationFails, Logs!Renamed
      <4> QED
        BY <2>1, <3>1, <4>1
    <3>2. CASE ~Logs!RotationFails(files, logCounter)
      BY <1>1, <2>1, <3>2 DEF Logs!Wrapped
    <3> QED
      BY <3>1, <3>2
  <2> QED
    BY <1>1, <2>1, <2>2, <2>3, LogTypesNext
<1>9. CASE Logs!SetActiveLog
  <2>1. /\ at = "setActive" /\ files' = Logs!Opened(files, Logs!Log(logCounter))
        /\ stream' = Logs!Log(logCounter)
        /\ \/ activeLog' = logCounter /\ at' = "append" /\ position' = position
           \/ position' = 1 /\ at' = "loop" /\ activeLog' = activeLog
        /\ UNCHANGED <<logCounter, totalNumberOfEntries, writeQueue, dataWriteIndex, entries, crashes>>
    BY <1>9 DEF Logs!SetActiveLog, Logs!Again
  <2>2. FilesTyped(files') /\ stream' \in DOMAIN files'
    BY <1>1, <2>1, OpenedTyped
  <2> QED
    BY <1>1, <2>1, <2>2, LogTypesNext
<1>10. CASE Logs!Restart
  <2>1. /\ crashes' = crashes + 1 /\ writeQueue' = <<>> /\ dataWriteIndex' = 0 /\ at' = "idle"
        /\ position' = 1 /\ entries' = entries
    BY <1>10 DEF Logs!Restart
  <2>2. PICK fs \in Logs!CrashFiles : Logs!Reopen(fs)
    BY <1>10 DEF Logs!Restart
  <2>3. FilesTyped(fs)
    BY CrashTyped
  <2>4. writeQueue' \in Seq(Nat) /\ Len(writeQueue') = 0
    BY <2>1
  <2> QED
    BY <1>1, <1>2, <2>1, <2>2, <2>3, <2>4, ReopenTyped, LogTypesNext
<1> QED
  BY <1>3, <1>4, <1>5, <1>6, <1>7, <1>8, <1>9, <1>10 DEF Logs!Next

\* What writing the end of a full file makes of the files.
Ends(fs, hs, name) ==
  /\ DOMAIN hs = DOMAIN fs /\ WholeFile(hs[name])
  /\ \A cur, names : Chain(fs, cur, names) => Chain(hs, cur, names)
  /\ \A other \in DOMAIN fs \ {name} : hs[other] = fs[other]
  /\ Logs!LinesOf(fs) \subseteq Logs!LinesOf(hs) /\ Logs!LinesOf(hs) \subseteq Logs!LinesOf(fs) \cup {0}

LEMMA EndKeeps ==
  ASSUME NEW fs, NEW name \in DOMAIN fs, fs \in [DOMAIN fs -> Seq(Nat)],
         Len(fs[name]) >= maxNumberEntriesPerLog, PartOfFile(fs[name]) \/ WholeFile(fs[name]),
         name \notin {Logs!Ended, Logs!None}
  PROVE  Ends(fs, Logs!Written(fs, name, 0), name)
<1> DEFINE hs == Logs!Written(fs, name, 0)
<1>1. hs = [fs EXCEPT ![name] = Append(fs[name], 0)]
  BY DEF Logs!Written
<1> HIDE DEF hs
<1>2. /\ fs[name] \in Seq(Nat) /\ hs[name] = Append(fs[name], 0) /\ DOMAIN hs = DOMAIN fs
      /\ \A other \in DOMAIN fs \ {name} : hs[other] = fs[other]
  BY <1>1
<1>3. /\ hs[name] \in Seq(Nat) /\ Len(hs[name]) = Len(fs[name]) + 1
      /\ \A i \in DOMAIN fs[name] : hs[name][i] = fs[name][i]
      /\ hs[name][Len(fs[name]) + 1] = 0
  BY <1>2
<1>4. \A i \in DOMAIN hs[name] : i \in DOMAIN fs[name] \/ i = Len(fs[name]) + 1
  BY <1>2, <1>3
<1>5. WholeFile(hs[name])
  <2>1. CASE PartOfFile(fs[name])
    BY <1>2, <1>3, <1>4, <2>1, LogConstants DEF PartOfFile, WholeFile, Ascends
  <2>2. CASE WholeFile(fs[name])
    BY <1>2, <1>3, <1>4, <2>2, LogConstants DEF WholeFile, Ascends
  <2> QED
    BY <2>1, <2>2
<1>6. \A f \in DOMAIN fs : \A i \in DOMAIN hs[f] : hs[f][i] # 0 => i \in DOMAIN fs[f] /\ hs[f][i] = fs[f][i]
  BY <1>2, <1>3, <1>4
<1>7. ASSUME NEW cur, NEW names, Chain(fs, cur, names)
      PROVE  Chain(hs, cur, names)
  <2>1. hs \in [names -> Seq(Nat)] /\ DOMAIN fs = names
    BY <1>1, <1>3, <1>7 DEF Chain
  <2>2. \A f \in names \ {Logs!Log(cur)} : WholeFile(hs[f])
    BY <1>2, <1>5, <1>7, <2>1 DEF Chain
  <2>3. ASSUME NEW f \in names, NEW g \in names, Age(f, cur) < Age(g, cur) PROVE Before(hs[f], hs[g])
    <3>1. Before(fs[f], fs[g])
      BY <1>7, <2>3 DEF Chain
    <3> QED
      BY <1>6, <2>1, <3>1 DEF Before
  <2> QED
    BY <2>1, <2>2, <2>3 DEF Chain
<1>8. /\ Logs!LinesOf(fs) \subseteq Logs!LinesOf(hs)
      /\ Logs!LinesOf(hs) \subseteq Logs!LinesOf(fs) \cup {0}
  <2>1. ASSUME NEW f \in DOMAIN fs, NEW i \in DOMAIN fs[f] PROVE i \in DOMAIN hs[f] /\ hs[f][i] = fs[f][i]
    <3>1. DOMAIN fs[name] \subseteq DOMAIN hs[name]
      BY <1>2, <1>3
    <3> QED
      BY <1>2, <1>3, <2>1, <3>1
  <2>2. Logs!LinesOf(fs) \subseteq Logs!LinesOf(hs)
    BY <1>2, <2>1, InLines
  <2>3. Logs!LinesOf(hs) \subseteq Logs!LinesOf(fs) \cup {0}
    BY <1>2, <1>6, InLines
  <2> QED
    BY <2>2, <2>3
<1> QED
  BY <1>2, <1>5, <1>7, <1>8 DEF Ends, hs

\* What opening the next file makes of the files.
Opens(gs, hs, cur) ==
  /\ Writing(hs, cur) /\ hs[Logs!Log(cur)] = <<>> /\ First(hs) = First(gs)
  /\ Logs!LinesOf(hs) = Logs!LinesOf(gs)

LEMMA OpenKeeps ==
  ASSUME NEW gs, NEW cur, Turned(gs, cur)
  PROVE  Opens(gs, Logs!Opened(gs, Logs!Log(cur)), cur)
<1> DEFINE name == Logs!Log(cur)
           hs == Logs!Opened(gs, name)
           first == First(gs)
<1>1. /\ cur \in 1..maxLogFiles /\ (first => cur < maxLogFiles) /\ first \in BOOLEAN
      /\ gs \in [Names(cur, first) \ {name} -> Seq(Nat)]
      /\ \A f \in Names(cur, first) \ {name} : WholeFile(gs[f])
      /\ \A f, g \in Names(cur, first) \ {name} : Age(f, cur) < Age(g, cur) => Before(gs[f], gs[g])
  BY LogConstants DEF Turned, Chain, First
<1>2. name \in Names(cur, first)
  BY <1>1, Ages
<1>3. /\ hs = [n \in Names(cur, first) |-> IF n \in DOMAIN gs THEN gs[n] ELSE <<>>]
      /\ DOMAIN gs = Names(cur, first) \ {name}
  <2>1. DOMAIN gs = Names(cur, first) \ {name} /\ DOMAIN gs \cup {name} = Names(cur, first)
    BY <1>1, <1>2
  <2> QED
    BY <2>1 DEF Logs!Opened
<1> HIDE DEF hs
<1>4. /\ DOMAIN hs = Names(cur, first) /\ hs[name] = <<>>
      /\ \A n \in Names(cur, first) \ {name} : hs[n] = gs[n]
  BY <1>2, <1>3
<1>5. First(hs) = first
  BY <1>1, <1>4, FirstNames
<1>6. hs \in [Names(cur, first) -> Seq(Nat)]
  <2>1. <<>> \in Seq(Nat)
    OBVIOUS
  <2> QED
    BY <1>1, <1>3, <2>1
<1>7. \A i : i \notin DOMAIN hs[name]
  BY <1>4
<1>8. Chain(hs, cur, Names(cur, first))
  <2> HIDE DEF first, name
  <2>1. ASSUME NEW f \in Names(cur, first), NEW g \in Names(cur, first), Age(f, cur) < Age(g, cur)
        PROVE  Before(hs[f], hs[g])
    <3>1. CASE f = name \/ g = name
      BY <1>7, <3>1 DEF Before
    <3>2. CASE f # name /\ g # name
      BY <1>1, <1>4, <2>1, <3>2
    <3> QED
      BY <3>1, <3>2
  <2> QED
    BY <1>1, <1>4, <1>6, <2>1 DEF Chain, name
<1>9. Logs!LinesOf(hs) = Logs!LinesOf(gs)
  <2> HIDE DEF name, first
  <2>1. \A e : e \in Logs!LinesOf(hs) <=> e \in Logs!LinesOf(gs)
    <3>1. \A e : e \in Logs!LinesOf(hs) <=> \E n \in DOMAIN gs : \E i \in DOMAIN hs[n] : hs[n][i] = e
      BY <1>2, <1>3, <1>4, <1>7, InLines
    <3>2. \A n \in DOMAIN gs : hs[n] = gs[n]
      BY <1>3, <1>4
    <3>3. \A e : e \in Logs!LinesOf(gs) <=> \E n \in DOMAIN gs : \E i \in DOMAIN gs[n] : gs[n][i] = e
      BY InLines
    <3> QED
      BY <3>1, <3>2, <3>3
  <2> QED
    BY <2>1 DEF Logs!LinesOf
<1> QED
  BY <1>1, <1>4, <1>5, <1>8, <1>9 DEF Opens, Writing, hs

\* Between the halves no file is renamed or deleted.
LEMMA NoRotation ==
  ASSUME NEW fs, FilesTyped(fs), NEW counter, counter \notin {Logs!Half, maxLogFiles}
  PROVE  ~Logs!RotationFails(fs, counter) /\ Logs!RotateLogFile(fs, counter) = fs
<1>1. Logs!Renamed(fs, counter) = {} /\ Logs!Deleted(fs, counter) = {}
  BY DEF Logs!Renamed, Logs!Deleted
<1>2. Logs!Renamable(fs, counter) = {} /\ ~Logs!RotationFails(fs, counter)
  BY <1>1 DEF Logs!Renamable, Logs!RotationFails
<1>3. Logs!Rotated(fs, {}, {}) = [name \in DOMAIN fs |-> fs[name]]
  <2>1. DOMAIN fs \ ({} \cup {Logs!Log(n) : n \in {}}) = DOMAIN fs /\ {Logs!Old(n) : n \in {}} = {}
    OBVIOUS
  <2>2. {} \cup DOMAIN fs = DOMAIN fs
    OBVIOUS
  <2> QED
    BY <2>1, <2>2 DEF Logs!Rotated
<1> QED
  BY <1>1, <1>2, <1>3 DEF Logs!RotateLogFile, FilesTyped

\* A rotation that a crash cut short shows in the names that are there.
LEMMA CrashInRotation ==
  ASSUME FilesTyped(files), NEW unlinked, NEW renamed \in SUBSET Logs!Renamable(files, logCounter),
         DOMAIN Logs!Rotated(files, unlinked, renamed) = DOMAIN files
  PROVE  Logs!Rotated(files, unlinked, renamed) = files
<1> DEFINE fs == Logs!Rotated(files, unlinked, renamed)
           old == {Logs!Old(n) : n \in renamed}
           left == DOMAIN files \ (unlinked \cup {Logs!Log(n) : n \in renamed})
<1>1. fs = [name \in old \cup left |-> IF name \in old THEN files[Logs!Log(name[2])] ELSE files[name]]
  BY DEF Logs!Rotated
<1>2. renamed = {}
  <2> SUFFICES ASSUME NEW n \in renamed PROVE FALSE
    OBVIOUS
  <2>1. Logs!Log(n) \in DOMAIN files
    BY RenamableNumbers
  <2>2. Logs!Log(n) \notin left /\ Logs!Log(n) \notin old
    BY DEF Logs!Log, Logs!Old
  <2> HIDE DEF old, left
  <2>3. DOMAIN files = old \cup left
    BY <1>1
  <2> QED
    BY <2>1, <2>2, <2>3
<1>3. old = {}
  BY <1>2
<1> HIDE DEF fs, old, left
<1>4. fs = [name \in left |-> files[name]]
  BY <1>1, <1>3
<1>5. DOMAIN files = left
  BY <1>4 DEF fs
<1> QED
  BY <1>4, <1>5 DEF FilesTyped, fs

\* What a restart leaves of the files it finds.
Reopened(fs) ==
  /\ Writing(files', activeLog') /\ PartOfFile(files'[Logs!Log(activeLog')])
  /\ totalNumberOfEntries' = Len(files'[Logs!Log(activeLog')])
  /\ stream' = Logs!Log(activeLog') /\ logCounter' = activeLog'
  /\ First(files') => First(fs)
  /\ Logs!LinesOf(files') \subseteq Logs!LinesOf(fs) \cup {0}
  /\ \A e \in Logs!LinesOf(fs) \ {0} : e \in Logs!LinesOf(files') \/ Pushed(e, files')

LEMMA SameNames ==
  ASSUME NEW fs, NEW gs, DOMAIN fs = DOMAIN gs
  PROVE  First(fs) = First(gs)
BY DEF First, Logs!OldFiles

LEMMA EmptyFile == PartOfFile(<<>>) /\ Len(<<>>) = 0
BY LogConstants DEF PartOfFile, Ascends

\* init, when the active file is there and ended or not.
LEMMA ReopenActive ==
  ASSUME FilesTyped(files), NEW fs, FilesTyped(fs), Writing(fs, activeLog),
         PartOfFile(fs[Logs!Log(activeLog)]) \/ WholeFile(fs[Logs!Log(activeLog)]),
         Logs!Reopen(fs), ~Logs!ReopenFails(fs)
  PROVE  Reopened(fs)
<1> DEFINE name == Logs!Log(activeLog)
<1>1. name \in DOMAIN fs /\ Logs!ActiveFound(fs) /\ fs[name] \in Seq(Nat) /\ activeLog \in 1..maxLogFiles
  <2>1. name \in DOMAIN fs /\ activeLog \in 1..maxLogFiles
    BY Ages DEF Writing, Chain, First
  <2> QED
    BY <2>1 DEF FilesTyped, Logs!ActiveFound
<1>2. CASE ~(Len(fs[name]) >= maxNumberEntriesPerLog)
  <2>1. ~Logs!ReopenFull(fs)
    BY <1>2 DEF Logs!ReopenFull
  <2>2. /\ logCounter' = activeLog /\ stream' = name /\ totalNumberOfEntries' = Len(fs[name])
        /\ files' = fs /\ activeLog' = activeLog
    BY <1>1, <2>1 DEF Logs!Reopen
  <2>3. PartOfFile(fs[name])
    BY <1>1, <1>2, LogConstants DEF WholeFile
  <2> QED
    BY <2>2, <2>3 DEF Reopened
<1>3. CASE Len(fs[name]) >= maxNumberEntriesPerLog
  <2> DEFINE next == Logs!Wrapped(activeLog + 1)
             hs == Logs!Written(fs, name, 0)
             gs == Logs!RotateLogFile(hs, activeLog + 1)
  <2>1. Logs!ReopenFull(fs)
    BY <1>1, <1>3 DEF Logs!ReopenFull
  <2>2. /\ logCounter' = next /\ totalNumberOfEntries' = 0
        /\ files' = Logs!Opened(gs, Logs!Log(next)) /\ stream' = Logs!Log(next) /\ activeLog' = next
    BY <1>1, <2>1 DEF Logs!Reopen, Logs!EndLine
  <2>3. Ends(fs, hs, name)
    BY <1>1, <1>3, EndKeeps DEF FilesTyped, Logs!Log, Logs!Ended, Logs!None
  <2> HIDE DEF hs
  <2>4. First(hs) = First(fs)
    BY <2>3, SameNames DEF Ends
  <2>5. Writing(hs, activeLog) /\ WholeFile(hs[name])
    BY <2>3, <2>4 DEF Ends, Writing
  <2>6. Rotates(hs, gs, activeLog)
    BY <2>5, RotationKeeps
  <2> HIDE DEF gs
  <2>7. Opens(gs, files', next)
    BY <2>2, <2>6, OpenKeeps DEF Rotates
  <2> HIDE DEF next
  <2>8. Writing(files', activeLog') /\ files'[Logs!Log(activeLog')] = <<>>
    BY <2>2, <2>7 DEF Opens
  <2>9. First(files') => First(fs)
    BY <2>4, <2>6, <2>7 DEF Opens, Rotates
  <2>10. Logs!LinesOf(files') \subseteq Logs!LinesOf(fs) \cup {0}
    BY <2>3, <2>6, <2>7 DEF Opens, Rotates, Ends
  <2>11. \A e \in Logs!LinesOf(fs) \ {0} : e \in Logs!LinesOf(files') \/ Pushed(e, files')
    BY <2>3, <2>6, <2>7 DEF Opens, Rotates, Ends, Pushed
  <2> QED
    BY <2>2, <2>8, <2>9, <2>10, <2>11, EmptyFile DEF Reopened
<1> QED
  BY <1>2, <1>3

\* init, when the archiver crashed after a rotation between the halves: it ends the last file
\* again and opens the next.
LEMMA ReopenTurned ==
  ASSUME FilesTyped(files), NEW cur, Turned(files, cur), activeLog \in 1..maxLogFiles,
         cur = Logs!Wrapped(activeLog + 1), cur \notin {Logs!Half, maxLogFiles},
         NEW fs, fs = files \/ fs = Logs!Opened(files, Logs!Log(cur)), FilesTyped(fs),
         Logs!Reopen(fs), ~Logs!ReopenFails(fs)
  PROVE  Reopened(fs) /\ First(fs) = First(files) /\ Logs!LinesOf(fs) = Logs!LinesOf(files)
<1> DEFINE name == Logs!Log(activeLog)
           first == First(files)
           names == Names(cur, first)
           hs == Logs!Written(fs, name, 0)
<1>1. cur \in 1..maxLogFiles /\ first \in BOOLEAN /\ (first => cur \in 2..(maxLogFiles - 1))
  BY DEF Turned, First
<1>2. activeLog + 1 \notin {Logs!Half, maxLogFiles} /\ activeLog # cur
  BY <1>1, LogConstants DEF Logs!Wrapped
<1>3. name \in names \ {Logs!Log(cur)}
  <2>1. activeLog \in LogNumbers(cur, first)
    <3> HIDE DEF first
    <3> QED
      BY <1>1, LogConstants DEF Logs!Wrapped, LogNumbers
  <2>2. name # Logs!Log(cur)
    BY <1>2 DEF Logs!Log
  <2> QED
    BY <1>1, <2>1, <2>2, InNames
<1>4. Opens(files, Logs!Opened(files, Logs!Log(cur)), cur)
  BY OpenKeeps
<1>5. First(fs) = first /\ Logs!LinesOf(fs) = Logs!LinesOf(files)
  BY <1>4 DEF Opens
<1>6. /\ Chain(fs, cur, names \ {Logs!Log(cur)}) \/ (Chain(fs, cur, names) /\ fs[Logs!Log(cur)] = <<>>)
      /\ name \in DOMAIN fs /\ fs[name] \in Seq(Nat) /\ WholeFile(fs[name])
  <2>1. CASE fs = files
    BY <1>3, <2>1 DEF Turned, Chain
  <2>2. CASE fs = Logs!Opened(files, Logs!Log(cur))
    BY <1>3, <1>4, <2>2 DEF Opens, Writing, Chain
  <2> QED
    BY <2>1, <2>2
<1>7. Len(fs[name]) >= maxNumberEntriesPerLog
  BY <1>6, LogConstants DEF WholeFile
<1>8. Ends(fs, hs, name)
  BY <1>6, <1>7, EndKeeps DEF FilesTyped, Logs!Log, Logs!Ended, Logs!None
<1>9. FilesTyped(hs)
  BY <1>6, WrittenTyped
<1>10. Logs!RotateLogFile(hs, activeLog + 1) = hs
  BY <1>2, <1>9, NoRotation
<1>11. /\ logCounter' = cur /\ totalNumberOfEntries' = 0
       /\ files' = Logs!Opened(hs, Logs!Log(cur)) /\ stream' = Logs!Log(cur) /\ activeLog' = cur
  <2>1. Logs!ReopenFull(fs) /\ Logs!ActiveFound(fs)
    BY <1>6, <1>7 DEF Logs!ReopenFull, Logs!ActiveFound
  <2> QED
    BY <1>10, <2>1 DEF Logs!Reopen, Logs!EndLine
<1> HIDE DEF hs
<1>12. First(hs) = first
  BY <1>5, <1>8, SameNames DEF Ends
<1>13. Opens(hs, files', cur)
  <2>1. CASE Chain(fs, cur, names \ {Logs!Log(cur)})
    <3>1. Turned(hs, cur)
      BY <1>1, <1>8, <1>12, <2>1 DEF Ends, Turned
    <3> QED
      BY <1>11, <3>1, OpenKeeps
  <2>2. CASE Chain(fs, cur, names) /\ fs[Logs!Log(cur)] = <<>>
    <3>1. Logs!Log(cur) \in DOMAIN fs
      BY <1>1, <2>2, Ages, LogConstants DEF Chain
    <3>2. hs[Logs!Log(cur)] = <<>> /\ Logs!Log(cur) \in DOMAIN hs
      BY <1>3, <1>8, <2>2, <3>1 DEF Ends
    <3>3. files' = hs
      BY <1>9, <1>11, <3>2 DEF Logs!Opened, FilesTyped
    <3>4. Writing(hs, cur)
      BY <1>1, <1>8, <1>12, <2>2, LogConstants DEF Ends, Writing
    <3> QED
      BY <3>2, <3>3, <3>4 DEF Opens
  <2> QED
    BY <1>6, <2>1, <2>2
<1>14. Writing(files', activeLog') /\ files'[Logs!Log(activeLog')] = <<>>
  BY <1>11, <1>13 DEF Opens
<1>15. First(files') => First(fs)
  BY <1>5, <1>12, <1>13 DEF Opens
<1>16. /\ Logs!LinesOf(files') \subseteq Logs!LinesOf(fs) \cup {0}
       /\ Logs!LinesOf(fs) \subseteq Logs!LinesOf(files')
  BY <1>8, <1>13 DEF Opens, Ends
<1>17. Reopened(fs)
  BY <1>11, <1>14, <1>15, <1>16, EmptyFile DEF Reopened
<1> QED
  BY <1>5, <1>17

LEMMA FewerLines ==
  ASSUME NEW fs, NEW gs, DOMAIN fs = DOMAIN gs,
         \A f \in DOMAIN gs : \A i \in DOMAIN fs[f] : i \in DOMAIN gs[f] /\ fs[f][i] = gs[f][i]
  PROVE  Logs!LinesOf(fs) \subseteq Logs!LinesOf(gs)
<1> SUFFICES ASSUME NEW e \in Logs!LinesOf(fs) PROVE e \in Logs!LinesOf(gs)
  OBVIOUS
<1>1. PICK f \in DOMAIN fs : \E i \in DOMAIN fs[f] : fs[f][i] = e
  BY InLines
<1> QED
  BY <1>1, InLines

\* A crash while entries are written leaves the active file up to one of its lines.
CutOff(fs, k) == fs = [files EXCEPT ![Logs!Log(activeLog)] = SubSeq(@, 1, k)]

LEMMA CrashKept ==
  ASSUME FilesTyped(files), Writing(files, activeLog), PartOfFile(files[Logs!Log(activeLog)]),
         NEW k \in 0..Len(files[Logs!Log(activeLog)]),
         NEW fs, CutOff(fs, k)
  PROVE  /\ Writing(fs, activeLog) /\ PartOfFile(fs[Logs!Log(activeLog)])
         /\ First(fs) = First(files) /\ Logs!LinesOf(fs) \subseteq Logs!LinesOf(files)
<1> DEFINE name == Logs!Log(activeLog)
           first == First(files)
           names == Names(activeLog, first)
<1>1. activeLog \in 1..maxLogFiles /\ first \in BOOLEAN /\ (first => activeLog < maxLogFiles)
  BY DEF Writing, First
<1>2. name \in names /\ files \in [names -> Seq(Nat)]
  BY <1>1, Ages DEF Writing, Chain
<1>3. fs = [files EXCEPT ![name] = SubSeq(files[name], 1, k)]
  BY DEF CutOff
<1> HIDE DEF name, names, first
<1>4. /\ SubSeq(files[name], 1, k) \in Seq(Nat) /\ Len(SubSeq(files[name], 1, k)) = k
      /\ \A i \in 1..k : SubSeq(files[name], 1, k)[i] = files[name][i]
      /\ Len(files[name]) \in Nat /\ k \in Nat /\ k <= Len(files[name])
  BY <1>2 DEF name
<1>5. /\ fs \in [names -> Seq(Nat)] /\ Len(fs[name]) = k
      /\ \A i \in 1..k : fs[name][i] = files[name][i]
      /\ \A f \in names \ {name} : fs[f] = files[f]
  BY <1>2, <1>3, <1>4
<1>6. \A f \in names : \A i \in DOMAIN fs[f] : i \in DOMAIN files[f] /\ fs[f][i] = files[f][i]
  <2>1. \A i \in DOMAIN fs[name] : i \in DOMAIN files[name] /\ fs[name][i] = files[name][i]
    <3>1. DOMAIN fs[name] = 1..k /\ DOMAIN files[name] = 1..Len(files[name])
      BY <1>2, <1>5
    <3> QED
      BY <1>4, <1>5, <3>1
  <2> QED
    BY <1>5, <2>1
<1>7. PartOfFile(fs[name])
  <2>1. PartOfFile(files[name])
    BY DEF name
  <2>2. Len(fs[name]) <= maxNumberEntriesPerLog /\ Ascends(fs[name], Len(fs[name]))
    BY <1>4, <1>5, <2>1, LogConstants DEF PartOfFile, Ascends
  <2>3. \A i \in DOMAIN fs[name] : fs[name][i] # 0
    BY <1>2, <1>6, <2>1 DEF PartOfFile
  <2> QED
    BY <2>2, <2>3 DEF PartOfFile
<1>8. First(fs) = first
  BY <1>2, <1>5, SameNames DEF first
<1>9. Chain(fs, activeLog, names)
  <2>1. \A f \in names \ {name} : WholeFile(fs[f])
    BY <1>5 DEF Writing, Chain, name, names, first
  <2>2. ASSUME NEW f \in names, NEW g \in names, Age(f, activeLog) < Age(g, activeLog)
        PROVE  Before(fs[f], fs[g])
    <3>1. Before(files[f], files[g])
      BY <2>2 DEF Writing, Chain, names, first
    <3> QED
      BY <1>6, <3>1 DEF Before
  <2> QED
    BY <1>5, <2>1, <2>2 DEF Chain, name
<1>10. Logs!LinesOf(fs) \subseteq Logs!LinesOf(files)
  <2>1. DOMAIN fs = names /\ DOMAIN files = names
    BY <1>2, <1>5
  <2> QED
    BY <1>6, <2>1, FewerLines
<1> QED
  BY <1>1, <1>7, <1>8, <1>9, <1>10 DEF Writing, name, names, first

LogsSafe == FilesInv /\ QueueInv /\ EntriesInv
LogsInv == LogTypes /\ (~broken => LogsSafe)

\* There is an entry in a file when number 1 has been written for the second time.
LEMMA SomeLine ==
  ASSUME NEW fs, NEW cur, Writing(fs, cur), ~First(fs)
  PROVE  \E line \in Logs!LinesOf(fs) : line # 0
<1> DEFINE n == IF cur < Logs!Half \/ cur = maxLogFiles THEN 1 ELSE maxLogFiles
           name == Logs!Old(n)
<1>1. cur \in 1..maxLogFiles /\ First(fs) = FALSE
  BY DEF Writing, First
<1>2. n \in OldNumbers(cur, FALSE)
  BY <1>1, LogConstants DEF OldNumbers
<1>3. name \in Names(cur, FALSE) \ {Logs!Log(cur)}
  BY <1>1, <1>2, InNames DEF Logs!Old, Logs!Log
<1> HIDE DEF name
<1>4. WholeFile(fs[name]) /\ name \in DOMAIN fs /\ fs[name] \in Seq(Nat)
  BY <1>1, <1>3 DEF Writing, Chain
<1>5. 1 \in DOMAIN fs[name] /\ fs[name][1] # 0
  BY <1>4, LogConstants DEF WholeFile
<1> QED
  BY <1>4, <1>5, InLines

LEMMA LogsInit == Logs!Init => LogsSafe
<1> SUFFICES ASSUME Logs!Init PROVE LogsSafe
  OBVIOUS
<1>1. /\ files = [name \in {Logs!Log(1)} |-> <<>>] /\ activeLog = 1 /\ logCounter = 1
      /\ stream = Logs!Log(1) /\ totalNumberOfEntries = 0 /\ writeQueue = <<>> /\ dataWriteIndex = 0
      /\ at = "idle" /\ position = 1 /\ entries = 0
  BY DEF Logs!Init
<1>2. <<>> \in Seq(Nat) /\ Len(<<>>) = 0 /\ DOMAIN files = {Logs!Log(1)} /\ files[Logs!Log(1)] = <<>>
  BY <1>1
<1>3. First(files)
  BY <1>2 DEF First, Logs!OldFiles, Logs!Log
<1>4. Names(1, TRUE) = {Logs!Log(1)}
  BY DEF Names, LogNumbers, OldNumbers
<1>5. First(files) = TRUE
  BY <1>3 DEF First
<1>6. Chain(files, 1, {Logs!Log(1)})
  <2>1. files \in [{Logs!Log(1)} -> Seq(Nat)]
    BY <1>1, <1>2
  <2>2. \A f, g \in {Logs!Log(1)} : Before(files[f], files[g])
    BY <1>2 DEF Before
  <2> QED
    BY <2>1, <2>2 DEF Chain
<1>7. Writing(files, activeLog)
  <2>1. Names(activeLog, First(files)) = {Logs!Log(1)}
    BY <1>1, <1>4, <1>5
  <2>2. activeLog \in 1..maxLogFiles /\ activeLog < maxLogFiles
    BY <1>1, LogConstants
  <2> QED
    BY <1>1, <1>6, <2>1, <2>2 DEF Writing
<1>8. FilesInv
  BY <1>1, <1>2, <1>7, EmptyFile DEF FilesInv
<1>9. QueueInv
  <2>1. Logs!LinesOf(files) = {}
    BY <1>2, InLines
  <2> QED
    BY <1>1, <1>2, <2>1 DEF QueueInv, Ascends
<1>10. EntriesInv
  BY <1>1 DEF EntriesInv
<1> QED
  BY <1>8, <1>9, <1>10 DEF LogsSafe

\* writeToLog: a new entry is after all others.
LEMMA WriteToLogSafe ==
  ASSUME LogTypes, LogsSafe, Logs!WriteToLog
  PROVE  LogsSafe'
<1>1. /\ entries' = entries + 1 /\ writeQueue' = Append(writeQueue, entries + 1)
      /\ IF at = "idle" THEN position' = 1 /\ at' = "loop" ELSE position' = position /\ at' = at
      /\ UNCHANGED <<files, activeLog, logCounter, stream, totalNumberOfEntries>>
      /\ dataWriteIndex' = dataWriteIndex /\ lost' = lost
  BY DEF Logs!WriteToLog, Logs!state
<1>2. /\ writeQueue \in Seq(Nat) /\ entries \in Nat /\ dataWriteIndex \in Nat /\ position \in Nat \ {0}
      /\ at \in {"idle", "loop", "append", "rotate", "setActive"}
  BY DEF LogTypes, Logs!TypeOK
<1>3. /\ position = dataWriteIndex + 1 /\ dataWriteIndex <= Len(writeQueue)
      /\ at = "idle" => writeQueue = <<>>
      /\ Ascends(writeQueue, Len(writeQueue))
      /\ \A i \in DOMAIN writeQueue : writeQueue[i] \in 1..entries
      /\ \A line \in Logs!LinesOf(files) :
           line <= entries /\ \A i \in position..Len(writeQueue) : line < writeQueue[i]
  BY DEF LogsSafe, QueueInv
<1>4. at = "idle" => position = 1
  BY <1>2, <1>3
<1>5. position' = position /\ at' # "idle"
  BY <1>1, <1>4
<1>6. /\ Len(writeQueue') = Len(writeQueue) + 1 /\ Len(writeQueue) \in Nat
      /\ \A i \in 1..Len(writeQueue) : writeQueue'[i] = writeQueue[i]
      /\ writeQueue'[Len(writeQueue) + 1] = entries + 1
      /\ writeQueue' \in Seq(Nat)
  BY <1>1, <1>2
<1>7. \A i \in 1..(Len(writeQueue) + 1) : i \in 1..Len(writeQueue) \/ i = Len(writeQueue) + 1
  BY <1>6
<1>8. \A line \in Logs!LinesOf(files) : line \in Nat
  BY InLines DEF LogTypes, FilesTyped
<1>9. FilesInv'
  <2>1. First(files') = First(files) /\ at \in {"idle", "loop"} <=> at' = "loop"
    BY <1>1, <1>5
  <2>2. FilesInv
    BY DEF LogsSafe
  <2> QED
    BY <1>1, <1>2, <2>2 DEF FilesInv, Writing, Turned, Chain, First
<1>10. QueueInv'
  <2>1. Ascends(writeQueue', Len(writeQueue'))
    <3>1. \A i \in 1..Len(writeQueue) : writeQueue[i] \in 1..entries
      BY <1>2, <1>3
    <3> SUFFICES ASSUME NEW i \in 1..(Len(writeQueue) + 1), NEW j \in 1..(Len(writeQueue) + 1), i < j
                 PROVE  writeQueue'[i] < writeQueue'[j]
      BY <1>6 DEF Ascends
    <3>2. i \in 1..Len(writeQueue)
      BY <1>6
    <3>3. CASE j = Len(writeQueue) + 1
      BY <1>2, <1>6, <3>1, <3>2, <3>3
    <3>4. CASE j \in 1..Len(writeQueue)
      <4>1. writeQueue[i] < writeQueue[j]
        BY <1>3, <3>2, <3>4 DEF Ascends
      <4> QED
        BY <1>6, <3>2, <3>4, <4>1
    <3> QED
      BY <1>7, <3>3, <3>4
  <2>2. \A i \in DOMAIN writeQueue' : writeQueue'[i] \in 1..entries'
    BY <1>1, <1>2, <1>3, <1>6, <1>7
  <2>3. \A line \in Logs!LinesOf(files) :
          line <= entries' /\ \A i \in position'..Len(writeQueue') : line < writeQueue'[i]
    BY <1>1, <1>2, <1>3, <1>5, <1>6, <1>7, <1>8
  <2>4. /\ position' = dataWriteIndex' + 1 /\ dataWriteIndex' <= Len(writeQueue')
        /\ at' = "idle" => writeQueue' = <<>>
    BY <1>1, <1>2, <1>3, <1>5, <1>6
  <2> QED
    BY <1>1, <2>1, <2>2, <2>3, <2>4 DEF QueueInv, Logs!LinesOf
<1>11. EntriesInv'
  <2> SUFFICES ASSUME NEW e \in 1..entries'
               PROVE  e \in lost \/ Unwritten(e)' \/ e \in Logs!LinesOf(files) \/ Pushed(e, files)
    BY <1>1 DEF EntriesInv, Logs!LinesOf, Pushed, First
  <2>1. CASE e = entries + 1
    BY <1>2, <1>3, <1>5, <1>6, <2>1 DEF Unwritten
  <2>2. CASE e # entries + 1
    <3>1. e \in 1..entries
      BY <1>1, <1>2, <2>2
    <3>2. Unwritten(e) => Unwritten(e)'
      BY <1>2, <1>5, <1>6 DEF Unwritten
    <3> QED
      BY <3>1, <3>2 DEF LogsSafe, EntriesInv
  <2> QED
    BY <2>1, <2>2
<1> QED
  BY <1>9, <1>10, <1>11 DEF LogsSafe

\* The loop is left when all entries of the queue are written.
LEMMA SpliceQueueSafe ==
  ASSUME LogTypes, LogsSafe, Logs!SpliceQueue
  PROVE  LogsSafe'
<1>1. /\ at = "loop" /\ position > Len(writeQueue)
      /\ writeQueue' = SubSeq(writeQueue, dataWriteIndex + 1, Len(writeQueue))
      /\ dataWriteIndex' = 0 /\ position' = 1 /\ at' = IF writeQueue' = <<>> THEN "idle" ELSE "loop"
      /\ UNCHANGED <<files, activeLog, logCounter, stream, totalNumberOfEntries>>
      /\ entries' = entries /\ lost' = lost
  <2>1. writeQueue \in Seq(Nat) /\ position \in Nat
    BY DEF LogTypes
  <2> QED
    BY <2>1 DEF Logs!SpliceQueue, Logs!state, Logs!Left
<1>2. /\ writeQueue \in Seq(Nat) /\ dataWriteIndex \in Nat /\ position = dataWriteIndex + 1
      /\ dataWriteIndex <= Len(writeQueue)
  BY DEF LogTypes, Logs!TypeOK, LogsSafe, QueueInv
<1>3. dataWriteIndex = Len(writeQueue)
  BY <1>1, <1>2
<1>4. writeQueue' = <<>> /\ Len(writeQueue') = 0
  BY <1>1, <1>2, <1>3
<1>5. at' = "idle"
  BY <1>1, <1>4
<1>6. FilesInv'
  <2>1. FilesInv
    BY DEF LogsSafe
  <2> QED
    BY <1>1, <1>5, <2>1 DEF FilesInv, Writing, Chain, First
<1>7. QueueInv'
  <2>1. \A line \in Logs!LinesOf(files) : line <= entries
    BY DEF LogsSafe, QueueInv
  <2> QED
    <3>1. Ascends(writeQueue', Len(writeQueue'))
      BY <1>4 DEF Ascends
    <3>3. DOMAIN writeQueue' = {}
      BY <1>4
    <3>5. position' = 1 /\ dataWriteIndex' = 0 /\ at' = "idle"
      BY <1>1, <1>5
    <3>4. \A i \in position'..Len(writeQueue') : FALSE
      BY <1>4, <3>5
    <3>2. \A line \in Logs!LinesOf(files)' : line <= entries'
      BY <1>1, <2>1 DEF Logs!LinesOf
    <3> QED
      BY <1>4, <3>1, <3>2, <3>3, <3>4, <3>5 DEF QueueInv
<1>8. EntriesInv'
  <2>1. \A e : ~Unwritten(e)
    BY <1>2, <1>3 DEF Unwritten
  <2> QED
    BY <1>1, <2>1 DEF LogsSafe, EntriesInv, Pushed, First, Logs!LinesOf
<1> QED
  BY <1>6, <1>7, <1>8 DEF LogsSafe

\* An entry is written after all that are in the files, to the youngest of them.
LEMMA AppendEntrySafe ==
  ASSUME LogTypes, LogsSafe, Logs!AppendEntry
  PROVE  LogsSafe'
<1> DEFINE name == Logs!Log(activeLog)
           first == First(files)
           names == Names(activeLog, first)
           entry == writeQueue[position]
<1>1. /\ at = "append" \/ (at = "loop" /\ position <= Len(writeQueue)
                             /\ totalNumberOfEntries # maxNumberEntriesPerLog)
      /\ files' = Logs!Written(files, stream, entry)
      /\ dataWriteIndex' = dataWriteIndex + 1 /\ totalNumberOfEntries' = totalNumberOfEntries + 1
      /\ position' = position + 1 /\ at' = "loop"
      /\ UNCHANGED <<writeQueue, activeLog, logCounter, stream, entries, lost>>
  BY DEF Logs!AppendEntry, Logs!Left, Logs!Full
<1>2. /\ writeQueue \in Seq(Nat) /\ entries \in Nat /\ dataWriteIndex \in Nat /\ position \in Nat \ {0}
      /\ totalNumberOfEntries \in 0..maxNumberEntriesPerLog
      /\ position <= Len(writeQueue)
      /\ totalNumberOfEntries < maxNumberEntriesPerLog
  BY <1>1, LogConstants DEF LogTypes, Logs!TypeOK
<1>3. /\ Writing(files, activeLog) /\ PartOfFile(files[name])
      /\ totalNumberOfEntries = Len(files[name]) /\ stream = name /\ logCounter = activeLog
  BY <1>1 DEF LogsSafe, FilesInv
<1>4. /\ position = dataWriteIndex + 1
      /\ Ascends(writeQueue, Len(writeQueue))
      /\ \A i \in DOMAIN writeQueue : writeQueue[i] \in 1..entries
      /\ \A line \in Logs!LinesOf(files) :
           line <= entries /\ \A i \in position..Len(writeQueue) : line < writeQueue[i]
  BY DEF LogsSafe, QueueInv
<1>5. /\ activeLog \in 1..maxLogFiles /\ first \in BOOLEAN /\ (first => activeLog < maxLogFiles)
      /\ files \in [names -> Seq(Nat)] /\ name \in names
      /\ \A f \in names : Age(f, activeLog) \in Int /\ Age(f, activeLog) <= activeLog
      /\ Age(name, activeLog) = activeLog
  BY <1>3, Ages DEF Writing, Chain, First
<1>6. files' = [files EXCEPT ![name] = Append(files[name], entry)]
  BY <1>1, <1>3 DEF Logs!Written, Logs!Log, Logs!Ended, Logs!None
<1>7. entry \in 1..entries /\ (\A line \in Logs!LinesOf(files) : line < entry)
  BY <1>2, <1>4
<1> HIDE DEF names, first, name, entry
<1>8. /\ files' \in [names -> Seq(Nat)]
      /\ files'[name] = Append(files[name], entry)
      /\ \A f \in names \ {name} : files'[f] = files[f]
  BY <1>2, <1>5, <1>6, <1>7
<1>9. /\ Len(files'[name]) = Len(files[name]) + 1 /\ Len(files[name]) \in Nat
      /\ \A i \in 1..Len(files[name]) : files'[name][i] = files[name][i]
      /\ files'[name][Len(files[name]) + 1] = entry
      /\ DOMAIN files'[name] = 1..(Len(files[name]) + 1) /\ DOMAIN files[name] = 1..Len(files[name])
  BY <1>2, <1>5, <1>7, <1>8
<1>10. \A f \in names : \A i \in DOMAIN files'[f] :
         \/ i \in DOMAIN files[f] /\ files'[f][i] = files[f][i]
         \/ f = name /\ i = Len(files[f]) + 1 /\ files'[f][i] = entry
  BY <1>8, <1>9
<1>11. \A f \in names : \A i \in DOMAIN files[f] : i \in DOMAIN files'[f] /\ files'[f][i] = files[f][i]
  <2>1. DOMAIN files[name] \subseteq DOMAIN files'[name]
    BY <1>9
  <2>2. \A i \in DOMAIN files[name] : files'[name][i] = files[name][i]
    BY <1>9
  <2> QED
    BY <1>8, <2>1, <2>2
<1>12. \A f \in names : \A i \in DOMAIN files[f] : files[f][i] \in Nat /\ files[f][i] < entry
  <2>1. \A f \in names : \A i \in DOMAIN files[f] : files[f][i] \in Logs!LinesOf(files)
    BY <1>5, InLines
  <2> QED
    BY <1>5, <1>7, <2>1
<1>13. PartOfFile(files'[name])
  <2>1. Len(files'[name]) <= maxNumberEntriesPerLog
    BY <1>2, <1>3, <1>9, LogConstants DEF name
  <2>2. \A i \in DOMAIN files'[name] : files'[name][i] # 0
    <3>1. \A i \in DOMAIN files[name] : files[name][i] # 0
      BY <1>3 DEF PartOfFile
    <3>2. entry # 0
      BY <1>7
    <3> SUFFICES ASSUME NEW i \in DOMAIN files'[name] PROVE files'[name][i] # 0
      OBVIOUS
    <3>3. \/ i \in DOMAIN files[name] /\ files'[name][i] = files[name][i]
          \/ files'[name][i] = entry
      BY <1>5, <1>10
    <3> QED
      BY <3>1, <3>2, <3>3
  <2>3. Ascends(files'[name], Len(files'[name]))
    <3> SUFFICES ASSUME NEW i \in 1..(Len(files[name]) + 1), NEW j \in 1..(Len(files[name]) + 1), i < j
                 PROVE  files'[name][i] < files'[name][j]
      BY <1>9 DEF Ascends
    <3>1. i \in 1..Len(files[name])
      BY <1>9
    <3>2. CASE j = Len(files[name]) + 1
      BY <1>5, <1>9, <1>12, <3>1, <3>2
    <3>3. CASE j \in 1..Len(files[name])
      <4>1. files[name][i] < files[name][j]
        BY <1>3, <3>1, <3>3 DEF PartOfFile, Ascends, name
      <4> QED
        BY <1>9, <3>1, <3>3, <4>1
    <3> QED
      BY <1>9, <3>2, <3>3
  <2> QED
    BY <2>1, <2>2, <2>3 DEF PartOfFile
<1>14. First(files') = first
  BY <1>5, <1>8, SameNames DEF first
<1>15. Chain(files', activeLog, names)
  <2>1. \A f \in names \ {name} : WholeFile(files'[f])
    BY <1>3, <1>8 DEF Writing, Chain, name, names, first
  <2>2. ASSUME NEW f \in names, NEW g \in names, Age(f, activeLog) < Age(g, activeLog)
        PROVE  Before(files'[f], files'[g])
    <3>1. Before(files[f], files[g])
      BY <1>3, <2>2 DEF Writing, Chain, names, first
    <3>2. f # name
      BY <1>5, <2>2
    <3> QED
      BY <1>10, <1>12, <3>1, <3>2 DEF Before
  <2> QED
    BY <1>8, <2>1, <2>2 DEF Chain, name
<1>16. Writing(files', activeLog)
  BY <1>5, <1>14, <1>15 DEF Writing, names
<1>17. FilesInv'
  <2>1. totalNumberOfEntries' = Len(files'[name])
    BY <1>1, <1>3, <1>9 DEF name
  <2> QED
    BY <1>1, <1>3, <1>13, <1>16, <2>1 DEF FilesInv, name
<1>18. \A line : line \in Logs!LinesOf(files') <=> line \in Logs!LinesOf(files) \/ line = entry
  <2>1. ASSUME NEW line \in Logs!LinesOf(files') PROVE line \in Logs!LinesOf(files) \/ line = entry
    <3>1. PICK f \in names : \E i \in DOMAIN files'[f] : files'[f][i] = line
      <4>1. DOMAIN files' = names
        BY <1>8
      <4> HIDE DEF names
      <4> QED
        BY <2>1, <4>1 DEF Logs!LinesOf, Logs!ToSet
    <3> QED
      BY <1>5, <1>10, <3>1, InLines
  <2>2. ASSUME NEW f \in names, NEW i \in DOMAIN files'[f] PROVE files'[f][i] \in Logs!LinesOf(files')
    <3>1. f \in DOMAIN files'
      BY <1>8
    <3> QED
      BY <3>1 DEF Logs!LinesOf, Logs!ToSet
  <2>3. \A line \in Logs!LinesOf(files) : line \in Logs!LinesOf(files')
    BY <1>5, <1>11, <2>2, InLines
  <2>4. entry \in Logs!LinesOf(files')
    BY <1>5, <1>9, <2>2
  <2> QED
    BY <2>1, <2>3, <2>4
<1>19. \A i \in (position + 1)..Len(writeQueue) : entry < writeQueue[i]
  BY <1>2, <1>4 DEF Ascends, entry
<1>20. QueueInv'
  <2>1. \A line \in Logs!LinesOf(files') :
          line <= entries /\ \A i \in (position + 1)..Len(writeQueue) : line < writeQueue[i]
    BY <1>2, <1>4, <1>7, <1>18, <1>19
  <2>2. Logs!LinesOf(files)' = Logs!LinesOf(files')
    BY DEF Logs!LinesOf, Logs!ToSet
  <2> QED
    BY <1>1, <1>2, <1>4, <2>1, <2>2 DEF QueueInv
<1>21. EntriesInv'
  <2> SUFFICES ASSUME NEW e \in 1..entries
               PROVE  e \in lost \/ Unwritten(e)' \/ e \in Logs!LinesOf(files') \/ Pushed(e, files')
    BY <1>1 DEF EntriesInv, Logs!LinesOf, Pushed, First, Logs!OldFiles, Logs!ToSet
  <2>1. CASE Unwritten(e)
    <3>1. PICK i \in position..Len(writeQueue) : writeQueue[i] = e
      BY <2>1 DEF Unwritten
    <3>2. CASE i = position
      BY <1>18, <3>1, <3>2 DEF entry
    <3>3. CASE i # position
      <4>1. i \in (position + 1)..Len(writeQueue)
        BY <1>2, <3>3
      <4> QED
        BY <1>1, <3>1, <4>1 DEF Unwritten
    <3> QED
      BY <3>2, <3>3
  <2>2. CASE Pushed(e, files)
    <3>1. ~First(files) /\ \A line \in Logs!LinesOf(files) : line # 0 => e < line
      BY <2>2 DEF Pushed
    <3>2. PICK other \in Logs!LinesOf(files) : other # 0
      BY <1>3, <3>1, SomeLine
    <3>3. other \in Nat /\ e < other /\ other < entry
      BY <1>5, <1>7, <3>1, <3>2, InLines
    <3>4. e < entry
      BY <1>2, <1>7, <3>3
    <3> QED
      BY <1>14, <1>18, <3>1, <3>4 DEF Pushed, first
  <2> QED
    BY <1>18, <2>1, <2>2 DEF LogsSafe, EntriesInv
<1> QED
  BY <1>17, <1>20, <1>21 DEF LogsSafe

\* What a step keeps that writes no entries and leaves the queue alone.
LEMMA FilesStepSafe ==
  ASSUME LogTypes, LogsSafe, FilesInv', at' # "idle",
         UNCHANGED <<writeQueue, dataWriteIndex, position, entries, lost>>,
         First(files') => First(files),
         Logs!LinesOf(files') \subseteq Logs!LinesOf(files) \cup {0},
         \A e \in Logs!LinesOf(files) \ {0} : e \in Logs!LinesOf(files') \/ Pushed(e, files')
  PROVE  LogsSafe'
<1>1. Logs!LinesOf(files)' = Logs!LinesOf(files') /\ First(files)' = First(files')
  BY DEF Logs!LinesOf, Logs!ToSet, First, Logs!OldFiles
<1>2. writeQueue \in Seq(Nat) /\ entries \in Nat /\ position \in Nat \ {0}
  BY DEF LogTypes
<1>3. /\ position = dataWriteIndex + 1 /\ dataWriteIndex <= Len(writeQueue)
      /\ Ascends(writeQueue, Len(writeQueue))
      /\ \A i \in DOMAIN writeQueue : writeQueue[i] \in 1..entries
      /\ \A line \in Logs!LinesOf(files) :
           line <= entries /\ \A i \in position..Len(writeQueue) : line < writeQueue[i]
  BY DEF LogsSafe, QueueInv
<1>4. \A line \in Logs!LinesOf(files') :
        line <= entries /\ \A i \in position..Len(writeQueue) : line < writeQueue[i]
  BY <1>2, <1>3
<1>5. QueueInv'
  BY <1>1, <1>3, <1>4 DEF QueueInv
<1>6. EntriesInv'
  <2> SUFFICES ASSUME NEW e \in 1..entries
               PROVE  e \in lost \/ Unwritten(e) \/ e \in Logs!LinesOf(files') \/ Pushed(e, files')
    BY <1>1 DEF EntriesInv, Pushed, Unwritten
  <2>1. CASE Pushed(e, files)
    BY <2>1 DEF Pushed
  <2> QED
    BY <2>1 DEF LogsSafe, EntriesInv
<1> QED
  BY <1>5, <1>6 DEF LogsSafe

LEMMA EndFileSafe ==
  ASSUME LogTypes, LogsSafe, Logs!EndFile
  PROVE  LogsSafe'
<1> DEFINE name == Logs!Log(activeLog)
<1>1. /\ at = "loop" /\ totalNumberOfEntries = maxNumberEntriesPerLog
      /\ files' = Logs!Written(files, stream, 0)
      /\ logCounter' = logCounter + 1 /\ at' = "rotate"
      /\ UNCHANGED <<activeLog, writeQueue, dataWriteIndex, position, entries, lost>>
  BY DEF Logs!EndFile, Logs!Left, Logs!Full, Logs!EndLine
<1>2. /\ Writing(files, activeLog) /\ PartOfFile(files[name])
      /\ totalNumberOfEntries = Len(files[name]) /\ stream = name /\ logCounter = activeLog
  BY <1>1 DEF LogsSafe, FilesInv
<1>3. name \in DOMAIN files
  BY <1>2, Ages DEF Writing, Chain, First
<1>4. Ends(files, files', name)
  <2>1. files \in [DOMAIN files -> Seq(Nat)] /\ Len(files[name]) >= maxNumberEntriesPerLog
    BY <1>1, <1>2, LogConstants DEF LogTypes, FilesTyped
  <2>2. name \notin {Logs!Ended, Logs!None}
    BY DEF Logs!Log, Logs!Ended, Logs!None
  <2> QED
    BY <1>1, <1>2, <1>3, <2>1, <2>2, EndKeeps
<1>5. First(files') = First(files)
  BY <1>4, SameNames DEF Ends
<1>6. FilesInv'
  <2>1. Writing(files', activeLog) /\ WholeFile(files'[name])
    BY <1>2, <1>4, <1>5 DEF Ends, Writing
  <2> QED
    BY <1>1, <1>2, <2>1 DEF FilesInv
<1> QED
  BY <1>1, <1>4, <1>5, <1>6, FilesStepSafe DEF Ends

LEMMA RotateSafe ==
  ASSUME LogTypes, LogsSafe, Logs!Rotate
  PROVE  LogsSafe'
<1>1. /\ at = "rotate" /\ files' = Logs!RotateLogFile(files, logCounter)
      /\ ~Logs!RotationFails(files, logCounter) =>
           /\ logCounter' = Logs!Wrapped(logCounter) /\ at' = "setActive" /\ position' = position
      /\ UNCHANGED <<activeLog, writeQueue, dataWriteIndex, entries, lost>>
  BY DEF Logs!Rotate
<1>2. /\ Writing(files, activeLog) /\ WholeFile(files[Logs!Log(activeLog)])
      /\ logCounter = activeLog + 1
  BY <1>1 DEF LogsSafe, FilesInv
<1>3. Rotates(files, files', activeLog)
  BY <1>1, <1>2, RotationKeeps
<1>4. /\ logCounter' = Logs!Wrapped(activeLog + 1) /\ at' = "setActive" /\ position' = position
      /\ Turned(files', logCounter')
  BY <1>1, <1>2, <1>3 DEF Rotates
<1>5. FilesInv'
  BY <1>1, <1>4 DEF FilesInv, Logs!Wrapped
<1> QED
  BY <1>1, <1>3, <1>4, <1>5, FilesStepSafe DEF Rotates

LEMMA SetActiveLogSafe ==
  ASSUME LogTypes, LogsSafe, Logs!SetActiveLog, ~broken'
  PROVE  LogsSafe'
<1>1. /\ at = "setActive" /\ files' = Logs!Opened(files, Logs!Log(logCounter))
      /\ stream' = Logs!Log(logCounter) /\ activeLog' = logCounter /\ at' = "append" /\ position' = position
      /\ UNCHANGED <<logCounter, totalNumberOfEntries, writeQueue, dataWriteIndex, entries, lost>>
  BY DEF Logs!SetActiveLog, Logs!Again
<1>2. Turned(files, logCounter) /\ totalNumberOfEntries = 0
  BY <1>1 DEF LogsSafe, FilesInv, LogTypes
<1>3. Opens(files, files', logCounter)
  BY <1>1, <1>2, OpenKeeps
<1>4. FilesInv'
  BY <1>1, <1>2, <1>3, EmptyFile DEF FilesInv, Opens
<1> QED
  BY <1>1, <1>3, <1>4, FilesStepSafe DEF Opens

\* A restart finds the files of a rotation that was not begun or is complete, or one file cut off.
LEMMA RestartSafe ==
  ASSUME LogTypes, LogsSafe, Logs!Restart, ~broken'
  PROVE  LogsSafe'
<1>1. /\ writeQueue' = <<>> /\ dataWriteIndex' = 0 /\ at' = "idle" /\ position' = 1
      /\ entries' = entries
  BY DEF Logs!Restart
<1>2. PICK fs \in Logs!CrashFiles :
        /\ Logs!Reopen(fs) /\ ~Logs!CutShort(fs) /\ ~Logs!ReopenFails(fs)
        /\ lost' = lost \cup Logs!ToSet(writeQueue) \cup (Logs!LinesOf(files) \ Logs!LinesOf(fs))
  BY DEF Logs!Restart
<1>3. /\ FilesTyped(files) /\ FilesTyped(fs) /\ activeLog \in 1..maxLogFiles
      /\ at \in {"idle", "loop", "append", "rotate", "setActive"}
      /\ writeQueue \in Seq(Nat) /\ entries \in Nat /\ position \in Nat \ {0}
  BY CrashTyped DEF LogTypes, Logs!TypeOK
<1>4. Reopened(fs) /\ First(fs) = First(files) /\ Logs!LinesOf(fs) \subseteq Logs!LinesOf(files)
  <2>1. CASE at \in {"idle", "loop", "append"}
    <3>1. Writing(files, activeLog) /\ PartOfFile(files[Logs!Log(activeLog)]) /\ stream = Logs!Log(activeLog)
      BY <2>1 DEF LogsSafe, FilesInv
    <3>2. stream \in DOMAIN files
      BY <3>1, Ages DEF Writing, Chain, First
    <3>3. Logs!CrashFiles = {[files EXCEPT ![stream] = SubSeq(@, 1, k)] : k \in 0..Len(files[stream])}
      <4>1. at # "rotate" /\ at # "setActive"
        BY <2>1
      <4>2. (at \notin {"rotate", "setActive"}) = TRUE /\ (stream \in DOMAIN files) = TRUE
        BY <2>1, <3>2
      <4> QED
        BY <4>1, <4>2, SMTT(30) DEF Logs!CrashFiles
    <3>4. PICK k \in 0..Len(files[Logs!Log(activeLog)]) : CutOff(fs, k)
      BY <3>1, <3>3 DEF CutOff
    <3> QED
      BY <1>2, <1>3, <3>1, <3>4, CrashKept, ReopenActive
  <2>2. CASE at = "rotate"
    <3>1. /\ Writing(files, activeLog) /\ WholeFile(files[Logs!Log(activeLog)])
      BY <2>2 DEF LogsSafe, FilesInv
    <3>2. \E unlinked : \E renamed \in SUBSET Logs!Renamable(files, logCounter) :
            fs = Logs!Rotated(files, unlinked, renamed)
      BY <2>2 DEF Logs!CrashFiles
    <3>3. DOMAIN fs = DOMAIN files
      BY <1>2, <2>2 DEF Logs!CutShort
    <3>4. fs = files
      BY <1>3, <3>2, <3>3, CrashInRotation
    <3> QED
      BY <1>2, <1>3, <3>1, <3>4, ReopenActive
  <2>3. CASE at = "setActive"
    <3>1. Turned(files, logCounter) /\ logCounter = Logs!Wrapped(activeLog + 1)
      BY <2>3 DEF LogsSafe, FilesInv
    <3>2. logCounter \notin {Logs!Half, maxLogFiles}
      BY <1>2, <2>3 DEF Logs!CutShort
    <3>3. fs = files \/ fs = Logs!Opened(files, Logs!Log(logCounter))
      BY <2>3 DEF Logs!CrashFiles
    <3> QED
      BY <1>2, <1>3, <3>1, <3>2, <3>3, ReopenTurned
  <2> QED
    BY <1>3, <2>1, <2>2, <2>3
<1>5. Logs!LinesOf(files)' = Logs!LinesOf(files') /\ First(files)' = First(files')
  BY DEF Logs!LinesOf, Logs!ToSet, First, Logs!OldFiles
<1>6. FilesInv'
  BY <1>1, <1>4 DEF Reopened, FilesInv
<1>7. QueueInv'
  <2>1. \A line \in Logs!LinesOf(files') : line <= entries
    <3>1. Logs!LinesOf(files') \subseteq Logs!LinesOf(files) \cup {0}
      BY <1>4 DEF Reopened
    <3>2. \A line \in Logs!LinesOf(files) : line <= entries
      BY DEF LogsSafe, QueueInv
    <3> QED
      BY <1>3, <3>1, <3>2
  <2>2. Len(writeQueue') = 0
    BY <1>1
  <2>3. Ascends(writeQueue', Len(writeQueue'))
    BY <2>2 DEF Ascends
  <2>4. DOMAIN writeQueue' = {}
    BY <1>1
  <2>5. \A i \in position'..Len(writeQueue') : FALSE
    BY <1>1, <2>2
  <2> QED
    BY <1>1, <1>5, <2>1, <2>2, <2>3, <2>4, <2>5 DEF QueueInv
<1>8. EntriesInv'
  <2> SUFFICES ASSUME NEW e \in 1..entries
               PROVE  e \in lost' \/ e \in Logs!LinesOf(files') \/ Pushed(e, files')
    BY <1>1, <1>5 DEF EntriesInv, Pushed
  <2>1. CASE e \in lost
    BY <1>2, <2>1
  <2>2. CASE Unwritten(e)
    <3>1. e \in Logs!ToSet(writeQueue)
      BY <1>3, <2>2 DEF Unwritten, Logs!ToSet
    <3> QED
      BY <1>2, <3>1
  <2>3. CASE e \in Logs!LinesOf(files)
    <3>1. CASE e \in Logs!LinesOf(fs)
      BY <1>4, <3>1 DEF Reopened
    <3>2. CASE e \notin Logs!LinesOf(fs)
      BY <1>2, <2>3, <3>2
    <3> QED
      BY <3>1, <3>2
  <2>4. CASE Pushed(e, files)
    BY <1>4, <2>4 DEF Pushed, Reopened
  <2> QED
    BY <2>1, <2>2, <2>3, <2>4 DEF LogsSafe, EntriesInv
<1> QED
  BY <1>6, <1>7, <1>8 DEF LogsSafe

LEMMA LogsStep == LogsInv /\ [Logs!Next]_Logs!vars => LogsInv'
<1> SUFFICES ASSUME LogsInv, [Logs!Next]_Logs!vars, ~broken' PROVE LogsSafe'
  BY LogTypesStep DEF LogsInv
<1>1. LogTypes
  BY DEF LogsInv
<1>2. ~broken => LogsSafe
  BY DEF LogsInv
<1>3. CASE UNCHANGED Logs!vars
  <2>1. UNCHANGED <<files, activeLog, logCounter, stream, totalNumberOfEntries, writeQueue,
                    dataWriteIndex, at, position, entries, lost, broken>>
    BY <1>3 DEF Logs!vars, Logs!state, Logs!loop
  <2>2. LogsSafe
    BY <1>2, <2>1
  <2> QED
    BY <2>1, <2>2 DEF LogsSafe, FilesInv, QueueInv, EntriesInv, Unwritten, Pushed, First,
                      Logs!LinesOf, Writing, Turned, Chain
<1>4. CASE Logs!WriteToLog
  BY <1>1, <1>2, <1>4, WriteToLogSafe DEF Logs!WriteToLog
<1>5. CASE Logs!AppendEntry
  BY <1>1, <1>2, <1>5, AppendEntrySafe DEF Logs!AppendEntry
<1>6. CASE Logs!SpliceQueue
  BY <1>1, <1>2, <1>6, SpliceQueueSafe DEF Logs!SpliceQueue
<1>7. CASE Logs!EndFile
  BY <1>1, <1>2, <1>7, EndFileSafe DEF Logs!EndFile
<1>8. CASE Logs!Rotate
  BY <1>1, <1>2, <1>8, RotateSafe DEF Logs!Rotate, Logs!Again
<1>9. CASE Logs!SetActiveLog
  BY <1>1, <1>2, <1>9, SetActiveLogSafe DEF Logs!SetActiveLog, Logs!Again
<1>10. CASE Logs!Restart
  BY <1>1, <1>2, <1>10, RestartSafe DEF Logs!Restart
<1> QED
  BY <1>3, <1>4, <1>5, <1>6, <1>7, <1>8, <1>9, <1>10 DEF Logs!Next

\* A set is finite, and has a number of elements, for DataLogWriter as here.
LEMMA LogSets ==
  ASSUME NEW T
  PROVE  /\ Logs!IsFiniteSet(T) = IsFiniteSet(T)
         /\ Logs!Cardinality(T) = Cardinality(T)
BY DEF Logs!IsFiniteSet, IsFiniteSet, Logs!Cardinality, Cardinality

\* The files are in order whichever of them is written.
LEMMA FilesNow ==
  ASSUME LogTypes, LogsSafe
  PROVE  \E cur \in 1..maxLogFiles :
           LET first == First(files)
           IN /\ first => cur < maxLogFiles
              /\ DOMAIN files = Names(cur, first) \/ DOMAIN files = Names(cur, first) \ {Logs!Log(cur)}
              /\ \A name \in DOMAIN files \ {Logs!Log(cur)} : WholeFile(files[name])
              /\ \A name \in DOMAIN files : WholeFile(files[name]) \/ PartOfFile(files[name])
              /\ \A f, g \in DOMAIN files : Age(f, cur) < Age(g, cur) => Before(files[f], files[g])
<1>1. at \in {"idle", "loop", "append", "rotate", "setActive"}
  BY DEF LogTypes, Logs!TypeOK
<1>2. CASE at # "setActive"
  <2>1. /\ Writing(files, activeLog)
        /\ PartOfFile(files[Logs!Log(activeLog)]) \/ WholeFile(files[Logs!Log(activeLog)])
    BY <1>1, <1>2 DEF LogsSafe, FilesInv
  <2> QED
    BY <2>1 DEF Writing, Chain
<1>3. CASE at = "setActive"
  <2>1. Turned(files, logCounter)
    BY <1>3 DEF LogsSafe, FilesInv
  <2> QED
    BY <2>1, LogConstants DEF Turned, Chain
<1> QED
  BY <1>2, <1>3

\* No file has more entries than it may, and its entries ascend.
LEMMA FileComplete ==
  ASSUME LogTypes, LogsSafe, NEW name \in DOMAIN files
  PROVE  /\ Logs!Cardinality(Logs!EntriesOf(name)) <= maxNumberEntriesPerLog
         /\ \A i, j \in Logs!EntriesOf(name) : i < j => files[name][i] < files[name][j]
<1>1. files[name] \in Seq(Nat)
  BY DEF LogTypes, FilesTyped
<1>2. WholeFile(files[name]) \/ PartOfFile(files[name])
  BY FilesNow
<1>3. PICK n \in 0..maxNumberEntriesPerLog : Logs!EntriesOf(name) = 1..n /\ Ascends(files[name], n)
  <2>1. CASE WholeFile(files[name])
    <3>1. Logs!EntriesOf(name) = 1..maxNumberEntriesPerLog
      BY <1>1, <2>1, LogConstants DEF WholeFile, Logs!EntriesOf, Logs!EndLine
    <3> QED
      BY <2>1, <3>1, LogConstants DEF WholeFile
  <2>2. CASE PartOfFile(files[name])
    <3>1. Logs!EntriesOf(name) = 1..Len(files[name])
      BY <1>1, <2>2 DEF PartOfFile, Logs!EntriesOf, Logs!EndLine
    <3> QED
      BY <1>1, <2>2, <3>1, LogConstants DEF PartOfFile
  <2> QED
    BY <1>2, <2>1, <2>2
<1>4. Cardinality(1..n) <= maxNumberEntriesPerLog
  <2>1. 1 \in Int /\ n \in Int /\ n <= maxNumberEntriesPerLog
    BY LogConstants
  <2>2. Cardinality(1..n) = IF 1 > n THEN 0 ELSE n - 1 + 1
    BY <2>1, FS_Interval
  <2> QED
    BY <2>1, <2>2, LogConstants
<1> QED
  BY <1>3, <1>4, LogSets DEF Ascends

\* An entry is in one file.
LEMMA InOneFile ==
  ASSUME LogTypes, LogsSafe, NEW e \in Nat \ {0}
  PROVE  Logs!Cardinality(Logs!FilesWith(e)) <= 1
<1>1. PICK cur \in 1..maxLogFiles :
        /\ First(files) => cur < maxLogFiles
        /\ DOMAIN files \subseteq Names(cur, First(files))
        /\ \A f, g \in DOMAIN files : Age(f, cur) < Age(g, cur) => Before(files[f], files[g])
  BY FilesNow
<1>2. First(files) \in BOOLEAN
  BY DEF First
<1>3. ASSUME NEW f \in Logs!FilesWith(e), NEW g \in Logs!FilesWith(e)
      PROVE  f = g
  <2>1. /\ f \in DOMAIN files /\ \E i \in DOMAIN files[f] : files[f][i] = e
        /\ g \in DOMAIN files /\ \E i \in DOMAIN files[g] : files[g][i] = e
    BY DEF Logs!FilesWith, Logs!ToSet
  <2>2. ~Before(files[f], files[g]) /\ ~Before(files[g], files[f])
    BY <2>1 DEF Before
  <2>3. Age(f, cur) \in Int /\ Age(g, cur) \in Int
    BY <1>1, <1>2, <2>1, Ages
  <2>4. Age(f, cur) = Age(g, cur)
    BY <1>1, <2>1, <2>2, <2>3
  <2> QED
    BY <1>1, <1>2, <2>1, <2>4, Ages
<1>4. CASE Logs!FilesWith(e) = {}
  BY <1>4, LogSets, FS_EmptySet
<1>5. CASE Logs!FilesWith(e) # {}
  <2>1. PICK f : Logs!FilesWith(e) = {f}
    BY <1>3, <1>5
  <2> QED
    BY <2>1, LogSets, FS_Singleton
<1> QED
  BY <1>4, <1>5

\* An entry that has been pushed out has all but one of the files of a round after it.
LEMMA PushedOut ==
  ASSUME LogTypes, LogsSafe, NEW e \in Nat, Pushed(e, files)
  PROVE  Logs!Cardinality(Logs!Later(e)) >= (maxLogFiles - 1) * maxNumberEntriesPerLog
<1>1. ~First(files) /\ First(files) = FALSE
  BY DEF Pushed, First
<1>2. PICK cur \in 1..maxLogFiles :
        /\ Names(cur, FALSE) \ {Logs!Log(cur)} \subseteq DOMAIN files
        /\ DOMAIN files \subseteq Names(cur, FALSE)
        /\ \A name \in DOMAIN files \ {Logs!Log(cur)} : WholeFile(files[name])
        /\ \A f, g \in DOMAIN files : Age(f, cur) < Age(g, cur) => Before(files[f], files[g])
  BY <1>1, FilesNow
<1> DEFINE numbers == (1..maxLogFiles) \ {cur}
           places == 1..maxNumberEntriesPerLog
           Name(n) == IF n \in OldNumbers(cur, FALSE) THEN Logs!Old(n) ELSE Logs!Log(n)
           Line(n, i) == files[Name(n)][i]
           line == [p \in numbers \X places |-> Line(p[1], p[2])]
<1>3. \A n \in numbers : Name(n) \in DOMAIN files /\ WholeFile(files[Name(n)])
  <2>1. \A n \in numbers : n \in OldNumbers(cur, FALSE) \/ n \in LogNumbers(cur, FALSE)
    BY LogConstants DEF OldNumbers, LogNumbers
  <2>2. \A n \in numbers : Name(n) \in Names(cur, FALSE) /\ Name(n) # Logs!Log(cur)
    BY <2>1, InNames DEF Logs!Old, Logs!Log
  <2> HIDE DEF Name, numbers
  <2> QED
    BY <1>2, <2>2
<1>4. \A m, n \in numbers : Name(m) = Name(n) => m = n
  BY DEF Logs!Old, Logs!Log
<1> HIDE DEF Name
<1>5. ASSUME NEW n \in numbers, NEW i \in places
      PROVE  /\ i \in DOMAIN files[Name(n)] /\ Line(n, i) \in Nat /\ Line(n, i) # 0
             /\ Line(n, i) \in Logs!Later(e)
  <2>1. files[Name(n)] \in Seq(Nat)
    BY <1>3 DEF LogTypes, FilesTyped
  <2>2. i \in DOMAIN files[Name(n)] /\ Line(n, i) # 0
    BY <1>3, <2>1, LogConstants DEF WholeFile
  <2>3. Line(n, i) \in Nat
    BY <2>1, <2>2
  <2>4. Line(n, i) \in Logs!LinesOf(files)
    BY <1>3, <2>2, InLines
  <2> QED
    BY <2>2, <2>3, <2>4 DEF Pushed, Logs!Later
<1>6. ASSUME NEW m \in numbers, NEW i \in places, NEW n \in numbers, NEW j \in places,
             Line(m, i) = Line(n, j)
      PROVE  m = n /\ i = j
  <2>1. Age(Name(m), cur) \in Int /\ Age(Name(n), cur) \in Int
    BY <1>2, <1>3, Ages
  <2>2. ~Before(files[Name(m)], files[Name(n)]) /\ ~Before(files[Name(n)], files[Name(m)])
    BY <1>5, <1>6 DEF Before
  <2>3. Age(Name(m), cur) = Age(Name(n), cur)
    BY <1>2, <1>3, <2>1, <2>2
  <2>4. m = n
    BY <1>2, <1>3, <1>4, <2>3, Ages
  <2>5. Ascends(files[Name(m)], maxNumberEntriesPerLog)
    BY <1>3 DEF WholeFile
  <2>6. i = j
    BY <1>5, <1>6, <2>4, <2>5, LogConstants DEF Ascends
  <2> QED
    BY <2>4, <2>6
<1>7. /\ line \in [numbers \X places -> Logs!Later(e)]
      /\ \A p, q \in numbers \X places : line[p] = line[q] => p = q
  BY <1>5, <1>6
<1>8. IsFiniteSet(Logs!Later(e))
  <2>1. \A x \in Logs!LinesOf(files) : x \in Nat /\ x <= entries
    BY InLines DEF LogTypes, FilesTyped, LogsSafe, QueueInv
  <2>2. Logs!Later(e) \in SUBSET Nat /\ \A x \in Logs!Later(e) : x <= entries
    BY <2>1 DEF Logs!Later
  <2> QED
    BY <2>2, FS_BoundedSetOfNaturals DEF LogTypes
<1>9. /\ IsFiniteSet(numbers) /\ Cardinality(numbers) = maxLogFiles - 1
      /\ IsFiniteSet(places) /\ Cardinality(places) = maxNumberEntriesPerLog
  <2>1. \A n \in Nat : IsFiniteSet(1..n) /\ Cardinality(1..n) = n
    <3> SUFFICES ASSUME NEW n \in Nat PROVE IsFiniteSet(1..n) /\ Cardinality(1..n) = n
      OBVIOUS
    <3>1. IsFiniteSet(1..n) /\ Cardinality(1..n) = IF 1 > n THEN 0 ELSE n - 1 + 1
      BY FS_Interval
    <3> QED
      BY <3>1
  <2>2. maxLogFiles \in Nat /\ maxNumberEntriesPerLog \in Nat
    BY LogConstants
  <2>3. /\ IsFiniteSet(1..maxLogFiles) /\ Cardinality(1..maxLogFiles) = maxLogFiles
        /\ IsFiniteSet(places) /\ Cardinality(places) = maxNumberEntriesPerLog
    BY <2>1, <2>2
  <2> QED
    BY <2>3, FS_RemoveElement
<1>10. /\ IsFiniteSet(numbers \X places)
       /\ Cardinality(numbers \X places) = (maxLogFiles - 1) * maxNumberEntriesPerLog
  BY <1>9, FS_Product
<1> HIDE DEF line, numbers, places
<1>11. Cardinality(numbers \X places) \in Nat /\ Cardinality(Logs!Later(e)) \in Nat
  BY <1>8, <1>10, FS_CardinalityType
<1>12. ~(Cardinality(Logs!Later(e)) < Cardinality(numbers \X places))
  BY <1>7, <1>8, <1>10, FS_PigeonHole
<1> QED
  BY <1>10, <1>11, <1>12, LogSets

\* While no rotation is cut short, each entry that was queued is in one place of one file, in
\* order, or not written yet, lost in a crash, or pushed out by all the files but one after it
\* (insertDataLog, rotateLogFile, init), for any number of files and of entries in each, of
\* calls, crashes and errors.
THEOREM LogsKept == Logs!Spec => []LogComplete
<1>1. Logs!Init => LogsInv
  BY LogTypesInit, LogsInit DEF LogsInv
<1>2. LogsInv /\ [Logs!Next]_Logs!vars => LogsInv'
  BY LogsStep
<1>3. LogsInv => LogComplete
  <2> SUFFICES ASSUME LogsInv PROVE LogComplete
    OBVIOUS
  <2>1. LogTypes /\ (~broken => LogsSafe)
    BY DEF LogsInv
  <2>2. ASSUME LogsSafe, NEW e \in 1..entries \ (lost \cup Logs!ToSet(writeQueue))
        PROVE  \/ Logs!FilesWith(e) # {}
               \/ Logs!Cardinality(Logs!Later(e)) >= (maxLogFiles - 1) * maxNumberEntriesPerLog
    <3>1. e \in Nat /\ entries \in Nat /\ writeQueue \in Seq(Nat) /\ position \in Nat \ {0}
      BY <2>1 DEF LogTypes
    <3>2. ~Unwritten(e)
      BY <2>2, <3>1 DEF Unwritten, Logs!ToSet
    <3>3. CASE e \in Logs!LinesOf(files)
      BY <3>3 DEF Logs!LinesOf, Logs!FilesWith
    <3>4. CASE Pushed(e, files)
      BY <2>1, <2>2, <3>1, <3>4, PushedOut
    <3> QED
      BY <2>2, <3>2, <3>3, <3>4 DEF LogsSafe, EntriesInv
  <2>3. LogsSafe => \A e \in 1..entries : Logs!Cardinality(Logs!FilesWith(e)) <= 1
    BY <2>1, InOneFile DEF LogTypes
  <2>4. Logs!TypeOK
    BY <2>1 DEF LogTypes
  <2>5. Logs!LogComplete
    BY <2>1, <2>2, <2>3, FileComplete DEF Logs!LogComplete
  <2> QED
    BY <2>4, <2>5 DEF LogComplete
<1> QED
  BY <1>1, <1>2, <1>3, PTL DEF Logs!Spec
=============================================================================

------------------------- MODULE OutboxLeaderProofs -------------------------
(***************************************************************************)
(* The types of the relays' state, the election and the count of the       *)
(* publishes: for any number of relays and of events, whatever the lease,  *)
(* the timeouts and the clocks.                                            *)
(*                                                                         *)
(* What the election ensures is said of rounds that are within their term; *)
(* that of the publishes needs nothing of the election.                    *)
(***************************************************************************)
EXTENDS OutboxRelay, FiniteSetTheorems, TLAPS

(* Types.  That the lease is never in force for longer than its duration,  *)
(* nor short by more than a MongoDB call, needs the length of the calls,   *)
(* which makes the invariant inductive.                                    *)

\* No relay has been at its call for longer than the call may take.
OnTime(r) ==
  /\ relay[r].pc = "acquire" => relay[r].age <= MongoTimeout
  /\ relay[r].pc = "heads" => relay[r].age <= HeadsTimeout
  /\ relay[r].pc = "publish" => relay[r].age <= PublishTimeout + MongoTimeout

TypesInv == TypeOK /\ \A r \in Relays : OnTime(r)

\* What a row may become.
LEMMA RowTypes ==
  ASSUME TypesInv, NEW e \in Events, NEW x \in Row, row' = [row EXCEPT ![e] = x],
         UNCHANGED <<lease, relay, flight, log, tries, faults>>,
         task' \in [Relays -> [Events -> Task]], ahead' \in [Events -> SUBSET Events]
  PROVE  TypesInv'
<1>1. row' \in [Events -> Row]
  BY DEF TypesInv, TypeOK
<1> QED BY <1>1 DEF TypesInv, TypeOK, OnTime

LEMMA OthersTypes ==
  ASSUME TypesInv, UNCHANGED <<row, lease, relay, ahead, tries>>,
         task' \in [Relays -> [Events -> Task]],
         flight' \in [Relays -> [Channels -> Seq(Events)]],
         log' \in Seq(Events), faults' \in Nat
  PROVE  TypesInv'
  BY DEF TypesInv, TypeOK, OnTime

LEMMA RelayTypes ==
  ASSUME TypesInv, NEW r \in Relays, NEW q \in Relay, relay' = [relay EXCEPT ![r] = q],
         q.pc = "acquire" => q.age <= MongoTimeout,
         q.pc = "heads" => q.age <= HeadsTimeout,
         q.pc = "publish" => q.age <= PublishTimeout + MongoTimeout,
         UNCHANGED <<row, ahead>>, lease' \in Lease, task' \in [Relays -> [Events -> Task]],
         flight' \in [Relays -> [Channels -> Seq(Events)]],
         UNCHANGED log, tries' \in [Events -> Nat], faults' \in Nat
  PROVE  TypesInv'
<1>1. relay \in [Relays -> Relay] /\ \A s \in Relays : OnTime(s)
  BY DEF TypesInv, TypeOK
<1>2. /\ relay' \in [Relays -> Relay]
      /\ relay'[r] = q /\ \A s \in Relays : s # r => relay'[s] = relay[s]
  BY <1>1
<1>3. \A s \in Relays : OnTime(s)'
  BY <1>1, <1>2 DEF OnTime
<1> QED BY <1>2, <1>3 DEF TypesInv, TypeOK

\* A relay goes to its next call, of this round or of another.
LEMMA GoOnTypes ==
  ASSUME TypesInv, NEW r \in Relays,
         NEW p \in {"down", "wait", "acquire", "heads", "publish"},
         GoOn(r, p) \/ Begins(r, p),
         UNCHANGED <<row, ahead>>, lease' \in Lease, task' \in [Relays -> [Events -> Task]],
         flight' \in [Relays -> [Channels -> Seq(Events)]],
         UNCHANGED log, tries' \in [Events -> Nat], faults' \in Nat
  PROVE  TypesInv'
<1>1. relay \in [Relays -> Relay] /\ relay[r] \in Relay
  BY DEF TypesInv, TypeOK
<1>2. PICK q \in Relay : q.pc = p /\ q.age = 0 /\ relay' = [relay EXCEPT ![r] = q]
  <2> DEFINE q1 == [[relay[r] EXCEPT !.pc = p] EXCEPT !.age = 0]
             q2 == [q1 EXCEPT !.round = 0]
  <2>1. q1 \in Relay /\ q1.pc = p /\ q1.age = 0
    BY <1>1 DEF Relay
  <2>2. q2 \in Relay /\ q2.pc = p /\ q2.age = 0
    BY <1>1 DEF Relay
  <2>3. relay' = [relay EXCEPT ![r] = q1] \/ relay' = [relay EXCEPT ![r] = q2]
    BY <1>1 DEF GoOn, Begins
  <2> HIDE DEF q1, q2
  <2> QED BY <2>1, <2>2, <2>3
<1>3. q.pc = "acquire" => q.age <= MongoTimeout
  BY <1>2, TimesAssumption
<1>4. q.pc = "heads" => q.age <= HeadsTimeout
  BY <1>2, TimesAssumption
<1>5. q.pc = "publish" => q.age <= PublishTimeout + MongoTimeout
  BY <1>2, TimesAssumption
<1> QED BY <1>2, <1>3, <1>4, <1>5, RelayTypes

LEMMA FinishTypes ==
  ASSUME TypesInv, NEW r \in Relays, NEW e \in Events, Finish(r, e)
  PROVE  task' \in [Relays -> [Events -> Task]]
<1> DEFINE line == [task[r] EXCEPT ![e] = NoTask]
<1>1. NoTask \in Task /\ task \in [Relays -> [Events -> Task]]
  BY DEF NoTask, Task, TypesInv, TypeOK
<1>2. line \in [Events -> Task]
  BY <1>1
<1>3. task' = [task EXCEPT ![r] = line]
  BY DEF Finish
<1> HIDE DEF line
<1> QED BY <1>1, <1>2, <1>3

\* A goroutine goes on.
LEMMA GoOnTask ==
  ASSUME TypesInv, NEW r \in Relays, NEW e \in Events,
         NEW p \in {"mark", "retry", "park"}, task' = [task EXCEPT ![r][e].pc = p]
  PROVE  task' \in [Relays -> [Events -> Task]]
<1> DEFINE t == [task[r][e] EXCEPT !.pc = p]
           line == [task[r] EXCEPT ![e] = t]
<1>1. task \in [Relays -> [Events -> Task]] /\ task[r][e] \in Task
  BY DEF TypesInv, TypeOK
<1>2. t \in Task
  BY <1>1 DEF Task
<1>3. task' = [task EXCEPT ![r] = line]
  OBVIOUS
<1> HIDE DEF t
<1>4. line \in [Events -> Task]
  BY <1>1, <1>2
<1> HIDE DEF line
<1> QED BY <1>1, <1>3, <1>4
-----------------------------------------------------------------------------
LEMMA InitTypes == Init => TypesInv
  BY TimesAssumption, LimitsAssumption
  DEF Init, TypesInv, TypeOK, OnTime, Row, Lease, Relay, Task, NoTask, NoLease, Begin, RunOut

LEMMA InsertTypes ==
  ASSUME TypesInv, NEW e \in Events, Insert(e)
  PROVE  TypesInv'
<1> DEFINE x == [row[e] EXCEPT !.status = "pending"]
           found == {f \in Peers(e) : Version[f] < Version[e] /\ row[f].status # "absent"}
<1>1. row[e] \in Row /\ row \in [Events -> Row] /\ task \in [Relays -> [Events -> Task]]
  BY DEF TypesInv, TypeOK
<1>2. row' = [row EXCEPT ![e] = x]
  BY DEF Insert
<1>3. x \in Row
  BY <1>1 DEF Row
<1>4. ahead \in [Events -> SUBSET Events] /\ ahead' = [ahead EXCEPT ![e] = found]
  BY DEF TypesInv, TypeOK, Insert
<1>5. found \subseteq Events
  BY DEF Peers
<1> HIDE DEF x, found
<1>6. ahead' \in [Events -> SUBSET Events]
  BY <1>4, <1>5
<1> QED BY <1>1, <1>2, <1>3, <1>6, RowTypes DEF Insert

LEMMA DelayTypes ==
  ASSUME TypesInv, NEW e \in Events, DelayEnds(e)
  PROVE  TypesInv'
<1> DEFINE x == [row[e] EXCEPT !.due = TRUE]
<1>1. /\ row[e] \in Row /\ row \in [Events -> Row] /\ task \in [Relays -> [Events -> Task]]
      /\ ahead \in [Events -> SUBSET Events]
  BY DEF TypesInv, TypeOK
<1>2. x \in Row
  BY <1>1 DEF Row
<1>3. row' = [row EXCEPT ![e] = x]
  BY DEF DelayEnds
<1> HIDE DEF x
<1> QED BY <1>1, <1>2, <1>3, RowTypes DEF DelayEnds
-----------------------------------------------------------------------------
(* The clock *)

LEMMA TickTypes ==
  ASSUME TypesInv, Tick
  PROVE  TypesInv'
<1>1. /\ relay \in [Relays -> Relay] /\ lease \in Lease
      /\ \A r \in Relays : relay[r] \in Relay /\ OnTime(r) /\ InTime(r)
  BY DEF TypesInv, TypeOK, Tick
<1>2. lease' \in Lease
  <2> DEFINE n == IF lease.left > RunOut THEN lease.left - 1 ELSE lease.left
  <2>1. lease' = [lease EXCEPT !.left = n]
    BY <1>1 DEF Tick
  <2>2. RunOut \in Int /\ lease.left \in RunOut..(LeaseDuration + MaxSkew)
    BY <1>1, TimesAssumption DEF Lease, RunOut
  <2>3. n \in RunOut..(LeaseDuration + MaxSkew)
    BY <2>2, TimesAssumption
  <2> HIDE DEF n
  <2> QED BY <1>1, <2>1, <2>3 DEF Lease
<1>3. ASSUME NEW r \in Relays
      PROVE  relay'[r] \in Relay /\ OnTime(r)'
  <2>1. CASE relay[r].pc \in {"acquire", "heads", "publish"}
    <3> DEFINE a == relay[r].age + 1
               n == relay[r].round + 1
               q == [[relay[r] EXCEPT !.age = a] EXCEPT !.round = n]
    <3>1. relay'[r] = q
      BY <2>1 DEF Tick
    <3>2. relay[r].age \in Nat /\ a \in Nat /\ n \in Nat
      BY <1>1 DEF Relay
    <3> HIDE DEF n
    <3>3. q \in Relay /\ q.pc = relay[r].pc /\ q.age = a
      <4> HIDE DEF a
      <4> QED BY <1>1, <3>2 DEF Relay
    <3> HIDE DEF q
    <3>4. relay[r].pc = "publish" => relay[r].age < PublishTimeout + MongoTimeout
      BY <1>1 DEF InTime
    <3>5. /\ relay[r].pc = "acquire" => relay[r].age < MongoTimeout
          /\ relay[r].pc = "heads" => relay[r].age < HeadsTimeout
      BY <1>1 DEF InTime
    <3> QED BY <3>1, <3>2, <3>3, <3>4, <3>5, TimesAssumption DEF OnTime
  <2>2. CASE relay[r].pc \notin {"acquire", "heads", "publish"}
    BY <1>1, <2>2 DEF Tick, OnTime
  <2> QED BY <2>1, <2>2
<1>4. relay' \in [Relays -> Relay]
  BY <1>3 DEF Tick
<1> QED BY <1>2, <1>3, <1>4 DEF Tick, TypesInv, TypeOK
-----------------------------------------------------------------------------
(* The loop *)

\* The lease after a relay has taken it.
LEMMA TakenTypes ==
  ASSUME TypesInv, NEW r \in Relays, NEW off \in Clock, relay[r].pc = "acquire"
  PROVE  Taken(r, off) \in Lease
<1>1. /\ relay[r].age \in Nat /\ relay[r].age <= MongoTimeout
      /\ off \in Int /\ off <= MaxSkew /\ 0 - MaxSkew <= off
  BY TimesAssumption DEF TypesInv, TypeOK, OnTime, Relay, Clock
<1>2. LeaseDuration + off - relay[r].age \in RunOut..(LeaseDuration + MaxSkew)
  BY <1>1, TimesAssumption DEF RunOut
<1> QED BY <1>2 DEF Taken, Lease

LEMMA LoopTypes ==
  ASSUME TypesInv, NEW r \in Relays, Wake(r) \/ RoundEnds(r) \/ Acquire(r)
  PROVE  TypesInv'
<1>1. /\ lease \in Lease /\ task \in [Relays -> [Events -> Task]]
      /\ flight \in [Relays -> [Channels -> Seq(Events)]]
      /\ tries \in [Events -> Nat] /\ faults \in Nat
  BY DEF TypesInv, TypeOK
<1>2. UNCHANGED <<row, task, flight, log, ahead, tries, faults>>
  BY DEF Wake, RoundEnds, Acquire
<1>3. lease' \in Lease
  BY <1>1, TakenTypes DEF Wake, RoundEnds, Acquire
<1>4. PICK p \in {"wait", "acquire", "heads"} : GoOn(r, p) \/ Begins(r, p)
  BY DEF Wake, RoundEnds, Acquire
<1> QED BY <1>1, <1>2, <1>3, <1>4, GoOnTypes

LEMMA CallFailsTypes ==
  ASSUME TypesInv, NEW r \in Relays, CallFails(r)
  PROVE  TypesInv'
<1>1. /\ lease \in Lease /\ task \in [Relays -> [Events -> Task]]
      /\ flight \in [Relays -> [Channels -> Seq(Events)]]
      /\ tries \in [Events -> Nat] /\ faults \in Nat
  BY DEF TypesInv, TypeOK
<1>2. UNCHANGED <<row, task, flight, log, ahead, tries>> /\ Begins(r, "wait")
  BY DEF CallFails
<1>3. lease' \in Lease
  BY <1>1, TakenTypes DEF CallFails
<1>4. faults' \in Nat
  BY <1>1 DEF CallFails, Failure
<1> QED BY <1>1, <1>2, <1>3, <1>4, GoOnTypes

\* What reading the heads does with a batch that is not empty.
Published(r, batch) ==
  /\ GoOn(r, "publish")
  /\ task' = [task EXCEPT ![r] = [e \in Events |->
       IF e \in batch THEN [pc |-> "publish", attempts |-> row[e].attempts] ELSE NoTask]]
  /\ flight' = [flight EXCEPT ![r] = [c \in Channels |->
       IF \E e \in batch : ChannelOf[e] = c
       THEN Queued(flight[r][c], CHOOSE e \in batch : ChannelOf[e] = c)
       ELSE flight[r][c]]]
  /\ tries' = [e \in Events |-> IF e \in batch THEN tries[e] + 1 ELSE tries[e]]

LEMMA ReadHeadsCases ==
  ASSUME NEW r \in Relays, ReadHeads(r)
  PROVE  \/ Begins(r, "wait") /\ UNCHANGED <<task, flight, tries>>
         \/ \E due \in SeenDue : Published(r, Batch(due))
<1>1. PICK batch \in {Batch(due) : due \in SeenDue} :
        \/ Begins(r, "wait") /\ UNCHANGED <<task, flight, tries>>
        \/ Published(r, batch)
  BY DEF ReadHeads, Published
<1> QED BY <1>1

LEMMA ReadHeadsTypes ==
  ASSUME TypesInv, NEW r \in Relays, ReadHeads(r)
  PROVE  TypesInv'
<1>1. /\ lease \in Lease /\ task \in [Relays -> [Events -> Task]]
      /\ row \in [Events -> Row]
      /\ flight \in [Relays -> [Channels -> Seq(Events)]]
      /\ tries \in [Events -> Nat] /\ faults \in Nat
  BY DEF TypesInv, TypeOK
<1>2. UNCHANGED <<row, lease, log, ahead, faults>>
  BY DEF ReadHeads
<1>3. CASE Begins(r, "wait") /\ UNCHANGED <<task, flight, tries>>
  BY <1>1, <1>2, <1>3, GoOnTypes
<1>4. ASSUME NEW due \in SeenDue, Published(r, Batch(due))
      PROVE  TypesInv'
  <2> DEFINE batch == Batch(due)
  <2>0. batch \subseteq Heads /\ Heads \subseteq Events
    BY DEF Batch, Oldest, Heads, Pending
  <2> HIDE DEF batch
  <2>4. Published(r, batch)
    BY <1>4 DEF batch
  <2>1. task' \in [Relays -> [Events -> Task]]
    <3> DEFINE line == [e \in Events |->
                 IF e \in batch THEN [pc |-> "publish", attempts |-> row[e].attempts]
                                ELSE NoTask]
    <3>1. \A e \in Events : row[e].attempts \in Nat
      BY <1>1 DEF Row
    <3>2. line \in [Events -> Task]
      BY <3>1 DEF NoTask, Task
    <3>3. task' = [task EXCEPT ![r] = line]
      BY <2>4 DEF Published
    <3> HIDE DEF line
    <3> QED BY <1>1, <3>2, <3>3
  <2>2. flight' \in [Relays -> [Channels -> Seq(Events)]]
    <3> DEFINE queue(c) == IF \E e \in batch : ChannelOf[e] = c
                 THEN Queued(flight[r][c], CHOOSE e \in batch : ChannelOf[e] = c)
                 ELSE flight[r][c]
               line == [c \in Channels |-> queue(c)]
    <3>1. ASSUME NEW c \in Channels
          PROVE  queue(c) \in Seq(Events)
      <4>1. flight[r][c] \in Seq(Events)
        BY <1>1
      <4>2. batch \subseteq Events
        BY <2>0
      <4>3. CASE \E e \in batch : ChannelOf[e] = c
        <5> DEFINE e == CHOOSE e \in batch : ChannelOf[e] = c
        <5>1. e \in Events
          BY <4>2, <4>3
        <5> HIDE DEF e
        <5>2. Queued(flight[r][c], e) \in Seq(Events)
          BY <4>1, <5>1 DEF Queued
        <5> QED BY <4>3, <5>2 DEF e
      <4> QED BY <4>1, <4>3
    <3>2. flight' = [flight EXCEPT ![r] = line]
      BY <2>4 DEF Published
    <3> HIDE DEF queue
    <3>3. line \in [Channels -> Seq(Events)]
      BY <3>1
    <3> HIDE DEF line
    <3> QED BY <1>1, <3>2, <3>3
  <2>3. tries' \in [Events -> Nat]
    BY <1>1, <2>4 DEF Published
  <2> QED BY <1>1, <1>2, <2>1, <2>2, <2>3, <2>4, GoOnTypes DEF Published
<1> QED BY <1>3, <1>4, ReadHeadsCases
-----------------------------------------------------------------------------
(* The ends of a process *)

LEMMA OrphanedTypes ==
  ASSUME TypesInv, NEW r \in Relays
  PROVE  Orphaned(r) \in Lease /\ NoLease \in Lease
<1>1. lease \in Lease
  BY DEF TypesInv, TypeOK
<1>2. [lease EXCEPT !.owner = None] \in Lease
  BY <1>1 DEF Lease
<1>3. NoLease \in Lease
  BY TimesAssumption DEF NoLease, Lease, RunOut
<1> QED BY <1>1, <1>2, <1>3 DEF Orphaned

\* Of a process that begins, dies or is shut down.
LEMMA LifeTypes ==
  ASSUME TypesInv, NEW r \in Relays, Start(r) \/ Release(r) \/ Crash(r) \/ Stop(r)
  PROVE  TypesInv'
<1>1. /\ relay[r] \in Relay /\ OnTime(r)
      /\ lease \in Lease /\ task \in [Relays -> [Events -> Task]]
      /\ flight \in [Relays -> [Channels -> Seq(Events)]]
      /\ tries \in [Events -> Nat] /\ faults \in Nat
  BY DEF TypesInv, TypeOK
<1>2. UNCHANGED <<row, log, ahead, flight, tries>>
  BY DEF Start, Release, Crash, Stop
<1>3. lease' \in Lease /\ faults' \in Nat
  BY <1>1, OrphanedTypes DEF Start, Release, Crash, Stop
<1>4. task' \in [Relays -> [Events -> Task]]
  <2> DEFINE line == [e \in Events |-> NoTask]
  <2>1. line \in [Events -> Task]
    BY DEF NoTask, Task
  <2>2. task' = task \/ task' = [task EXCEPT ![r] = line]
    BY DEF Start, Release, Crash, Stop
  <2> HIDE DEF line
  <2> QED BY <1>1, <2>1, <2>2
<1>5. flight' \in [Relays -> [Channels -> Seq(Events)]]
  BY <1>1, <1>2
<1>6. CASE Start(r) \/ Release(r) \/ Crash(r)
  <2>1. PICK p \in {"down", "acquire"} :
          relay' = [relay EXCEPT ![r] = Begin(p)]
    BY <1>6 DEF Start, Release, Crash
  <2> DEFINE q == Begin(p)
  <2>2. q \in Relay /\ q.pc \in {"down", "acquire"} /\ q.age <= MongoTimeout
    BY TimesAssumption DEF Relay, Begin
  <2> HIDE DEF q
  <2>3. relay' = [relay EXCEPT ![r] = q]
    BY <2>1 DEF q
  <2> QED BY <1>1, <1>2, <1>3, <1>4, <1>5, <2>2, <2>3, RelayTypes
<1>7. CASE Stop(r)
  <2> DEFINE q == [relay[r] EXCEPT !.stop = TRUE]
  <2>1. q \in Relay /\ q.pc = relay[r].pc /\ q.age = relay[r].age
    BY <1>1 DEF Relay
  <2>2. relay' = [relay EXCEPT ![r] = q]
    BY <1>7 DEF Stop
  <2> HIDE DEF q
  <2>3. /\ q.pc = "acquire" => q.age <= MongoTimeout
        /\ q.pc = "heads" => q.age <= HeadsTimeout
    BY <1>1, <2>1 DEF OnTime
  <2>4. q.pc = "publish" => q.age <= PublishTimeout + MongoTimeout
    BY <1>1, <2>1 DEF OnTime
  <2> QED BY <1>1, <1>2, <1>3, <1>4, <1>5, <2>1, <2>2, <2>3, <2>4, RelayTypes
<1> QED BY <1>6, <1>7
-----------------------------------------------------------------------------
(* The writer and the goroutines *)

LEMMA WriterTypes ==
  ASSUME TypesInv, NEW r \in Relays, NEW c \in Channels, Land(r, c) \/ Lose(r, c)
  PROVE  TypesInv'
<1> DEFINE q == flight[r][c]
           e == Head(q)
           line == [flight[r] EXCEPT ![c] = Tail(q)]
<1>1. /\ flight \in [Relays -> [Channels -> Seq(Events)]] /\ q \in Seq(Events)
      /\ task \in [Relays -> [Events -> Task]]
      /\ log \in Seq(Events) /\ faults \in Nat
  BY DEF TypesInv, TypeOK
<1>2. q # <<>> /\ flight' = [flight EXCEPT ![r] = line]
      /\ UNCHANGED <<row, lease, relay, ahead, tries, faults>>
  BY DEF Land, Lose
<1>3. e \in Events /\ Tail(q) \in Seq(Events)
  BY <1>1, <1>2
<1>4. line \in [Channels -> Seq(Events)]
  BY <1>1, <1>3
<1>5. flight' \in [Relays -> [Channels -> Seq(Events)]]
  <2> HIDE DEF line
  <2> QED BY <1>1, <1>2, <1>4
<1>6. log' \in Seq(Events)
  <2>1. log' = log \/ log' = Append(log, e)
    BY DEF Land, Lose
  <2>2. log \in Seq(Events)
    BY <1>1
  <2>3. e \in Events
    BY <1>3
  <2> HIDE DEF e
  <2>4. Append(log, e) \in Seq(Events)
    BY <2>2, <2>3
  <2> QED BY <2>1, <2>2, <2>4
<1>7. task' \in [Relays -> [Events -> Task]]
  <2>1. \/ task' = task \/ Finish(r, e) \/ task' = [task EXCEPT ![r][e].pc = "mark"]
    BY DEF Land, Lose, Finish
  <2> HIDE DEF e
  <2> QED BY <1>1, <1>3, <2>1, FinishTypes, GoOnTask
<1> QED BY <1>1, <1>2, <1>5, <1>6, <1>7, OthersTypes

LEMMA PublishingTypes ==
  ASSUME TypesInv, NEW r \in Relays, NEW e \in Events, Publishing(r, e)
  PROVE  TypesInv'
<1>1. /\ row \in [Events -> Row] /\ row[e] \in Row /\ task[r][e].attempts \in Nat
      /\ flight \in [Relays -> [Channels -> Seq(Events)]]
      /\ log \in Seq(Events) /\ faults \in Nat /\ ahead \in [Events -> SUBSET Events]
  BY DEF TypesInv, TypeOK, Task
<1>2. task' \in [Relays -> [Events -> Task]]
  <2>1. \/ Finish(r, e)
        \/ \E p \in {"mark", "retry", "park"} : task' = [task EXCEPT ![r][e].pc = p]
    BY DEF Publishing, PublishFails, MarkPublished, ScheduleRetry, MarkFailed, WriteFails
  <2> QED BY <2>1, FinishTypes, GoOnTask
<1>3. CASE PublishFails(r, e) \/ WriteFails(r, e)
  BY <1>1, <1>2, <1>3, OthersTypes DEF PublishFails, WriteFails, Failure
<1>4. CASE MarkPublished(r, e)
  <2> DEFINE x == [row[e] EXCEPT !.status = IF @ = "pending" THEN "published" ELSE @]
  <2>1. x \in Row
    BY <1>1 DEF Row
  <2>2. row' = [row EXCEPT ![e] = x]
    BY <1>4 DEF MarkPublished
  <2> HIDE DEF x
  <2> QED BY <1>1, <1>2, <1>4, <2>1, <2>2, RowTypes DEF MarkPublished
<1>5. CASE ScheduleRetry(r, e)
  <2> DEFINE n == row[e].attempts + 1
             x == [[row[e] EXCEPT !.attempts = n] EXCEPT !.due = FALSE]
  <2>0. n \in Nat
    BY <1>1 DEF Row
  <2>2. row' = row \/ row' = [row EXCEPT ![e] = x]
    BY <1>1, <1>5 DEF ScheduleRetry
  <2> HIDE DEF n
  <2>1. x \in Row
    BY <1>1, <2>0 DEF Row
  <2> HIDE DEF x
  <2>3. row = [row EXCEPT ![e] = row[e]]
    BY <1>1
  <2> QED BY <1>1, <1>2, <1>5, <2>1, <2>2, <2>3, RowTypes DEF ScheduleRetry
<1>6. CASE MarkFailed(r, e)
  <2> DEFINE n == task[r][e].attempts + 1
             x == [[row[e] EXCEPT !.status = "failed"] EXCEPT !.attempts = n]
  <2>0. n \in Nat
    BY <1>1
  <2>2. row' = row \/ row' = [row EXCEPT ![e] = x]
    BY <1>1, <1>6 DEF MarkFailed
  <2> HIDE DEF n
  <2>1. x \in Row
    BY <1>1, <2>0 DEF Row
  <2> HIDE DEF x
  <2>3. row = [row EXCEPT ![e] = row[e]]
    BY <1>1
  <2> QED BY <1>1, <1>2, <1>6, <2>1, <2>2, <2>3, RowTypes DEF MarkFailed
<1> QED BY <1>3, <1>4, <1>5, <1>6 DEF Publishing
-----------------------------------------------------------------------------
LEMMA StepTypes ==
  ASSUME TypesInv, [Next]_vars
  PROVE  TypesInv'
<1>1. CASE UNCHANGED vars
  BY <1>1 DEF vars, TypesInv, TypeOK, OnTime
<1>2. CASE Next
  BY <1>2, InsertTypes, DelayTypes, TickTypes, LoopTypes, CallFailsTypes,
     ReadHeadsTypes, LifeTypes, WriterTypes, PublishingTypes
  DEF Next, Looping
<1> QED BY <1>1, <1>2

\* Whatever the relays, the events and the timeouts, the relays' state keeps
\* its types, the bounds of the lease among them: a lease is in force for
\* LeaseDuration at most, but for the skew of the clock it was taken by, though
\* the time it lasts from is read before the call that takes it
\* (internal/outbox/repository.go:47-77).
THEOREM TypeCorrect == Spec => []TypeOK
<1>1. TypesInv /\ [Next]_vars => TypesInv'
  BY StepTypes
<1>2. TypesInv => TypeOK
  BY DEF TypesInv
<1> QED BY <1>1, <1>2, InitTypes, PTL DEF Spec
-----------------------------------------------------------------------------
(* Who is at work *)

\* Goroutines run in the publishing phase only.
BusyPublishing(r) == Busy(r) # {} => relay[r].pc = "publish"

WorkInv == TypesInv /\ \A r \in Relays : BusyPublishing(r)

\* What a relay has of the types.
LEMMA RelayFacts ==
  ASSUME TypesInv, NEW r \in Relays
  PROVE  /\ relay \in [Relays -> Relay] /\ relay[r] \in Relay
         /\ relay[r].age \in Nat /\ relay[r].round \in Nat /\ OnTime(r)
         /\ lease \in Lease /\ lease.left \in Int
         /\ task \in [Relays -> [Events -> Task]]
  BY TimesAssumption DEF TypesInv, TypeOK, Relay, Lease, RunOut

\* A relay that goes to its next call, with its context as it was.
LEMMA Moves ==
  ASSUME TypesInv, NEW r \in Relays, NEW p, GoOn(r, p) \/ Begins(r, p)
  PROVE  /\ relay'[r].pc = p /\ relay'[r].age = 0 /\ relay'[r].stop = relay[r].stop
         /\ GoOn(r, p) => relay'[r].round = relay[r].round
         /\ Begins(r, p) => relay'[r].round = 0
         /\ \A s \in Relays : s # r => relay'[s] = relay[s]
<1>1. relay \in [Relays -> Relay] /\ relay[r] \in Relay
  BY RelayFacts
<1> QED BY <1>1 DEF GoOn, Begins, Relay

\* The clock moves on for a relay and leaves it where it is.
LEMMA TickMoves ==
  ASSUME TypesInv, Tick, NEW r \in Relays
  PROVE  /\ relay'[r].pc = relay[r].pc /\ relay'[r].stop = relay[r].stop
         /\ \/ relay'[r] = relay[r] /\ relay[r].pc \notin {"acquire", "heads", "publish"}
            \/ relay'[r].age = relay[r].age + 1 /\ relay'[r].round = relay[r].round + 1
<1>1. relay[r] \in Relay
  BY RelayFacts
<1> QED BY <1>1 DEF Tick, Relay

\* What the end of a process, or its beginning, makes of it.
LEMMA LifeMoves ==
  ASSUME TypesInv, NEW r \in Relays, Start(r) \/ Release(r) \/ Crash(r)
  PROVE  /\ relay'[r].pc \in {"down", "acquire"} /\ ~relay'[r].stop
         /\ relay'[r].age = 0 /\ relay'[r].round = 0
         /\ \A s \in Relays : s # r => relay'[s] = relay[s]
<1>1. relay \in [Relays -> Relay]
  BY RelayFacts
<1> QED BY <1>1 DEF Start, Release, Crash, Begin

LEMMA StopMoves ==
  ASSUME TypesInv, NEW r \in Relays, Stop(r)
  PROVE  /\ relay'[r].pc = relay[r].pc /\ relay'[r].stop
         /\ relay'[r].age = relay[r].age /\ relay'[r].round = relay[r].round
         /\ \A s \in Relays : s # r => relay'[s] = relay[s]
<1>1. relay \in [Relays -> Relay] /\ relay[r] \in Relay
  BY RelayFacts
<1> QED BY <1>1 DEF Stop, Relay

\* A goroutine that ends or goes on, of the relay r and for the event e.
LEMMA TaskMoves ==
  ASSUME TypesInv, NEW r \in Relays, NEW e \in Events,
         \/ Finish(r, e)
         \/ \E p \in {"mark", "retry", "park"} : task' = [task EXCEPT ![r][e].pc = p]
  PROVE  /\ task'[r][e] = NoTask
            \/ (task'[r][e].pc # "none" /\ task'[r][e].attempts = task[r][e].attempts)
         /\ \A s \in Relays, f \in Events :
              <<s, f>> # <<r, e>> => task'[s][f] = task[s][f]
<1>1. task \in [Relays -> [Events -> Task]] /\ task[r][e] \in Task
  BY RelayFacts
<1> QED BY <1>1 DEF Finish, Task

\* Whoever waits for the write that Kafka takes.
LEMMA LandMoves ==
  ASSUME TypesInv, NEW r \in Relays, NEW c \in Channels, Land(r, c)
  PROVE  /\ UNCHANGED <<row, lease, relay, ahead, tries, faults>>
         /\ \/ UNCHANGED task
            \/ \E e \in Events :
                 /\ task[r][e].pc = "publish"
                 /\ IF relay[r].stop THEN Finish(r, e)
                    ELSE task' = [task EXCEPT ![r][e].pc = "mark"]
<1>1. Head(flight[r][c]) \in Events
  BY DEF Land, TypesInv, TypeOK
<1> QED BY <1>1 DEF Land, Finish

\* What becomes of a goroutine for good: its row is written, or not.
LEMMA PublishingMoves ==
  ASSUME TypesInv, NEW r \in Relays, NEW e \in Events, Publishing(r, e)
  PROVE  /\ UNCHANGED <<lease, relay, flight, log, ahead, tries>> /\ task[r][e].pc # "none"
         /\ \/ Finish(r, e)
            \/ \E p \in {"retry", "park"} : task' = [task EXCEPT ![r][e].pc = p]
  BY DEF Publishing, PublishFails, MarkPublished, ScheduleRetry, MarkFailed, WriteFails
-----------------------------------------------------------------------------
LEMMA InitWork == Init => WorkInv
  BY InitTypes DEF Init, WorkInv, BusyPublishing, Busy, NoTask

LEMMA LoopWork ==
  ASSUME WorkInv, NEW r \in Relays,
         \/ Looping(r) \/ CallFails(r) \/ Crash(r) \/ Stop(r)
  PROVE  \A s \in Relays : BusyPublishing(s)'
<1>1. TypesInv /\ \A s \in Relays : BusyPublishing(s)
  BY DEF WorkInv
<1>2. CASE Start(r) \/ Release(r)
  <2>1. UNCHANGED task /\ Busy(r) = {}
    BY <1>1, <1>2 DEF Start, Release, BusyPublishing
  <2> QED BY <1>1, <1>2, <2>1, LifeMoves DEF BusyPublishing, Busy
<1>3. CASE Crash(r)
  <2>1. task \in [Relays -> [Events -> Task]]
    BY <1>1, RelayFacts
  <2>2. Busy(r)' = {} /\ \A s \in Relays : s # r => task'[s] = task[s]
    BY <1>3, <2>1 DEF Crash, Busy, NoTask
  <2> QED BY <1>1, <1>3, <2>2, LifeMoves DEF BusyPublishing, Busy
<1>4. CASE Stop(r)
  <2>1. UNCHANGED task
    BY <1>4 DEF Stop
  <2> QED BY <1>1, <1>4, <2>1, StopMoves DEF BusyPublishing, Busy
<1>5. CASE Wake(r) \/ RoundEnds(r) \/ Acquire(r) \/ CallFails(r)
  <2>1. UNCHANGED task /\ Busy(r) = {}
    BY <1>1, <1>5 DEF Wake, RoundEnds, Acquire, CallFails, BusyPublishing
  <2>2. PICK p \in {"wait", "acquire", "heads"} : GoOn(r, p) \/ Begins(r, p)
    BY <1>5 DEF Wake, RoundEnds, Acquire, CallFails
  <2> QED BY <1>1, <2>1, <2>2, Moves DEF BusyPublishing, Busy
<1>6. CASE ReadHeads(r)
  <2>1. Busy(r) = {}
    BY <1>1, <1>6 DEF ReadHeads, BusyPublishing
  <2>2. CASE Begins(r, "wait") /\ UNCHANGED task
    BY <1>1, <2>1, <2>2, Moves DEF BusyPublishing, Busy
  <2>3. CASE \E due \in SeenDue : Published(r, Batch(due))
    <3>1. /\ relay'[r].pc = "publish"
          /\ \A s \in Relays : s # r => relay'[s] = relay[s]
      BY <1>1, <2>3, Moves DEF Published
    <3>2. \A s \in Relays : s # r => task'[s] = task[s]
      BY <1>1, <2>3, RelayFacts DEF Published
    <3> QED BY <1>1, <3>1, <3>2 DEF BusyPublishing, Busy
  <2> QED BY <1>6, <2>2, <2>3, ReadHeadsCases
<1> QED BY <1>2, <1>3, <1>4, <1>5, <1>6 DEF Looping

LEMMA StepWork ==
  ASSUME WorkInv, [Next]_vars
  PROVE  WorkInv'
<1>1. TypesInv /\ TypesInv' /\ \A s \in Relays : BusyPublishing(s)
  BY StepTypes DEF WorkInv
<1>2. CASE UNCHANGED <<task, relay>>
  BY <1>1, <1>2 DEF WorkInv, BusyPublishing, Busy
<1>3. CASE Tick
  <2>1. UNCHANGED task
    BY <1>3 DEF Tick
  <2> QED BY <1>1, <1>3, <2>1, TickMoves DEF WorkInv, BusyPublishing, Busy
<1>4. ASSUME NEW r \in Relays, NEW e \in Events, task[r][e].pc # "none", UNCHANGED relay,
             \/ Finish(r, e)
             \/ \E p \in {"mark", "retry", "park"} : task' = [task EXCEPT ![r][e].pc = p]
      PROVE  WorkInv'
  <2>1. \A s \in Relays : Busy(s)' \subseteq Busy(s)
    BY <1>1, <1>4, TaskMoves DEF Busy
  <2> QED BY <1>1, <1>4, <2>1 DEF WorkInv, BusyPublishing
<1>5. CASE \E r \in Relays, c \in Channels : Land(r, c)
  BY <1>1, <1>2, <1>4, <1>5, LandMoves
<1>6. CASE \E r \in Relays, e \in Events : Publishing(r, e)
  BY <1>1, <1>4, <1>6, PublishingMoves
<1> QED
  BY <1>1, <1>2, <1>3, <1>5, <1>6, LoopWork
  DEF Next, vars, Insert, DelayEnds, Lose, WorkInv
-----------------------------------------------------------------------------
(* The election *)

\* A relay that is past the election of its round has the lease while its term
\* lasts, with the time left that the round cannot have used up.
Holding(r) ==
  relay[r].pc \in {"heads", "publish"} /\ InTerm(r) =>
    /\ lease.owner = r
    /\ lease.left >= LeaseDuration - MaxSkew - relay[r].round

\* The round begins with the call that takes the lease.
Electing(r) == relay[r].pc = "acquire" => relay[r].round = relay[r].age

ElectionInv == WorkInv /\ \A r \in Relays : Holding(r) /\ Electing(r)

LEMMA InitElection == Init => ElectionInv
  BY InitWork DEF Init, Begin, ElectionInv, Holding, Electing

\* A step of r alone: the lease may change only while no other relay counts on
\* it.
LEMMA RelayElection ==
  ASSUME ElectionInv, WorkInv', NEW r \in Relays,
         \A s \in Relays : s # r => relay'[s] = relay[s],
         Holding(r)', Electing(r)',
         \/ UNCHANGED lease
         \/ \A s \in Relays : s # r => ~(relay[s].pc \in {"heads", "publish"} /\ InTerm(s))
  PROVE  ElectionInv'
<1>1. ASSUME NEW s \in Relays, s # r
      PROVE  Holding(s)' /\ Electing(s)'
  BY <1>1 DEF ElectionInv, Holding, Electing, InTerm
<1> QED BY <1>1 DEF ElectionInv

\* While another relay counts on the lease it is not to be had, by any clock.
LEMMA NotFree ==
  ASSUME ElectionInv, NEW r \in Relays, NEW s \in Relays, r # s, NEW off \in Clock,
         relay[s].pc \in {"heads", "publish"}, InTerm(s)
  PROVE  lease.owner # r /\ ~Free(r, off)
<1>1. lease.owner = s /\ lease.left >= LeaseDuration - MaxSkew - relay[s].round
  BY DEF ElectionInv, Holding
<1>2. relay[s].round \in Nat /\ relay[r].age \in Nat /\ lease.left \in Int
  BY RelayFacts DEF ElectionInv, WorkInv
<1>3. off \in Int /\ off <= MaxSkew
  BY TimesAssumption DEF Clock
<1> QED BY <1>1, <1>2, <1>3, TimesAssumption DEF Free, InTerm

\* Beside its owner nobody counts on the lease.
LEMMA OwnerAlone ==
  ASSUME ElectionInv, NEW r \in Relays, lease.owner = r
  PROVE  \A s \in Relays : s # r => ~(relay[s].pc \in {"heads", "publish"} /\ InTerm(s))
  BY DEF ElectionInv, Holding

LEMMA AcquireElection ==
  ASSUME ElectionInv, WorkInv', NEW r \in Relays, Acquire(r)
  PROVE  ElectionInv'
<1>1. TypesInv /\ relay[r].pc = "acquire"
  BY DEF Acquire, ElectionInv, WorkInv
<1>2. CASE Begins(r, "wait") /\ UNCHANGED lease
  BY <1>1, <1>2, Moves, RelayElection DEF Holding, Electing
<1>3. ASSUME NEW off \in Clock, Free(r, off), lease' = Taken(r, off),
             NEW p \in {"wait", "heads"}, Begins(r, p) \/ GoOn(r, p),
             p = "heads" => GoOn(r, p)
      PROVE  ElectionInv'
  <2>1. /\ relay'[r].pc = p /\ (p = "heads" => relay'[r].round = relay[r].round)
        /\ \A s \in Relays : s # r => relay'[s] = relay[s]
    BY <1>1, <1>3, Moves
  <2>2. relay[r].round = relay[r].age /\ relay[r].age \in Nat
    BY <1>1, RelayFacts DEF ElectionInv, Electing
  <2>3. off \in Int /\ 0 - MaxSkew <= off
    BY TimesAssumption DEF Clock
  <2>4. Holding(r)' /\ Electing(r)'
    BY <1>3, <2>1, <2>2, <2>3, TimesAssumption DEF Holding, Electing, Taken
  <2> QED BY <1>3, <2>1, <2>4, NotFree, RelayElection
<1> QED BY <1>2, <1>3 DEF Acquire

LEMMA LoopElection ==
  ASSUME ElectionInv, WorkInv', NEW r \in Relays,
         \/ Wake(r) \/ RoundEnds(r) \/ CallFails(r) \/ ReadHeads(r) \/ Stop(r)
         \/ Start(r) \/ Release(r) \/ Crash(r)
  PROVE  ElectionInv'
<1>1. TypesInv /\ Holding(r) /\ Electing(r)
  BY DEF ElectionInv, WorkInv
<1>2. CASE Wake(r) \/ RoundEnds(r) \/ CallFails(r)
  <2>1. \/ UNCHANGED lease
        \/ \A s \in Relays : s # r => ~(relay[s].pc \in {"heads", "publish"} /\ InTerm(s))
    BY <1>2, NotFree DEF Wake, RoundEnds, CallFails
  <2>2. PICK p \in {"wait", "acquire"} : Begins(r, p)
    BY <1>2 DEF Wake, RoundEnds, CallFails
  <2> QED BY <1>1, <2>1, <2>2, Moves, RelayElection DEF Holding, Electing
<1>3. CASE ReadHeads(r)
  <2>1. relay[r].pc = "heads" /\ UNCHANGED lease
    BY <1>3 DEF ReadHeads
  <2>2. Begins(r, "wait") \/ GoOn(r, "publish")
    BY <1>3, ReadHeadsCases DEF Published
  <2>3. CASE Begins(r, "wait")
    BY <1>1, <2>1, <2>3, Moves, RelayElection DEF Holding, Electing
  <2>4. CASE GoOn(r, "publish")
    BY <1>1, <2>1, <2>4, Moves, RelayElection DEF Holding, Electing, InTerm
  <2> QED BY <2>2, <2>3, <2>4
<1>4. CASE Stop(r)
  <2>1. UNCHANGED lease
    BY <1>4 DEF Stop
  <2> QED BY <1>1, <1>4, <2>1, StopMoves, RelayElection DEF Holding, Electing, InTerm
<1>5. CASE Start(r) \/ Release(r) \/ Crash(r)
  <2>1. \/ UNCHANGED lease
        \/ \A s \in Relays : s # r => ~(relay[s].pc \in {"heads", "publish"} /\ InTerm(s))
    BY <1>5, OwnerAlone DEF Start, Release, Crash, Orphaned
  <2> QED BY <1>1, <1>5, <2>1, LifeMoves, RelayElection DEF Holding, Electing
<1> QED BY <1>2, <1>3, <1>4, <1>5

LEMMA TickElection ==
  ASSUME ElectionInv, WorkInv', Tick
  PROVE  ElectionInv'
<1>1. lease.left \in Int /\ lease'.owner = lease.owner /\ lease'.left >= lease.left - 1
      /\ lease'.left \in Int
  <2>1. TypesInv /\ lease \in Lease
    BY DEF ElectionInv, WorkInv, TypesInv, TypeOK
  <2>2. lease.left \in Int
    BY <2>1, TimesAssumption DEF Lease, RunOut
  <2>3. PICK n \in {lease.left, lease.left - 1} : lease' = [lease EXCEPT !.left = n]
    BY <2>1 DEF Tick
  <2> QED BY <2>1, <2>2, <2>3 DEF Lease
<1>2. ASSUME NEW r \in Relays
      PROVE  Holding(r)' /\ Electing(r)'
  <2>1. TypesInv /\ relay[r].age \in Nat /\ relay[r].round \in Nat /\ Holding(r) /\ Electing(r)
    BY RelayFacts DEF ElectionInv, WorkInv
  <2>2. CASE relay'[r] = relay[r] /\ relay[r].pc \notin {"acquire", "heads", "publish"}
    BY <2>2 DEF Holding, Electing
  <2>3. CASE /\ relay'[r].age = relay[r].age + 1 /\ relay'[r].round = relay[r].round + 1
             /\ relay'[r].pc = relay[r].pc
    BY <1>1, <2>1, <2>3, TimesAssumption DEF Holding, Electing, InTerm
  <2> QED BY <2>1, <2>2, <2>3, TickMoves
<1> QED BY <1>2 DEF ElectionInv
-----------------------------------------------------------------------------
LEMMA StepElection ==
  ASSUME ElectionInv, [Next]_vars
  PROVE  ElectionInv'
<1>1. TypesInv /\ WorkInv'
  BY StepWork DEF ElectionInv, WorkInv
<1>2. CASE UNCHANGED <<lease, relay>>
  BY <1>1, <1>2 DEF ElectionInv, Holding, Electing, InTerm
<1>3. CASE \E r \in Relays, e \in Events : Publishing(r, e)
  BY <1>1, <1>2, <1>3, PublishingMoves
<1> QED
  BY <1>1, <1>2, <1>3, TickElection, AcquireElection, LoopElection
  DEF Next, vars, Looping, Insert, DelayEnds, Land, Lose

\* Two relays have goroutines at work at once only if the round of one has
\* outlasted its lease, however many relays there are, wherever they crash and
\* whenever they stop, each by a clock of its own that is off by MaxSkew at most
\* (internal/outbox/relay.go:39-111, internal/outbox/repository.go:47-77).
THEOREM OneLeader == Spec => []OneLeaderInTerm
<1>1. ElectionInv /\ [Next]_vars => ElectionInv'
  BY StepElection
<1>2. ElectionInv => OneLeaderInTerm
  BY DEF ElectionInv, WorkInv, Holding, BusyPublishing, OneLeaderInTerm
<1> QED BY <1>1, <1>2, InitElection, PTL DEF Spec
-----------------------------------------------------------------------------
(* What the publishes are spent on *)

\* The relays that have published an event and not yet written what became of it.
Working(e) == {r \in Relays : task[r][e].pc # "none"}

\* Those that would count an attempt if their publish failed, those whose
\* context still lets them, and those that are about to publish when it does not.
Early(e) == {r \in Working(e) : ~LastTry(task[r][e].attempts)}
Live(e)  == {r \in Working(e) : ~relay[r].stop}
Prepaid  == {r \in Relays : relay[r].pc = "heads" /\ relay[r].stop}

\* A row without a verdict.
Unsettled(x) == x.status \in {"absent", "pending"}

\* The faults there have been.
Used == MaxFaults - faults

\* The publishes of an event that are not among its attempts: one per fault, and
\* those under way.  A stop is a fault paid in advance, for the publish whose
\* answer or whose write it cancels.  Once the last attempt is reached only the
\* relays that read the row before can count further ones.  The bound on an
\* event that is published or parked is what is left of this when it is.
Counted(e) ==
  /\ Unsettled(row[e]) =>
       /\ LastTry(row[e].attempts) =>
            row[e].attempts + Cardinality(Early(e))
              <= MaxPublishAttempts + Cardinality(Relays) - 2
       /\ tries[e] + Cardinality(Prepaid)
            <= row[e].attempts + Used + Cardinality(Live(e))
  /\ ~Unsettled(row[e]) =>
       tries[e] <= MaxPublishAttempts + Used + 2 * (Cardinality(Relays) - 1)
  /\ row[e].status = "absent" => Working(e) = {}
  /\ \A r \in Relays : task[r][e].pc = "retry" => ~LastTry(task[r][e].attempts)

CountInv == WorkInv /\ \A e \in Events : Counted(e)

One(b) == IF b THEN 1 ELSE 0
-----------------------------------------------------------------------------
(* Counting relays *)

LEMMA CountRelays ==
  ASSUME NEW S \in SUBSET Relays
  PROVE  /\ Cardinality(S) \in Nat /\ Cardinality(Relays) \in Nat \ {0}
         /\ Cardinality(S) <= Cardinality(Relays)
<1>1. IsFiniteSet(Relays) /\ Relays # {}
  BY RelaysAssumption
<1>2. Cardinality(S) <= Cardinality(Relays) /\ IsFiniteSet(S)
  BY <1>1, FS_Subset
<1>3. Cardinality(S) \in Nat /\ Cardinality(Relays) \in Nat
  BY <1>1, <1>2, FS_CardinalityType
<1>4. Cardinality(Relays) # 0
  BY <1>1, FS_EmptySet
<1> QED BY <1>2, <1>3, <1>4

LEMMA CountBut ==
  ASSUME NEW S \in SUBSET Relays, NEW r \in Relays
  PROVE  /\ Cardinality(S) = Cardinality(S \ {r}) + One(r \in S)
         /\ Cardinality(S \ {r}) \in Nat
         /\ Cardinality(S \ {r}) <= Cardinality(Relays) - 1
<1>1. IsFiniteSet(Relays) /\ IsFiniteSet(S)
  BY RelaysAssumption, FS_Subset
<1>2. IsFiniteSet(Relays \ {r}) /\ S \ {r} \subseteq Relays \ {r}
  BY <1>1, FS_Subset
<1>3. Cardinality(S \ {r}) <= Cardinality(Relays \ {r})
  BY <1>2, FS_Subset
<1>4. /\ Cardinality(Relays \ {r}) = Cardinality(Relays) - 1
      /\ Cardinality(S \ {r}) = IF r \in S THEN Cardinality(S) - 1 ELSE Cardinality(S)
  BY <1>1, FS_RemoveElement
<1>5. /\ Cardinality(S \ {r}) \in Nat /\ Cardinality(S) \in Nat
      /\ Cardinality(Relays) \in Nat
  BY CountRelays
<1> QED BY <1>3, <1>4, <1>5 DEF One

\* Two sets that differ in one relay at most.
LEMMA CountBoth ==
  ASSUME NEW S \in SUBSET Relays, NEW T \in SUBSET Relays, NEW r \in Relays,
         S \ {r} = T \ {r}
  PROVE  \E n \in Nat : /\ n <= Cardinality(Relays) - 1
                        /\ Cardinality(S) = n + One(r \in S)
                        /\ Cardinality(T) = n + One(r \in T)
<1>1. /\ Cardinality(S) = Cardinality(S \ {r}) + One(r \in S)
      /\ Cardinality(T) = Cardinality(T \ {r}) + One(r \in T)
      /\ Cardinality(S \ {r}) \in Nat
      /\ Cardinality(S \ {r}) <= Cardinality(Relays) - 1
  BY CountBut
<1> QED BY <1>1

LEMMA CountTypes ==
  ASSUME WorkInv, NEW e \in Events
  PROVE  /\ row[e] \in Row /\ row[e].attempts \in Nat /\ tries[e] \in Nat
         /\ faults \in Nat /\ MaxFaults \in Nat /\ Used \in Int
         /\ MaxPublishAttempts \in Nat \ {0}
         /\ Early(e) \in SUBSET Relays /\ Live(e) \in SUBSET Relays
         /\ Prepaid \in SUBSET Relays
<1>1. /\ row[e] \in Row /\ row[e].attempts \in Nat /\ tries[e] \in Nat
      /\ faults \in Nat /\ MaxFaults \in Nat /\ MaxPublishAttempts \in Nat \ {0}
  BY LimitsAssumption DEF WorkInv, TypesInv, TypeOK, Row
<1> QED BY <1>1 DEF Used, Early, Live, Prepaid, Working

\* What the count comes to, wherever an event is.
LEMMA TriesWithin ==
  ASSUME WorkInv, NEW e \in Events, Counted(e)
  PROVE  tries[e] <= MaxPublishAttempts + Used + 2 * (Cardinality(Relays) - 1)
<1> DEFINE n == Cardinality(Relays)
           early == Cardinality(Early(e))
           live == Cardinality(Live(e))
           paid == Cardinality(Prepaid)
<1>1. /\ row[e].attempts \in Nat /\ tries[e] \in Nat /\ Used \in Int
      /\ MaxPublishAttempts \in Nat \ {0}
  BY CountTypes
<1>2. n \in Nat \ {0} /\ early \in Nat /\ live \in Nat /\ paid \in Nat /\ live <= n
  BY CountTypes, CountRelays
<1>3. CASE Unsettled(row[e])
  <2>1. /\ LastTry(row[e].attempts) => row[e].attempts + early <= MaxPublishAttempts + n - 2
        /\ tries[e] + paid <= row[e].attempts + Used + live
    BY <1>3 DEF Counted
  <2> HIDE DEF n, early, live, paid
  <2>2. row[e].attempts <= MaxPublishAttempts + n - 2
    BY <1>1, <1>2, <2>1 DEF LastTry
  <2>3. tries[e] <= MaxPublishAttempts + Used + 2 * (n - 1)
    BY <1>1, <1>2, <2>1, <2>2
  <2> QED BY <2>3 DEF n
<1> QED BY <1>3 DEF Counted
-----------------------------------------------------------------------------
(* Steps that change the count by one relay *)

\* The relays other than r are what they were to the event.
OthersStay(r, e) ==
  \A s \in Relays : s # r => task'[s][e] = task[s][e] /\ relay'[s] = relay[s]

LEMMA OthersCount ==
  ASSUME NEW r \in Relays, NEW e \in Events, OthersStay(r, e)
  PROVE  /\ Early(e)' \ {r} = Early(e) \ {r}
         /\ Live(e)' \ {r} = Live(e) \ {r}
         /\ Prepaid' \ {r} = Prepaid \ {r}
  BY DEF OthersStay, Early, Live, Prepaid, Working, LastTry

\* An event that stays without a verdict: on the one side a publish or a stop
\* more, on the other an attempt, a fault or a goroutine more.
LEMMA Recount ==
  ASSUME CountInv, WorkInv', NEW r \in Relays, NEW e \in Events, OthersStay(r, e),
         Unsettled(row[e]), Unsettled(row'[e]),
         LastTry(row[e].attempts)' =>
           \/ /\ LastTry(row[e].attempts)
              /\ row'[e].attempts + One(r \in Early(e)') <=
                   row[e].attempts + One(r \in Early(e))
           \/ /\ ~LastTry(row[e].attempts) /\ r \notin Early(e)'
              /\ row'[e].attempts = row[e].attempts + 1,
         tries'[e] + One(r \in Prepaid') + row[e].attempts + Used + One(r \in Live(e))
           <= tries[e] + One(r \in Prepaid) + row'[e].attempts + Used' + One(r \in Live(e)'),
         row'[e].status = "absent" => Working(e)' = {},
         \A s \in Relays : task'[s][e].pc = "retry" => ~LastTry(task'[s][e].attempts)
  PROVE  Counted(e)'
<1> DEFINE a == row[e].attempts
           b == row'[e].attempts
<1>1. /\ a \in Nat /\ tries[e] \in Nat
      /\ Used \in Int /\ MaxPublishAttempts \in Nat \ {0}
      /\ Early(e) \in SUBSET Relays /\ Live(e) \in SUBSET Relays /\ Prepaid \in SUBSET Relays
  BY CountTypes DEF CountInv
<1>2. /\ tries'[e] \in Nat /\ b \in Nat /\ Used' \in Int
      /\ Early(e)' \in SUBSET Relays /\ Live(e)' \in SUBSET Relays
      /\ Prepaid' \in SUBSET Relays
  <2>1. tries'[e] \in Nat /\ b \in Nat /\ faults' \in Nat /\ MaxFaults \in Nat
    BY LimitsAssumption DEF WorkInv, TypesInv, TypeOK, Row
  <2> QED BY <2>1 DEF Used, Early, Live, Prepaid, Working
<1>3. Cardinality(Relays) \in Nat \ {0}
  BY <1>1, CountRelays
<1>4. PICK n \in Nat : /\ n <= Cardinality(Relays) - 1
                       /\ Cardinality(Early(e)) = n + One(r \in Early(e))
                       /\ Cardinality(Early(e)') = n + One(r \in Early(e)')
  BY <1>1, <1>2, OthersCount, CountBoth
<1>5. PICK l \in Nat : /\ Cardinality(Live(e)) = l + One(r \in Live(e))
                       /\ Cardinality(Live(e)') = l + One(r \in Live(e)')
  BY <1>1, <1>2, OthersCount, CountBoth
<1>6. PICK p \in Nat : /\ Cardinality(Prepaid) = p + One(r \in Prepaid)
                       /\ Cardinality(Prepaid') = p + One(r \in Prepaid')
  BY <1>1, <1>2, OthersCount, CountBoth
<1>7. /\ LastTry(a) => a + Cardinality(Early(e)) <= MaxPublishAttempts + Cardinality(Relays) - 2
      /\ tries[e] + Cardinality(Prepaid) <= a + Used + Cardinality(Live(e))
  BY DEF CountInv, Counted
<1>8. LastTry(b) => b + Cardinality(Early(e)') <= MaxPublishAttempts + Cardinality(Relays) - 2
  BY <1>1, <1>2, <1>3, <1>4, <1>7 DEF LastTry, One
<1>9. tries'[e] + Cardinality(Prepaid') <= b + Used' + Cardinality(Live(e)')
  BY <1>1, <1>2, <1>5, <1>6, <1>7 DEF One
<1> QED BY <1>8, <1>9 DEF Counted, LastTry

\* An event that gets neither an attempt, nor a verdict, nor a publish: its
\* goroutine ends without a word only where a fault is or was to blame for it.
LEMMA SameCounted ==
  ASSUME CountInv, WorkInv', NEW r \in Relays, NEW e \in Events, OthersStay(r, e),
         tries'[e] = tries[e], row'[e].attempts = row[e].attempts,
         Unsettled(row'[e]) <=> Unsettled(row[e]),
         row'[e].status = "absent" => row[e].status = "absent",
         \/ task'[r][e].pc = "none"
         \/ /\ task[r][e].pc # "none"
            /\ task'[r][e].attempts = task[r][e].attempts
            /\ task'[r][e].pc = "retry" =>
                 task[r][e].pc = "retry" \/ ~LastTry(task[r][e].attempts),
         \/ /\ faults' = faults - 1
            /\ r \in Prepaid' => task[r][e].pc = "none"
         \/ /\ faults' = faults
            /\ r \in Prepaid' => r \in Prepaid
            /\ r \in Live(e) => r \in Live(e)'
  PROVE  Counted(e)'
<1>1. /\ row[e].attempts \in Nat /\ tries[e] \in Nat /\ faults \in Nat /\ MaxFaults \in Nat
      /\ MaxPublishAttempts \in Nat \ {0} /\ Counted(e)
  BY CountTypes DEF CountInv
<1>2. Early(e)' \subseteq Early(e) /\ Working(e)' \subseteq Working(e)
  BY DEF OthersStay, Early, Working, LastTry
<1>3. row'[e].status = "absent" => Working(e)' = {}
  BY <1>1, <1>2 DEF Counted
<1>4. \A s \in Relays : task'[s][e].pc = "retry" => ~LastTry(task'[s][e].attempts)
  BY <1>1 DEF Counted, OthersStay
<1>5. faults' \in {faults, faults - 1} /\ Used \in Int /\ Used' \in Int /\ Used' >= Used
      /\ (faults' = faults - 1 => Used' = Used + 1)
  BY <1>1 DEF Used
<1>6. CASE Unsettled(row[e])
  <2>1. LastTry(row[e].attempts)' =>
          /\ LastTry(row[e].attempts)
          /\ row'[e].attempts + One(r \in Early(e)') <= row[e].attempts + One(r \in Early(e))
    <3>1. LastTry(row[e].attempts)' <=> LastTry(row[e].attempts)
      BY DEF LastTry
    <3>2. One(r \in Early(e)') <= One(r \in Early(e))
      BY <1>2 DEF One
    <3>3. One(r \in Early(e)') \in Nat /\ One(r \in Early(e)) \in Nat
      BY DEF One
    <3> QED BY <1>1, <3>1, <3>2, <3>3
  <2>2. One(r \in Prepaid') + Used + One(r \in Live(e))
          <= One(r \in Prepaid) + Used' + One(r \in Live(e)')
    <3>1. CASE faults' = faults - 1 /\ (r \in Prepaid' => task[r][e].pc = "none")
      <4>1. r \in Prepaid' => r \notin Live(e)
        BY <3>1 DEF Live, Working
      <4> QED BY <1>5, <3>1, <4>1 DEF One
    <3>2. CASE /\ faults' = faults
               /\ r \in Prepaid' => r \in Prepaid
               /\ r \in Live(e) => r \in Live(e)'
      BY <1>5, <3>2 DEF One
    <3> QED BY <3>1, <3>2
  <2>3. /\ One(r \in Prepaid') \in Nat /\ One(r \in Live(e)) \in Nat
        /\ One(r \in Prepaid) \in Nat /\ One(r \in Live(e)') \in Nat
    BY DEF One
  <2>4. tries'[e] + One(r \in Prepaid') + row[e].attempts + Used + One(r \in Live(e))
          <= tries[e] + One(r \in Prepaid) + row'[e].attempts + Used' + One(r \in Live(e)')
    BY <1>1, <1>5, <2>2, <2>3
  <2> QED BY <1>3, <1>4, <1>6, <2>1, <2>4, Recount
<1>7. CASE ~Unsettled(row[e])
  <2>1. tries'[e] <= MaxPublishAttempts + Used' + 2 * (Cardinality(Relays) - 1)
    <3>1. Cardinality(Relays) \in Nat
      BY CountTypes, CountRelays DEF CountInv
    <3> QED BY <1>1, <1>5, <1>7, <3>1 DEF Counted
  <2> QED BY <1>3, <1>4, <1>7, <2>1 DEF Counted
<1> QED BY <1>6, <1>7

\* A step in which no relay moves nor any goroutine.
LEMMA StillCounted ==
  ASSUME CountInv, WorkInv', NEW e \in Events, UNCHANGED <<task, faults>>,
         tries'[e] = tries[e], row'[e].attempts = row[e].attempts,
         Unsettled(row'[e]) <=> Unsettled(row[e]),
         row'[e].status = "absent" => row[e].status = "absent",
         \A r \in Relays : relay'[r].pc = relay[r].pc /\ relay'[r].stop = relay[r].stop
  PROVE  Counted(e)'
<1>1. /\ Early(e)' = Early(e) /\ Live(e)' = Live(e) /\ Prepaid' = Prepaid
      /\ Working(e)' = Working(e)
  BY DEF Early, Live, Prepaid, Working, LastTry
<1>2. Counted(e) /\ Used' = Used
  BY DEF CountInv, Used
<1> QED BY <1>1, <1>2 DEF Counted, LastTry
-----------------------------------------------------------------------------
LEMMA InitCounted == Init => CountInv
<1> SUFFICES ASSUME Init PROVE CountInv
  OBVIOUS
<1>1. WorkInv /\ faults = MaxFaults /\ MaxFaults \in Nat
  BY InitWork, LimitsAssumption DEF Init
<1>2. ASSUME NEW e \in Events PROVE Counted(e)
  <2>1. row[e].status = "absent" /\ row[e].attempts = 0 /\ tries[e] = 0
    BY DEF Init
  <2>2. \A r \in Relays : task[r][e].pc = "none" /\ relay[r].pc = "down"
    BY DEF Init, NoTask, Begin
  <2>3. Working(e) = {} /\ Early(e) = {} /\ Live(e) = {} /\ Prepaid = {}
    BY <2>2 DEF Working, Early, Live, Prepaid
  <2>4. Cardinality({}) = 0 /\ Cardinality(Relays) \in Nat \ {0}
    BY <2>3, FS_EmptySet, CountRelays
  <2>5. MaxPublishAttempts \in Nat \ {0}
    BY LimitsAssumption
  <2>6. LastTry(0) => 0 + 0 <= MaxPublishAttempts + Cardinality(Relays) - 2
    BY <2>4, <2>5
  <2>7. 0 + 0 <= 0 + Used + 0
    BY <1>1 DEF Used
  <2> QED BY <2>1, <2>2, <2>3, <2>4, <2>6, <2>7 DEF Counted, Unsettled
<1> QED BY <1>1, <1>2 DEF CountInv

\* The events themselves, as they come in and become due again, and the clock.
LEMMA OutboxCounted ==
  ASSUME CountInv, WorkInv', NEW f \in Events,
         Tick \/ \E e \in Events : Insert(e) \/ DelayEnds(e)
  PROVE  Counted(f)'
<1>1. /\ row \in [Events -> Row] /\ row[f] \in Row /\ TypesInv
      /\ UNCHANGED <<task, tries, faults>>
  BY DEF CountInv, WorkInv, TypesInv, TypeOK, Insert, DelayEnds, Tick
<1>2. CASE Tick
  <2>1. UNCHANGED row
    BY <1>2 DEF Tick
  <2> QED BY <1>1, <1>2, <2>1, TickMoves, StillCounted
<1>3. ASSUME NEW e \in Events, Insert(e) \/ DelayEnds(e)
      PROVE  Counted(f)'
  <2>1. UNCHANGED relay
    BY <1>3 DEF Insert, DelayEnds
  <2>2. /\ row'[f].attempts = row[f].attempts
        /\ Unsettled(row'[f]) <=> Unsettled(row[f])
        /\ row'[f].status = "absent" => row[f].status = "absent"
    <3>1. CASE f # e
      BY <1>1, <1>3, <3>1 DEF Insert, DelayEnds
    <3>2. CASE f = e /\ Insert(e)
      BY <1>1, <3>2 DEF Insert, Row, Unsettled
    <3>3. CASE f = e /\ DelayEnds(e)
      BY <1>1, <3>3 DEF DelayEnds, Row, Unsettled
    <3> QED BY <1>3, <3>1, <3>2, <3>3
  <2> QED BY <1>1, <2>1, <2>2, StillCounted
<1> QED BY <1>2, <1>3

\* Steps of the loop in which nothing is published, and the end of a process.
LEMMA LoopCounted ==
  ASSUME CountInv, WorkInv', NEW r \in Relays, NEW f \in Events,
         \/ Start(r) \/ Wake(r) \/ Acquire(r) \/ RoundEnds(r) \/ Release(r)
         \/ CallFails(r) \/ Stop(r) \/ Crash(r)
  PROVE  Counted(f)'
<1>1. /\ TypesInv /\ BusyPublishing(r) /\ faults \in Nat /\ faults' \in Nat
      /\ task \in [Relays -> [Events -> Task]] /\ relay[r] \in Relay
  BY DEF CountInv, WorkInv, TypesInv, TypeOK
<1>2. UNCHANGED <<row, tries>>
  BY DEF Start, Wake, Acquire, RoundEnds, Release, CallFails, Stop, Crash
<1>3. r \in Working(f) => relay[r].pc = "publish" /\ f \in Busy(r)
  BY <1>1 DEF Working, BusyPublishing, Busy
<1>4. CASE Stop(r)
  <2>1. UNCHANGED task /\ faults' = faults - 1
    BY <1>4 DEF Stop
  <2>2. r \in Prepaid' => task[r][f].pc = "none"
    BY <1>1, <1>3, <1>4, StopMoves DEF Prepaid, Working
  <2> QED BY <1>1, <1>2, <1>4, <2>1, <2>2, StopMoves, SameCounted DEF OthersStay
<1>5. CASE Crash(r)
  <2>1. /\ faults' = faults - 1 /\ task'[r][f].pc = "none"
        /\ \A s \in Relays : s # r => task'[s][f] = task[s][f]
    BY <1>1, <1>5 DEF Crash, NoTask
  <2>2. r \notin Prepaid'
    BY <1>1, <1>5, LifeMoves DEF Prepaid
  <2> QED BY <1>1, <1>2, <1>5, <2>1, <2>2, LifeMoves, SameCounted DEF OthersStay
<1>6. CASE Start(r) \/ Wake(r) \/ Acquire(r) \/ RoundEnds(r) \/ Release(r) \/ CallFails(r)
  <2>1. /\ UNCHANGED task /\ r \notin Working(f)
        /\ faults' = faults \/ faults' = faults - 1
    BY <1>3, <1>6 DEF Start, Wake, Acquire, RoundEnds, Release, CallFails, Failure
  <2>2. r \notin Prepaid' /\ \A s \in Relays : s # r => relay'[s] = relay[s]
    <3>1. CASE Start(r) \/ Release(r)
      BY <1>1, <3>1, LifeMoves DEF Prepaid
    <3>2. CASE Wake(r) \/ Acquire(r) \/ RoundEnds(r) \/ CallFails(r)
      <4>1. PICK p \in {"wait", "acquire", "heads"} :
              (GoOn(r, p) \/ Begins(r, p)) /\ (p = "heads" => ~relay[r].stop)
        BY <3>2 DEF Wake, Acquire, RoundEnds, CallFails
      <4> QED BY <1>1, <4>1, Moves DEF Prepaid
    <3> QED BY <1>6, <3>1, <3>2
  <2>3. r \notin Live(f) /\ task[r][f].pc = "none"
    BY <2>1 DEF Live, Working
  <2> QED BY <1>2, <2>1, <2>2, <2>3, SameCounted DEF OthersStay
<1> QED BY <1>4, <1>5, <1>6

\* Kafka takes a write, or loses it.
LEMMA WriterCounted ==
  ASSUME CountInv, WorkInv', NEW r \in Relays, NEW c \in Channels, NEW f \in Events,
         Land(r, c) \/ Lose(r, c)
  PROVE  Counted(f)'
<1>1. UNCHANGED <<row, relay, tries, faults>> /\ TypesInv
  BY DEF Land, Lose, CountInv, WorkInv
<1>2. CASE UNCHANGED task
  BY <1>1, <1>2, StillCounted
<1>3. ASSUME NEW h \in Events, task[r][h].pc = "publish",
             IF relay[r].stop THEN Finish(r, h) ELSE task' = [task EXCEPT ![r][h].pc = "mark"]
      PROVE  Counted(f)'
  <2>1. \A s \in Relays, g \in Events : <<s, g>> # <<r, h>> => task'[s][g] = task[s][g]
    BY <1>1, <1>3, TaskMoves
  <2>2. CASE f # h
    BY <1>1, <2>1, <2>2, SameCounted DEF OthersStay, Live, Working, Prepaid
  <2>3. CASE f = h
    <3>1. task \in [Relays -> [Events -> Task]] /\ task[r][h] \in Task
      BY <1>1, RelayFacts
    <3>2. \/ relay[r].stop /\ task'[r][h].pc = "none"
          \/ task'[r][h].pc = "mark" /\ task'[r][h].attempts = task[r][h].attempts
      BY <1>3, <3>1 DEF Finish, NoTask, Task
    <3>3. r \in Prepaid' => r \in Prepaid
      BY <1>1 DEF Prepaid
    <3>4. r \in Live(f) => r \in Live(f)'
      BY <1>1, <2>3, <3>2 DEF Live, Working
    <3> QED BY <1>1, <1>3, <2>1, <2>3, <3>2, <3>3, <3>4, SameCounted DEF OthersStay
  <2> QED BY <2>2, <2>3
<1> QED BY <1>1, <1>2, <1>3, LandMoves DEF Lose

\* The batch is published: one more publish of each event in it, on which no
\* goroutine of this relay was at work.
LEMMA ReadHeadsCounted ==
  ASSUME CountInv, WorkInv', NEW r \in Relays, NEW f \in Events, ReadHeads(r)
  PROVE  Counted(f)'
<1>1. /\ task \in [Relays -> [Events -> Task]] /\ tries \in [Events -> Nat]
      /\ UNCHANGED <<row, faults>> /\ TypesInv /\ relay[r].pc = "heads" /\ BusyPublishing(r)
  BY DEF CountInv, WorkInv, TypesInv, TypeOK, ReadHeads
<1>2. r \notin Working(f) /\ task[r][f].pc = "none"
  BY <1>1 DEF Working, BusyPublishing, Busy
<1>3. PICK p \in {"wait", "publish"} : GoOn(r, p) \/ Begins(r, p)
  BY DEF ReadHeads
<1>4. /\ relay'[r].stop = relay[r].stop /\ relay'[r].pc # "heads"
      /\ \A s \in Relays : s # r => relay'[s] = relay[s]
  BY <1>1, <1>3, Moves
<1>5. r \notin Prepaid' /\ r \notin Live(f)
  BY <1>2, <1>4 DEF Prepaid, Live
<1>6. CASE UNCHANGED <<task, tries>>
  BY <1>1, <1>2, <1>4, <1>5, <1>6, SameCounted DEF OthersStay
<1>7. ASSUME NEW due \in SeenDue, Published(r, Batch(due))
      PROVE  Counted(f)'
  <2> DEFINE batch == Batch(due)
  <2>1. batch \subseteq Heads
    BY DEF Batch, Oldest
  <2> HIDE DEF batch
  <2>2. Published(r, batch)
    BY <1>7 DEF batch
  <2>3. \A s \in Relays : s # r => task'[s] = task[s]
    BY <1>1, <2>2 DEF Published
  <2>4. OthersStay(r, f)
    BY <1>4, <2>3 DEF OthersStay
  <2>5. CASE f \notin batch
    <3>1. tries'[f] = tries[f] /\ task'[r][f].pc = "none"
      BY <1>1, <2>2, <2>5 DEF Published, NoTask
    <3> QED BY <1>1, <1>5, <2>4, <3>1, SameCounted
  <2>6. CASE f \in batch
    <3>1. /\ tries'[f] = tries[f] + 1
          /\ task'[r][f] = [pc |-> "publish", attempts |-> row[f].attempts]
      BY <1>1, <2>2, <2>6 DEF Published
    <3>2. row[f].status = "pending" /\ Unsettled(row[f]) /\ Counted(f)
      BY <2>1, <2>6 DEF Heads, Pending, Unsettled, CountInv
    <3>3. /\ row[f].attempts \in Nat /\ tries[f] \in Nat /\ Used \in Int /\ Used' = Used
      BY <1>1, CountTypes DEF CountInv, Used
    <3>4. LastTry(row[f].attempts)' =>
            /\ LastTry(row[f].attempts)
            /\ row'[f].attempts + One(r \in Early(f)') <= row[f].attempts + One(r \in Early(f))
      <4>1. LastTry(row[f].attempts)' <=> LastTry(row[f].attempts)
        BY <1>1 DEF LastTry
      <4>2. LastTry(row[f].attempts) => r \notin Early(f)'
        BY <3>1 DEF Early, LastTry
      <4> QED BY <1>1, <3>3, <4>1, <4>2 DEF One
    <3>5. One(r \in Prepaid') = 0 /\ One(r \in Live(f)) = 0
      BY <1>5 DEF One
    <3>6. One(r \in Prepaid) + One(r \in Live(f)') = 1
      BY <1>1, <1>4, <3>1 DEF One, Prepaid, Live, Working
    <3>7. One(r \in Prepaid) \in Nat /\ One(r \in Live(f)') \in Nat
      BY DEF One
    <3>8. tries'[f] + One(r \in Prepaid') + row[f].attempts + Used + One(r \in Live(f))
            <= tries[f] + One(r \in Prepaid) + row'[f].attempts + Used' + One(r \in Live(f)')
      BY <1>1, <3>1, <3>3, <3>5, <3>6, <3>7
    <3>9. /\ row'[f].status # "absent" /\ Unsettled(row'[f])
          /\ \A s \in Relays : task'[s][f].pc = "retry" => ~LastTry(task'[s][f].attempts)
      BY <1>1, <2>3, <3>1, <3>2 DEF Counted
    <3> QED BY <2>4, <3>2, <3>4, <3>8, <3>9, Recount
  <2> QED BY <2>5, <2>6
<1> QED BY <1>6, <1>7, ReadHeadsCases

\* A publish that failed, and a write that fails: in either the goroutine ends
\* because its context is cancelled, or because of a fault.
LEMMA FailingCounted ==
  ASSUME CountInv, WorkInv', NEW r \in Relays, NEW e \in Events, NEW f \in Events,
         PublishFails(r, e) \/ WriteFails(r, e)
  PROVE  Counted(f)'
<1>1. /\ task \in [Relays -> [Events -> Task]] /\ task[r][e] \in Task /\ TypesInv
      /\ BusyPublishing(r) /\ UNCHANGED <<row, relay, tries>> /\ Publishing(r, e)
  BY DEF CountInv, WorkInv, TypesInv, TypeOK, PublishFails, WriteFails, Publishing
<1>2. /\ task[r][e].pc # "none" /\ relay[r].pc = "publish"
      /\ \A s \in Relays, g \in Events : <<s, g>> # <<r, e>> => task'[s][g] = task[s][g]
  <2>1. task[r][e].pc # "none"
    BY <1>1, PublishingMoves
  <2> QED BY <1>1, <2>1, PublishingMoves, TaskMoves DEF BusyPublishing, Busy
<1>3. \/ /\ task'[r][e] = NoTask
         /\ (relay[r].stop /\ faults' = faults) \/ faults' = faults - 1
      \/ /\ task'[r][e].attempts = task[r][e].attempts /\ faults' = faults
         /\ task'[r][e].pc \in {"retry", "park"}
         /\ task'[r][e].pc = "retry" => ~LastTry(task[r][e].attempts)
  <2>1. CASE PublishFails(r, e)
    BY <1>1, <2>1 DEF PublishFails, Finish, Task
  <2>2. CASE WriteFails(r, e)
    BY <1>1, <2>2 DEF WriteFails, Failure, Finish
  <2> QED BY <2>1, <2>2
<1>4. r \notin Prepaid' /\ OthersStay(r, f)
  BY <1>1, <1>2 DEF Prepaid, OthersStay
<1>5. CASE f # e
  <2>1. task'[r][f] = task[r][f] /\ (r \in Live(f) => r \in Live(f)')
    BY <1>1, <1>2, <1>5 DEF Live, Working
  <2> QED BY <1>1, <1>3, <1>4, <2>1, SameCounted
<1>6. CASE f = e
  <2>1. CASE task'[r][e] = NoTask
    <3>1. relay[r].stop => r \notin Live(f)
      BY DEF Live
    <3> QED BY <1>1, <1>3, <1>4, <1>6, <2>1, <3>1, SameCounted DEF NoTask
  <2>2. CASE task'[r][e] # NoTask
    <3>1. r \in Live(f) => r \in Live(f)'
      BY <1>1, <1>3, <1>6, <2>2 DEF Live, Working
    <3> QED BY <1>1, <1>2, <1>3, <1>4, <1>6, <2>2, <3>1, SameCounted
  <2> QED BY <2>1, <2>2
<1> QED BY <1>5, <1>6

\* The three writes that end a publish: an attempt more, or a verdict.
LEMMA WriteCounted ==
  ASSUME CountInv, WorkInv', NEW r \in Relays, NEW e \in Events, NEW f \in Events,
         MarkPublished(r, e) \/ ScheduleRetry(r, e) \/ MarkFailed(r, e)
  PROVE  Counted(f)'
<1>1. /\ task \in [Relays -> [Events -> Task]] /\ row \in [Events -> Row]
      /\ row[e] \in Row /\ Finish(r, e) /\ task[r][e].pc # "none" /\ BusyPublishing(r)
      /\ UNCHANGED <<relay, tries, faults>> /\ WorkInv /\ TypesInv /\ Counted(e)
  BY DEF CountInv, WorkInv, TypesInv, TypeOK, MarkPublished, ScheduleRetry, MarkFailed
<1>2. /\ task'[r][e].pc = "none" /\ r \in Working(e) /\ relay[r].pc = "publish"
      /\ \A s \in Relays, g \in Events : <<s, g>> # <<r, e>> => task'[s][g] = task[s][g]
  BY <1>1 DEF Finish, NoTask, Working, BusyPublishing, Busy
<1>3. r \notin Prepaid' /\ r \notin Prepaid /\ OthersStay(r, f)
  BY <1>1, <1>2 DEF Prepaid, OthersStay
<1>4. CASE f # e
  <2>1. row'[f] = row[f] /\ task'[r][f] = task[r][f]
    BY <1>1, <1>2, <1>4 DEF MarkPublished, ScheduleRetry, MarkFailed
  <2>2. r \in Live(f) => r \in Live(f)'
    BY <1>1, <2>1 DEF Live, Working
  <2> QED BY <1>1, <1>3, <2>1, <2>2, SameCounted
<1>5. CASE f = e /\ e \notin Pending
  <2>1. /\ ~Unsettled(row[e])
        /\ row'[e].attempts = row[e].attempts /\ row'[e].status = row[e].status
    BY <1>1, <1>2, <1>5
    DEF Counted, Unsettled, MarkPublished, ScheduleRetry, MarkFailed, Pending, Row
  <2>2. \A s \in Relays : task'[s][e].pc = "none" \/ task'[s][e] = task[s][e]
    BY <1>2
  <2>3. Working(e)' \subseteq Working(e) /\ Used' = Used
    BY <1>1, <2>2 DEF Working, Used
  <2> QED BY <1>1, <1>5, <2>1, <2>2, <2>3 DEF Counted, Unsettled
<1>6. CASE f = e /\ e \in Pending /\ (MarkPublished(r, e) \/ MarkFailed(r, e))
  <2>1. row'[e].status \in {"published", "failed"}
    BY <1>1, <1>6 DEF MarkPublished, MarkFailed, Pending, Row
  <2>2. tries[e] <= MaxPublishAttempts + Used + 2 * (Cardinality(Relays) - 1)
    BY <1>1, TriesWithin
  <2>3. \A s \in Relays : task'[s][e].pc = "retry" => ~LastTry(task'[s][e].attempts)
    BY <1>1, <1>2 DEF Counted
  <2>4. Used' = Used
    BY <1>1 DEF Used
  <2> QED BY <1>1, <1>6, <2>1, <2>2, <2>3, <2>4 DEF Counted, Unsettled
<1>7. CASE f = e /\ e \in Pending /\ ScheduleRetry(r, e)
  <2>1. /\ row'[e].attempts = row[e].attempts + 1 /\ row'[e].status = "pending"
        /\ row[e].status = "pending"
    BY <1>1, <1>7 DEF ScheduleRetry, Pending, Row
  <2>2. r \in Early(e) /\ r \notin Early(e)' /\ r \notin Live(e)'
    BY <1>1, <1>2, <1>7 DEF ScheduleRetry, Counted, Early, Live, Working
  <2>3. /\ row[e].attempts \in Nat /\ tries[e] \in Nat /\ Used \in Int /\ Used' = Used
    BY <1>1, CountTypes DEF Used
  <2>4. LastTry(row[e].attempts)' =>
          \/ /\ LastTry(row[e].attempts)
             /\ row'[e].attempts + One(r \in Early(e)') <=
                  row[e].attempts + One(r \in Early(e))
          \/ /\ ~LastTry(row[e].attempts) /\ r \notin Early(e)'
             /\ row'[e].attempts = row[e].attempts + 1
    BY <2>1, <2>2, <2>3 DEF One
  <2>5. /\ One(r \in Prepaid') = 0 /\ One(r \in Prepaid) = 0
        /\ One(r \in Live(e)) \in {0, 1} /\ One(r \in Live(e)') = 0
    BY <1>3, <2>2 DEF One
  <2>6. tries'[e] + One(r \in Prepaid') + row[e].attempts + Used + One(r \in Live(e))
          <= tries[e] + One(r \in Prepaid) + row'[e].attempts + Used' + One(r \in Live(e)')
    BY <1>1, <2>1, <2>3, <2>5
  <2>7. \A s \in Relays : task'[s][e].pc = "retry" => ~LastTry(task'[s][e].attempts)
    BY <1>1, <1>2 DEF Counted
  <2> QED BY <1>3, <1>7, <2>1, <2>4, <2>6, <2>7, Recount DEF Unsettled
<1> QED BY <1>1, <1>4, <1>5, <1>6, <1>7

LEMMA StepCounted ==
  ASSUME CountInv, [Next]_vars
  PROVE  CountInv'
<1>1. WorkInv'
  BY StepWork DEF CountInv
<1>2. ASSUME NEW f \in Events PROVE Counted(f)'
  <2>1. CASE UNCHANGED vars
    BY <1>1, <2>1, StillCounted DEF vars
  <2>2. CASE Tick \/ \E e \in Events : Insert(e) \/ DelayEnds(e)
    BY <1>1, <2>2, OutboxCounted
  <2>3. CASE \E r \in Relays : Looping(r) \/ CallFails(r) \/ Crash(r) \/ Stop(r)
    BY <1>1, <2>3, LoopCounted, ReadHeadsCounted DEF Looping
  <2>4. CASE \E r \in Relays, c \in Channels : Land(r, c) \/ Lose(r, c)
    BY <1>1, <2>4, WriterCounted
  <2>5. CASE \E r \in Relays, e \in Events : Publishing(r, e)
    BY <1>1, <2>5, FailingCounted, WriteCounted DEF Publishing
  <2> QED BY <2>1, <2>2, <2>3, <2>4, <2>5 DEF Next
<1> QED BY <1>1, <1>2 DEF CountInv

\* It takes a crash, a shutdown or a failed write for each publish of an event
\* beyond the three of README.md:102, but for two that each other relay may add
\* while it overlaps with the leader: whatever the lease and the clocks
\* (internal/outbox/relay.go:70-162, internal/outbox/repository.go:115-177).
THEOREM TriesBounded == Spec => []ExtraTriesAccounted
<1>1. CountInv /\ [Next]_vars => CountInv'
  BY StepCounted
<1>2. CountInv => ExtraTriesAccounted
  <2> SUFFICES ASSUME CountInv, NEW e \in Events
               PROVE  tries[e] <= MaxPublishAttempts + (MaxFaults - faults)
                                    + 2 * (Cardinality(Relays) - 1)
    BY DEF ExtraTriesAccounted
  <2> QED BY TriesWithin DEF CountInv, Used
<1> QED BY <1>1, <1>2, InitCounted, PTL DEF Spec
=============================================================================

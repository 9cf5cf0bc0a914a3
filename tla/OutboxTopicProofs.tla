-------------------------- MODULE OutboxTopicProofs --------------------------
(***************************************************************************)
(* What followers of the topic can rely on, of any number of relays that   *)
(* may overlap, whatever the lease, the timeouts and the clocks: an event  *)
(* is marked published only once Kafka has it, no relay overrules the      *)
(* verdict of another, no attempt is counted that was not made, no event   *)
(* overtakes an older one that was in the outbox before it and is without  *)
(* a verdict, and all of it implements the topic of EventTopic.            *)
(***************************************************************************)
EXTENDS OutboxLeaderProofs
-----------------------------------------------------------------------------
(* Verdicts *)

\* A goroutine goes on to mark an event, and the event is marked, only after
\* Kafka has taken it.
AckedInv ==
  /\ TypesInv
  /\ \A e \in Events : row[e].status = "published" => e \in Delivered
  /\ \A r \in Relays, e \in Events : task[r][e].pc = "mark" => e \in Delivered

LEMMA InitAcked == Init => AckedInv
  BY InitTypes DEF Init, AckedInv, NoTask

\* Steps that neither publish nor start on marking anything.
LEMMA SameAcked ==
  ASSUME AckedInv, TypesInv', UNCHANGED log,
         \A e \in Events : row'[e].status = "published" =>
            row[e].status = "published" \/ \E r \in Relays : task[r][e].pc = "mark",
         \A r \in Relays, e \in Events :
            task'[r][e].pc = "mark" => task[r][e].pc = "mark"
  PROVE  AckedInv'
  BY DEF AckedInv, Delivered

\* A write that gets to the topic.
LEMMA Appended ==
  ASSUME log \in Seq(Events), NEW h \in Events, log' = Append(log, h)
  PROVE  /\ Delivered' = Delivered \cup {h}
         /\ Len(log') = Len(log) + 1 /\ Len(log) \in Nat /\ log'[Len(log) + 1] = h
         /\ \A i \in 1..Len(log) : log'[i] = log[i]
<1>1. /\ Len(log') = Len(log) + 1 /\ Len(log) \in Nat /\ log'[Len(log) + 1] = h
      /\ \A i \in 1..Len(log) : log'[i] = log[i]
  OBVIOUS
<1> QED BY <1>1 DEF Delivered

\* What Kafka takes, and who waited for it.
LEMMA LandStep ==
  ASSUME TypesInv, NEW r \in Relays, NEW c \in Channels, Land(r, c)
  PROVE  \E h \in Events :
           /\ h = Head(flight[r][c]) /\ h = flight[r][c][1] /\ 1 \in 1..Len(flight[r][c])
           /\ IF h \in Delivered THEN UNCHANGED log ELSE log' = Append(log, h)
           /\ Delivered' = Delivered \cup {h}
           /\ \A s \in Relays, e \in Events :
                task'[s][e].pc = "mark" => task[s][e].pc = "mark" \/ e = h
<1> DEFINE h == Head(flight[r][c])
<1>1. /\ flight[r][c] \in Seq(Events) /\ flight[r][c] # <<>> /\ log \in Seq(Events)
      /\ task \in [Relays -> [Events -> Task]]
  BY DEF TypesInv, TypeOK, Land
<1>2. h \in Events /\ h = flight[r][c][1] /\ 1 \in 1..Len(flight[r][c])
  BY <1>1
<1>3. log' = IF h \in Delivered THEN log ELSE Append(log, h)
  BY DEF Land
<1>4. \/ task' = task
      \/ task' = [task EXCEPT ![r][h] = NoTask]
      \/ task' = [task EXCEPT ![r][h].pc = "mark"]
  BY DEF Land
<1>5. h = Head(flight[r][c])
  OBVIOUS
<1> HIDE DEF h
<1>6. Delivered' = Delivered \cup {h}
  <2>1. CASE h \in Delivered
    BY <1>3, <2>1 DEF Delivered
  <2>2. CASE h \notin Delivered
    BY <1>1, <1>2, <1>3, <2>2, Appended
  <2> QED BY <2>1, <2>2
<1>7. ASSUME NEW s \in Relays, NEW e \in Events, task'[s][e].pc = "mark"
      PROVE  task[s][e].pc = "mark" \/ e = h
  <2>1. e # h => task'[s][e] = task[s][e]
    BY <1>1, <1>2, <1>4
  <2> QED BY <1>7, <2>1
<1> QED BY <1>2, <1>3, <1>5, <1>6, <1>7

LEMMA LandAcked ==
  ASSUME AckedInv, TypesInv', NEW r \in Relays, NEW c \in Channels, Land(r, c)
  PROVE  AckedInv'
<1>1. UNCHANGED row /\ TypesInv
  BY DEF AckedInv, Land
<1> QED BY <1>1, LandStep DEF AckedInv

LEMMA PublishingAcked ==
  ASSUME AckedInv, TypesInv', NEW r \in Relays, NEW e \in Events, Publishing(r, e)
  PROVE  AckedInv'
<1>1. /\ row \in [Events -> Row] /\ task \in [Relays -> [Events -> Task]]
      /\ UNCHANGED log /\ row[e] \in Row
  BY DEF AckedInv, TypesInv, TypeOK, Publishing, PublishFails, MarkPublished,
         ScheduleRetry, MarkFailed, WriteFails
<1>2. ASSUME NEW s \in Relays, NEW f \in Events, task'[s][f].pc = "mark"
      PROVE  task[s][f].pc = "mark"
  <2>1. \/ task' = [task EXCEPT ![r][e] = NoTask]
        \/ \E p \in {"retry", "park"} : task' = [task EXCEPT ![r][e].pc = p]
    BY DEF Finish, Publishing, PublishFails, MarkPublished, ScheduleRetry, MarkFailed,
           WriteFails
  <2>2. CASE task' = [task EXCEPT ![r][e] = NoTask]
    BY <1>1, <1>2, <2>2 DEF NoTask
  <2>3. ASSUME NEW p \in {"retry", "park"}, task' = [task EXCEPT ![r][e].pc = p]
        PROVE  task[s][f].pc = "mark"
    <3>1. task[r][e] \in Task
      BY <1>1
    <3>2. task'[r][e].pc = p
      BY <1>1, <2>3, <3>1 DEF Task
    <3>3. <<s, f>> # <<r, e>> => task'[s][f] = task[s][f]
      BY <1>1, <2>3
    <3> QED BY <1>2, <3>2, <3>3
  <2> QED BY <2>1, <2>2, <2>3
<1>3. ASSUME NEW f \in Events, row'[f].status = "published"
      PROVE  row[f].status = "published" \/ \E s \in Relays : task[s][f].pc = "mark"
  <2>1. CASE MarkPublished(r, e)
    BY <1>1, <1>3, <2>1 DEF MarkPublished
  <2>2. CASE ScheduleRetry(r, e)
    BY <1>1, <1>3, <2>2 DEF ScheduleRetry, Row
  <2>3. CASE MarkFailed(r, e)
    BY <1>1, <1>3, <2>3 DEF MarkFailed, Row
  <2>4. CASE UNCHANGED row
    BY <1>3, <2>4
  <2> QED BY <2>1, <2>2, <2>3, <2>4 DEF Publishing, PublishFails, WriteFails
<1> QED BY <1>1, <1>2, <1>3, SameAcked

LEMMA StepAcked ==
  ASSUME AckedInv, [Next]_vars
  PROVE  AckedInv'
<1>1. /\ TypesInv' /\ row \in [Events -> Row]
      /\ task \in [Relays -> [Events -> Task]]
  BY StepTypes DEF AckedInv, TypesInv, TypeOK
<1>2. CASE UNCHANGED <<row, task, log>>
  BY <1>1, <1>2, SameAcked
<1>3. CASE \E e \in Events : Insert(e) \/ DelayEnds(e)
  <2>1. PICK e \in Events : Insert(e) \/ DelayEnds(e)
    BY <1>3
  <2>2. UNCHANGED <<task, log>>
    BY <2>1 DEF Insert, DelayEnds
  <2>3. row[e] \in Row
    BY <1>1
  <2>4. \A f \in Events : row'[f].status = "published" => row[f].status = "published"
    BY <1>1, <2>1, <2>3 DEF Insert, DelayEnds, Row
  <2> QED BY <1>1, <2>2, <2>4, SameAcked
<1>4. CASE \E r \in Relays : ReadHeads(r) \/ Crash(r)
  <2>1. PICK r \in Relays : ReadHeads(r) \/ Crash(r)
    BY <1>4
  <2>2. UNCHANGED <<row, log>>
    BY <2>1 DEF ReadHeads, Crash
  <2>3. \A s \in Relays, e \in Events :
          task'[s][e].pc = "mark" => task[s][e].pc = "mark"
    BY <1>1, <2>1, ReadHeadsCases DEF Published, Crash, NoTask
  <2> QED BY <1>1, <2>2, <2>3, SameAcked
<1>5. CASE \E r \in Relays, c \in Channels : Land(r, c)
  BY <1>1, <1>5, LandAcked
<1>6. CASE \E r \in Relays, e \in Events : Publishing(r, e)
  BY <1>1, <1>6, PublishingAcked
<1>7. CASE \E r \in Relays : Start(r) \/ Wake(r) \/ Acquire(r) \/ RoundEnds(r)
                            \/ Release(r) \/ CallFails(r) \/ Stop(r)
  BY <1>2, <1>7 DEF Start, Wake, Acquire, RoundEnds, Release, CallFails, Stop
<1>8. CASE Tick \/ \E r \in Relays, c \in Channels : Lose(r, c)
  BY <1>2, <1>8 DEF Tick, Lose
<1> QED BY <1>2, <1>3, <1>4, <1>5, <1>6, <1>7, <1>8 DEF vars, Next, Looping

\* An event that is marked published is in Kafka, with any number of relays
\* at work on it and whatever the timeouts (internal/outbox/relay.go:124-162).
THEOREM PublishedDelivered == Spec => []PublishedWasDelivered
<1>1. AckedInv /\ [Next]_vars => AckedInv'
  BY StepAcked
<1>2. AckedInv => PublishedWasDelivered
  BY DEF AckedInv, PublishedWasDelivered
<1> QED BY <1>1, <1>2, InitAcked, PTL DEF Spec

LEMMA VerdictKept ==
  ASSUME TypesInv, [Next]_vars, NEW e \in Events,
         row[e].status \in {"published", "failed"}
  PROVE  row'[e].status = row[e].status
<1>1. row \in [Events -> Row] /\ \A f \in Events : row[f] \in Row
  BY DEF TypesInv, TypeOK
<1>2. CASE UNCHANGED row
  BY <1>2
<1>3. CASE \E f \in Events : Insert(f) \/ DelayEnds(f)
  BY <1>1, <1>3 DEF Insert, DelayEnds, Pending, Row
<1>4. CASE \E r \in Relays, f \in Events :
             MarkPublished(r, f) \/ ScheduleRetry(r, f) \/ MarkFailed(r, f)
  BY <1>1, <1>4 DEF MarkPublished, ScheduleRetry, MarkFailed, Pending, Row
<1> QED
  BY <1>2, <1>3, <1>4
  DEF vars, Next, Looping, Publishing, Tick, Start, Wake, Acquire, RoundEnds, Release,
      CallFails, Stop, ReadHeads, Crash, Land, Lose, PublishFails, WriteFails

\* What is published or parked stays so: the filters of the three writes leave
\* the verdict of another relay alone (internal/outbox/repository.go:115-177).
THEOREM VerdictStands == Spec => SettledIsFinal
<1>1. TypesInv /\ [Next]_vars
        => [\A e \in Events :
              row[e].status \in {"published", "failed"} =>
                row'[e].status = row[e].status]_vars
  BY VerdictKept
<1>2. TypesInv /\ [Next]_vars => TypesInv'
  BY StepTypes
<1> QED BY <1>1, <1>2, InitTypes, PTL DEF Spec, SettledIsFinal
-----------------------------------------------------------------------------
(* What is on its way *)

InFlight(r, c) == {flight[r][c][i] : i \in 1..Len(flight[r][c])}

\* What is in the topic or on its way there.
Sent(e) == e \in Delivered \/ \E r \in Relays, c \in Channels : e \in InFlight(r, c)

LEMMA OrderTypes ==
  ASSUME TypesInv
  PROVE  /\ log \in Seq(Events) /\ Delivered \subseteq Events
         /\ \A e \in Events : Version[e] \in Nat /\ row[e] \in Row
         /\ ahead \in [Events -> SUBSET Events]
         /\ \A r \in Relays, c \in Channels :
              flight[r][c] \in Seq(Events) /\ InFlight(r, c) \subseteq Events
<1>1. log \in Seq(Events) /\ \A r \in Relays, c \in Channels : flight[r][c] \in Seq(Events)
  BY DEF TypesInv, TypeOK
<1>2. /\ \A e \in Events : Version[e] \in Nat /\ row[e] \in Row
      /\ ahead \in [Events -> SUBSET Events]
  BY PlacementAssumption DEF TypesInv, TypeOK
<1> QED BY <1>1, <1>2 DEF Delivered, InFlight

\* A row that is there stays.
LEMMA RowStays ==
  ASSUME TypesInv, [Next]_vars, NEW e \in Events, row[e].status # "absent"
  PROVE  row'[e].status # "absent"
<1>1. row \in [Events -> Row] /\ \A f \in Events : row[f] \in Row
  BY DEF TypesInv, TypeOK
<1>2. CASE UNCHANGED row
  BY <1>2
<1>3. CASE \E f \in Events : Insert(f) \/ DelayEnds(f)
  BY <1>1, <1>3 DEF Insert, DelayEnds, Pending, Row
<1>4. CASE \E r \in Relays, f \in Events :
             MarkPublished(r, f) \/ ScheduleRetry(r, f) \/ MarkFailed(r, f)
  BY <1>1, <1>4 DEF MarkPublished, ScheduleRetry, MarkFailed, Pending, Row
<1> QED
  BY <1>2, <1>3, <1>4
  DEF vars, Next, Looping, Publishing, Tick, Start, Wake, Acquire, RoundEnds, Release,
      CallFails, Stop, ReadHeads, Crash, Land, Lose, PublishFails, WriteFails

\* What becomes of the queues in any step.
LEMMA QueueStep ==
  ASSUME TypesInv, [Next]_vars, NEW r \in Relays, NEW c \in Channels
  PROVE  \/ flight'[r][c] = flight[r][c]
         \/ flight[r][c] # <<>> /\ flight'[r][c] = Tail(flight[r][c])
         \/ \E e \in Heads : flight'[r][c] = Append(flight[r][c], e)
<1>1. flight \in [Relays -> [Channels -> Seq(Events)]]
  BY DEF TypesInv, TypeOK
<1>2. CASE UNCHANGED flight
  BY <1>2
<1>3. CASE \E s \in Relays, d \in Channels : Land(s, d) \/ Lose(s, d)
  <2>1. PICK s \in Relays, d \in Channels :
          /\ flight[s][d] # <<>>
          /\ flight' = [flight EXCEPT ![s][d] = Tail(flight[s][d])]
    BY <1>3 DEF Land, Lose
  <2>2. CASE r = s /\ c = d
    BY <1>1, <2>1, <2>2
  <2>3. CASE ~(r = s /\ c = d)
    BY <1>1, <2>1, <2>3
  <2> QED BY <2>2, <2>3
<1>4. ASSUME NEW s \in Relays, NEW due \in SeenDue, Published(s, Batch(due))
      PROVE  \/ flight'[r][c] = flight[r][c]
             \/ \E e \in Heads : flight'[r][c] = Append(flight[r][c], e)
  <2> DEFINE batch == Batch(due)
  <2>1. batch \subseteq Heads
    BY DEF Batch, Oldest
  <2> HIDE DEF batch
  <2>2. flight' = [flight EXCEPT ![s] = [d \in Channels |->
          IF \E e \in batch : ChannelOf[e] = d
          THEN Queued(flight[s][d], CHOOSE e \in batch : ChannelOf[e] = d)
          ELSE flight[s][d]]]
    BY <1>4 DEF Published, batch
  <2>3. CASE r = s /\ \E e \in batch : ChannelOf[e] = c
    <3> DEFINE e == CHOOSE e \in batch : ChannelOf[e] = c
    <3>1. e \in Heads
      BY <2>1, <2>3
    <3>2. flight'[r][c] = Queued(flight[r][c], e)
      BY <1>1, <2>2, <2>3
    <3> HIDE DEF e
    <3> QED BY <3>1, <3>2 DEF Queued
  <2>4. CASE ~ (r = s /\ \E e \in batch : ChannelOf[e] = c)
    <3> DEFINE queue(d) == IF \E e \in batch : ChannelOf[e] = d
                 THEN Queued(flight[s][d], CHOOSE e \in batch : ChannelOf[e] = d)
                 ELSE flight[s][d]
    <3>1. flight' = [flight EXCEPT ![s] = [d \in Channels |-> queue(d)]]
      BY <2>2
    <3>2. r = s => queue(c) = flight[r][c]
      BY <2>4
    <3> HIDE DEF queue
    <3> QED BY <1>1, <3>1, <3>2
  <2> QED BY <2>3, <2>4
<1>5. CASE \E s \in Relays : ReadHeads(s)
  BY <1>2, <1>4, <1>5, ReadHeadsCases
<1>6. CASE \E s \in Relays, e \in Events : Publishing(s, e)
  BY <1>2, <1>6
  DEF Publishing, PublishFails, WriteFails, MarkPublished, ScheduleRetry, MarkFailed
<1>7. CASE \E s \in Relays : Looping(s) /\ ~ReadHeads(s)
  BY <1>2, <1>7 DEF Looping, Start, Wake, Acquire, RoundEnds, Release
<1> QED
  BY <1>2, <1>3, <1>5, <1>6, <1>7
  DEF vars, Next, Tick, CallFails, Stop, Crash, Insert, DelayEnds

\* Nothing but a write that Kafka takes gets to the topic.
LEMMA LogStep ==
  ASSUME TypesInv, [Next]_vars
  PROVE  UNCHANGED log \/ \E r \in Relays, c \in Channels : Land(r, c)
<1>1. CASE \E r \in Relays, e \in Events : Publishing(r, e)
  BY <1>1 DEF Publishing, PublishFails, WriteFails, MarkPublished, ScheduleRetry, MarkFailed
<1>2. CASE \E r \in Relays : Looping(r)
  BY <1>2 DEF Looping, Start, Wake, Acquire, ReadHeads, RoundEnds, Release
<1> QED
  BY <1>1, <1>2 DEF vars, Next, Tick, CallFails, Stop, Crash, Lose, Insert, DelayEnds

\* Nothing is sent but the heads of channels.
LEMMA SentStep ==
  ASSUME TypesInv, [Next]_vars, NEW e \in Events, Sent(e)'
  PROVE  Sent(e) \/ e \in Heads
<1>1. ASSUME NEW r \in Relays, NEW c \in Channels, e \in InFlight(r, c)'
      PROVE  Sent(e) \/ e \in Heads
  <2>1. flight[r][c] \in Seq(Events)
    BY OrderTypes
  <2>2. PICK i \in 1..Len(flight'[r][c]) : e = flight'[r][c][i]
    BY <1>1 DEF InFlight
  <2>3. (e \in InFlight(r, c)) => Sent(e)
    BY DEF Sent
  <2>4. CASE flight'[r][c] = flight[r][c]
    BY <1>1, <2>3, <2>4 DEF InFlight
  <2>5. CASE flight[r][c] # <<>> /\ flight'[r][c] = Tail(flight[r][c])
    <3>1. e = flight[r][c][i + 1] /\ i + 1 \in 1..Len(flight[r][c])
      BY <2>1, <2>2, <2>5
    <3> QED BY <2>3, <3>1 DEF InFlight
  <2>6. ASSUME NEW g \in Heads, flight'[r][c] = Append(flight[r][c], g)
        PROVE  Sent(e) \/ e \in Heads
    <3>1. g \in Events
      BY DEF Heads, Pending
    <3>2. e = g \/ (i \in 1..Len(flight[r][c]) /\ e = flight[r][c][i])
      BY <2>1, <2>2, <2>6, <3>1
    <3> QED BY <2>3, <3>2 DEF InFlight
  <2> QED BY <2>4, <2>5, <2>6, QueueStep
<1>2. CASE e \in Delivered'
  <2>1. CASE UNCHANGED log
    BY <1>2, <2>1 DEF Delivered, Sent
  <2>2. ASSUME NEW r \in Relays, NEW c \in Channels, Land(r, c)
        PROVE  Sent(e)
    <3>1. PICK h \in Events : /\ h = flight[r][c][1] /\ 1 \in 1..Len(flight[r][c])
                              /\ Delivered' = Delivered \cup {h}
      BY <2>2, LandStep
    <3>2. h \in InFlight(r, c)
      BY <3>1 DEF InFlight
    <3> QED BY <1>2, <3>1, <3>2 DEF Sent
  <2> QED BY <2>1, <2>2, LogStep
<1> QED BY <1>1, <1>2 DEF Sent
-----------------------------------------------------------------------------
(* The order of a channel *)

Older(f, e) == ChannelOf[f] = ChannelOf[e] /\ Version[f] < Version[e]

\* No event is on its way before the older ones of its channel that were in the
\* outbox before it have a verdict.
NoneOvertakes ==
  \A e \in Events : \A f \in ahead[e] :
    Sent(e) => row[f].status \in {"published", "failed"}

\* What is ahead of an event is in the outbox, and so is what is sent.
OvertakeInv ==
  /\ TypesInv
  /\ \A e \in Events : \A f \in ahead[e] : Older(f, e) /\ row[f].status # "absent"
  /\ \A e \in Events : Sent(e) => row[e].status # "absent"
  /\ NoneOvertakes

LEMMA InitOvertake == Init => OvertakeInv
<1> SUFFICES ASSUME Init PROVE OvertakeInv
  OBVIOUS
<1>1. TypesInv /\ log = <<>> /\ \A e \in Events : ahead[e] = {}
  BY InitTypes DEF Init
<1>2. \A r \in Relays, c \in Channels : flight[r][c] = <<>>
  BY DEF Init
<1>3. \A e \in Events : ~Sent(e)
  BY <1>1, <1>2 DEF Sent, Delivered, InFlight
<1> QED BY <1>1, <1>3 DEF OvertakeInv, NoneOvertakes

\* The heads have every older event that was there before them settled.
LEMMA HeadsClear ==
  ASSUME OvertakeInv, NEW e \in Heads, NEW f \in ahead[e]
  PROVE  row[f].status \in {"published", "failed"}
<1>1. e \in Events /\ f \in Events /\ row[f] \in Row /\ Version[e] \in Nat /\ Version[f] \in Nat
  <2>1. e \in Events /\ TypesInv
    BY DEF Heads, Pending, OvertakeInv
  <2> QED BY <2>1, OrderTypes
<1>2. Older(f, e) /\ row[f].status # "absent"
  BY <1>1 DEF OvertakeInv
<1>3. row[f].status # "pending"
  BY <1>1, <1>2 DEF Heads, Pending, Peers, Older
<1> QED BY <1>1, <1>2, <1>3 DEF Row

\* What was ahead of an event stays so; only an event that comes in gets some.
LEMMA AheadStep ==
  ASSUME TypesInv, [Next]_vars, NEW e \in Events
  PROVE  \/ ahead'[e] = ahead[e]
         \/ /\ row[e].status = "absent" /\ UNCHANGED <<log, flight>>
            /\ ahead'[e] = {f \in Peers(e) : Version[f] < Version[e] /\ row[f].status # "absent"}
<1>1. ahead \in [Events -> SUBSET Events]
  BY OrderTypes
<1>2. CASE \E g \in Events : Insert(g)
  BY <1>1, <1>2 DEF Insert
<1>3. CASE \E r \in Relays, g \in Events : Publishing(r, g)
  BY <1>3 DEF Publishing, PublishFails, WriteFails, MarkPublished, ScheduleRetry, MarkFailed
<1>4. CASE \E r \in Relays : Looping(r)
  BY <1>4 DEF Looping, Start, Wake, Acquire, ReadHeads, RoundEnds, Release
<1> QED
  BY <1>2, <1>3, <1>4
  DEF vars, Next, Tick, CallFails, Stop, Crash, Land, Lose, DelayEnds

LEMMA StepOvertake ==
  ASSUME OvertakeInv, [Next]_vars
  PROVE  OvertakeInv'
<1>1. TypesInv /\ TypesInv' /\ ahead \in [Events -> SUBSET Events]
  BY StepTypes, OrderTypes DEF OvertakeInv
<1>2. ASSUME NEW e \in Events, Sent(e)'
      PROVE  row[e].status # "absent" /\ row'[e].status # "absent"
  <2>1. row[e].status # "absent"
    BY <1>1, <1>2, SentStep DEF OvertakeInv, Heads, Pending
  <2> QED BY <1>1, <2>1, RowStays
<1>3. ASSUME NEW e \in Events, NEW f \in ahead'[e]
      PROVE  /\ Older(f, e) /\ row'[f].status # "absent"
             /\ Sent(e)' => row'[f].status \in {"published", "failed"}
  <2>1. CASE ahead'[e] = ahead[e]
    <3>1. f \in Events /\ f \in ahead[e] /\ Older(f, e) /\ row[f].status # "absent"
      BY <1>1, <1>3, <2>1 DEF OvertakeInv
    <3>2. row'[f].status # "absent"
      BY <1>1, <3>1, RowStays
    <3>3. Sent(e)' => row[f].status \in {"published", "failed"}
      BY <1>1, <3>1, SentStep, HeadsClear DEF OvertakeInv, NoneOvertakes
    <3>4. Sent(e)' => row'[f].status \in {"published", "failed"}
      BY <1>1, <3>1, <3>3, VerdictKept
    <3> QED BY <3>1, <3>2, <3>4
  <2>2. CASE /\ row[e].status = "absent"
             /\ ahead'[e] = {g \in Peers(e) : Version[g] < Version[e] /\ row[g].status # "absent"}
    <3>1. f \in Events /\ Older(f, e) /\ row[f].status # "absent"
      BY <1>3, <2>2 DEF Peers, Older
    <3>2. row'[f].status # "absent"
      BY <1>1, <3>1, RowStays
    <3> QED BY <1>2, <2>2, <3>1, <3>2
  <2> QED BY <1>1, <2>1, <2>2, AheadStep
<1> QED BY <1>1, <1>2, <1>3 DEF OvertakeInv, NoneOvertakes, Older

\* No event is given to Kafka before every older one of its channel that it found
\* in the outbox is published or parked, with any number of relays and whatever
\* the timeouts (the heads of internal/outbox/repository.go:84-113 and the writes
\* of 115-177).
THEOREM AfterVerdicts == Spec => []NoneOvertakes
<1>1. OvertakeInv /\ [Next]_vars => OvertakeInv'
  BY StepOvertake
<1>2. OvertakeInv => NoneOvertakes
  BY DEF OvertakeInv
<1> QED BY <1>1, <1>2, InitOvertake, PTL DEF Spec

\* Of what is ahead of an event in the outbox, only what was parked gets to the
\* topic behind it.
OrderInv == OvertakeInv /\ AckedInv /\ OvertakesOnlyLateOrParked

LEMMA StepOrder ==
  ASSUME OrderInv, [Next]_vars
  PROVE  OrderInv'
<1>1. /\ OvertakeInv' /\ AckedInv' /\ TypesInv
      /\ log \in Seq(Events) /\ Delivered \subseteq Events
  BY StepOvertake, StepAcked, OrderTypes DEF OrderInv, OvertakeInv
<1>2. ASSUME NEW i \in 1..Len(log), NEW j \in 1..Len(log), i < j, log[j] \in ahead'[log[i]]
      PROVE  row'[log[j]].status = "failed"
  <2>1. log[i] \in Events /\ log[j] \in Events /\ Sent(log[i])
    BY <1>1 DEF Sent, Delivered
  <2>2. ahead'[log[i]] = ahead[log[i]]
    BY <1>1, <2>1, AheadStep DEF OrderInv, OvertakeInv
  <2>3. row[log[j]].status = "failed"
    BY <1>2, <2>2 DEF OrderInv, OvertakesOnlyLateOrParked
  <2> QED BY <1>1, <2>1, <2>3, VerdictKept
<1>3. CASE UNCHANGED log
  BY <1>1, <1>2, <1>3 DEF OrderInv, OvertakesOnlyLateOrParked
<1>4. ASSUME NEW h \in Events, h \notin Delivered, log' = Append(log, h), UNCHANGED <<row, ahead>>
      PROVE  OrderInv'
  <2>1. /\ Len(log') = Len(log) + 1 /\ Len(log) \in Nat /\ log'[Len(log) + 1] = h
        /\ \A i \in 1..Len(log) : log'[i] = log[i]
    BY <1>1, <1>4, Appended
  <2> SUFFICES ASSUME NEW i \in 1..Len(log'), NEW j \in 1..Len(log'), i < j,
                      log'[j] \in ahead'[log'[i]]
               PROVE  row'[log'[j]].status = "failed"
    BY <1>1 DEF OrderInv, OvertakesOnlyLateOrParked
  <2>2. i \in 1..Len(log) /\ log'[i] = log[i]
    BY <2>1
  <2>3. CASE j \in 1..Len(log)
    BY <1>2, <2>1, <2>2, <2>3
  <2>4. CASE j = Len(log) + 1
    <3>1. log[i] \in Events /\ Sent(log[i]) /\ h \in ahead[log[i]]
      BY <1>1, <1>4, <2>1, <2>2, <2>4 DEF Sent, Delivered
    <3>2. row[h].status \in {"published", "failed"}
      BY <3>1 DEF OrderInv, OvertakeInv, NoneOvertakes
    <3>3. row[h].status # "published"
      BY <1>4 DEF OrderInv, AckedInv
    <3> QED BY <1>4, <2>1, <2>4, <3>2, <3>3
  <2> QED BY <2>1, <2>3, <2>4
<1>5. ASSUME NEW r \in Relays, NEW c \in Channels, Land(r, c) PROVE OrderInv'
  <2>1. UNCHANGED <<row, ahead>>
    BY <1>5 DEF Land
  <2>2. PICK h \in Events : IF h \in Delivered THEN UNCHANGED log ELSE log' = Append(log, h)
    BY <1>1, <1>5, LandStep
  <2> QED BY <1>3, <1>4, <2>1, <2>2
<1> QED BY <1>1, <1>3, <1>5, LogStep

\* With any number of relays, whatever they crash, retry, give up or write late,
\* an event gets to the topic before an older one of its channel only if that was
\* inserted after it, or parked (internal/outbox/repository.go:84-113,
\* internal/outbox/relay.go:88-137).
THEOREM ChannelsInOrder == Spec => []OvertakesOnlyLateOrParked
<1>1. OrderInv /\ [Next]_vars => OrderInv'
  BY StepOrder
<1>2. OrderInv => OvertakesOnlyLateOrParked
  BY DEF OrderInv
<1>3. Init => OrderInv
  BY InitOvertake, InitAcked DEF Init, OrderInv, OvertakesOnlyLateOrParked
<1> QED BY <1>1, <1>2, <1>3, PTL DEF Spec
-----------------------------------------------------------------------------
(* The topic *)

TopicInv == OvertakeInv /\ AckedInv

LEMMA StepTopic ==
  ASSUME TopicInv, [Next]_vars
  PROVE  TopicInv'
BY StepOvertake, StepAcked DEF TopicInv

LEMMA TopicStep ==
  ASSUME TopicInv, [Next]_vars
  PROVE  [Topic!TNext]_Topic!tvars
<1>1. /\ row \in [Events -> Row] /\ TypesInv
      /\ \A r \in Relays, e \in Events : task[r][e].pc = "mark" => e \in Delivered
  BY DEF TopicInv, AckedInv, TypesInv, TypeOK
<1> DEFINE fate == [e \in Events |-> row[e].status]
<1>2. CASE UNCHANGED <<row, log, ahead>>
  BY <1>2 DEF Topic!tvars
<1>3. ASSUME NEW e \in Events, Insert(e) PROVE Topic!TNext
  <2>1. fate[e] = "absent" /\ fate' = [fate EXCEPT ![e] = "pending"]
    BY <1>1, <1>3 DEF Insert, Row
  <2>2. {f \in Peers(e) : Version[f] < Version[e] /\ row[f].status # "absent"} =
        {f \in Events : /\ ChannelOf[f] = ChannelOf[e] /\ Version[f] < Version[e]
                        /\ fate[f] # "absent"}
    BY DEF Peers
  <2>3. /\ UNCHANGED log
        /\ ahead' = [ahead EXCEPT ![e] =
             {f \in Events : /\ ChannelOf[f] = ChannelOf[e] /\ Version[f] < Version[e]
                             /\ fate[f] # "absent"}]
    BY <1>3, <2>2 DEF Insert
  <2> HIDE DEF fate
  <2>4. Topic!Put(e)
    BY <2>1, <2>3 DEF Topic!Put, fate
  <2> QED BY <2>4 DEF Topic!TNext
<1>4. ASSUME NEW e \in Events, DelayEnds(e) \/ \E r \in Relays : ScheduleRetry(r, e)
      PROVE  UNCHANGED Topic!tvars
  <2>1. fate' = fate
    BY <1>1, <1>4 DEF DelayEnds, ScheduleRetry, Row
  <2>2. UNCHANGED <<log, ahead>>
    BY <1>4 DEF DelayEnds, ScheduleRetry
  <2> QED BY <2>1, <2>2 DEF Topic!tvars
<1>5. ASSUME NEW r \in Relays, NEW c \in Channels, Land(r, c)
      PROVE  [Topic!TNext]_Topic!tvars
  <2>1. PICK h \in Events :
          /\ h = flight[r][c][1] /\ 1 \in 1..Len(flight[r][c])
          /\ IF h \in Delivered THEN UNCHANGED log ELSE log' = Append(log, h)
    BY <1>1, <1>5, LandStep
  <2>2. UNCHANGED <<row, ahead>>
    BY <1>5 DEF Land
  <2>3. Sent(h)
    BY <2>1 DEF Sent, InFlight
  <2>4. CASE h \in Delivered
    BY <1>2, <2>1, <2>2, <2>4
  <2>5. CASE h \notin Delivered
    <3>1. /\ row[h].status # "absent"
          /\ \A f \in ahead[h] : row[f].status \in {"published", "failed"}
      BY <2>3 DEF TopicInv, OvertakeInv, NoneOvertakes
    <3>2. ahead[h] \subseteq Events
      BY <1>1, OrderTypes
    <3>3. h \notin Topic!Arrived
      BY <2>5 DEF Delivered, Topic!Arrived
    <3>4. \A f \in ahead[h] : fate[f] \in {"published", "failed"}
      BY <3>1, <3>2
    <3>5. Topic!Deliver(h)
      BY <2>1, <2>2, <2>5, <3>1, <3>3, <3>4 DEF Topic!Deliver
    <3> QED BY <3>5 DEF Topic!TNext
  <2> QED BY <2>4, <2>5
<1>6. ASSUME NEW r \in Relays, NEW e \in Events, MarkPublished(r, e)
      PROVE  [Topic!TNext]_Topic!tvars
  <2>1. UNCHANGED <<log, ahead>> /\ e \in Topic!Arrived
    BY <1>1, <1>6 DEF MarkPublished, Delivered, Topic!Arrived
  <2>2. CASE e \in Pending
    <3>1. fate[e] = "pending" /\ fate' = [fate EXCEPT ![e] = "published"]
      BY <1>1, <1>6, <2>2 DEF MarkPublished, Pending, Row
    <3> QED BY <2>1, <3>1 DEF Topic!TNext, Topic!Publish
  <2>3. CASE e \notin Pending
    <3>1. fate' = fate
      BY <1>1, <1>6, <2>3 DEF MarkPublished, Pending, Row
    <3> QED BY <2>1, <3>1 DEF Topic!tvars
  <2> QED BY <2>2, <2>3
<1>7. ASSUME NEW r \in Relays, NEW e \in Events, MarkFailed(r, e)
      PROVE  [Topic!TNext]_Topic!tvars
  <2>1. UNCHANGED <<log, ahead>>
    BY <1>7 DEF MarkFailed
  <2>2. CASE e \in Pending
    <3>1. fate[e] = "pending" /\ fate' = [fate EXCEPT ![e] = "failed"]
      BY <1>1, <1>7, <2>2 DEF MarkFailed, Pending, Row
    <3> QED BY <2>1, <3>1 DEF Topic!TNext, Topic!Park
  <2>3. CASE e \notin Pending
    BY <1>7, <2>1, <2>3 DEF MarkFailed, Topic!tvars
  <2> QED BY <2>2, <2>3
<1> QED
  BY <1>2, <1>3, <1>4, <1>5, <1>6, <1>7
  DEF vars, Next, Looping, Publishing, Tick, Start, Wake, Acquire, RoundEnds, Release,
      CallFails, Stop, ReadHeads, Crash, Lose, PublishFails, WriteFails

\* The relays implement the topic: every step of theirs, stale or not, puts,
\* delivers, publishes or parks an event as EventTopic allows, or does not show
\* (internal/outbox/relay.go:39-162, internal/outbox/repository.go:47-177).
THEOREM TopicImplemented == Spec => ImplementsTopic
<1>1. Init => Topic!TInit
  BY DEF Init, Topic!TInit
<1>2. TopicInv /\ [Next]_vars => TopicInv'
  BY StepTopic
<1>3. TopicInv /\ [Next]_vars => [Topic!TNext]_Topic!tvars
  BY TopicStep
<1>4. Init => TopicInv
  BY InitOvertake, InitAcked DEF TopicInv
<1> QED BY <1>1, <1>2, <1>3, <1>4, PTL DEF Spec, ImplementsTopic, Topic!TSpec
-----------------------------------------------------------------------------
(* Attempts *)

\* Every attempt counted, and every one a relay may still count, is a publish
\* that was begun; a goroutine has not read more attempts than the row has by
\* now; and it parks only at the limit.
AttemptsInv ==
  /\ TypesInv
  /\ \A e \in Events :
       /\ row[e].attempts + Cardinality(Working(e)) <= tries[e]
       /\ row[e].status = "failed" => row[e].attempts >= MaxPublishAttempts
       /\ Unsettled(row[e]) => \A r \in Working(e) :
            task[r][e].attempts <= row[e].attempts
       /\ \A r \in Relays :
            task[r][e].pc = "park" => LastTry(task[r][e].attempts)

LEMMA WorkingFinite ==
  ASSUME NEW e
  PROVE  IsFiniteSet(Working(e)) /\ Cardinality(Working(e)) \in Nat
<1>1. IsFiniteSet(Working(e))
  BY RelaysAssumption, FS_Subset DEF Working
<1> QED BY <1>1, FS_CardinalityType

LEMMA InitAttempts ==
  ASSUME Init
  PROVE  AttemptsInv
<1>1. \A e \in Events : Working(e) = {}
  BY DEF Init, Working, NoTask
<1>2. \A e \in Events : Cardinality(Working(e)) = 0
  BY <1>1, FS_EmptySet
<1>3. ASSUME NEW e \in Events
      PROVE  row[e].attempts = 0 /\ tries[e] = 0 /\ row[e].status = "absent"
  BY <1>3 DEF Init
<1>4. \A r \in Relays, e \in Events : task[r][e].pc = "none"
  BY DEF Init, NoTask
<1> QED BY <1>1, <1>2, <1>3, <1>4, InitTypes DEF AttemptsInv

\* An event whose row and publishes stay what they are, and on which no more
\* goroutines are at work than before.
LEMMA SameAttempts ==
  ASSUME AttemptsInv, NEW e \in Events,
         row'[e].attempts = row[e].attempts,
         row'[e].status = "failed" => row[e].status = "failed",
         Unsettled(row'[e]) => Unsettled(row[e]),
         tries'[e] = tries[e], TypesInv',
         \A r \in Relays : \/ task'[r][e].pc = "none"
                           \/ /\ task[r][e].pc # "none"
                              /\ task'[r][e].attempts = task[r][e].attempts
                              /\ task'[r][e].pc = "park" =>
                                   \/ task[r][e].pc = "park"
                                   \/ LastTry(task[r][e].attempts)
  PROVE  /\ row'[e].attempts + Cardinality(Working(e)') <= tries'[e]
         /\ row'[e].status = "failed" => row'[e].attempts >= MaxPublishAttempts
         /\ Unsettled(row'[e]) => \A r \in Working(e)' :
              task'[r][e].attempts <= row'[e].attempts
         /\ \A r \in Relays : task'[r][e].pc = "park" => LastTry(task'[r][e].attempts)
<1>1. Working(e)' \subseteq Working(e)
  BY DEF Working
<1>2. /\ Cardinality(Working(e)') <= Cardinality(Working(e))
      /\ Cardinality(Working(e)') \in Nat /\ Cardinality(Working(e)) \in Nat
  BY <1>1, WorkingFinite, FS_Subset, FS_CardinalityType
<1>3. row[e].attempts \in Nat /\ tries[e] \in Nat
  BY DEF AttemptsInv, TypesInv, TypeOK, Row
<1>4. row'[e].attempts + Cardinality(Working(e)') <= tries'[e]
  BY <1>2, <1>3 DEF AttemptsInv
<1> QED BY <1>1, <1>4 DEF AttemptsInv, Working

LEMMA ReadHeadsAttempts ==
  ASSUME AttemptsInv, TypesInv', NEW r \in Relays, ReadHeads(r)
  PROVE  AttemptsInv'
<1>1. /\ task \in [Relays -> [Events -> Task]] /\ tries \in [Events -> Nat]
      /\ row \in [Events -> Row] /\ UNCHANGED row
  BY DEF AttemptsInv, TypesInv, TypeOK, ReadHeads
<1>2. CASE UNCHANGED <<task, tries>>
  <2>1. UNCHANGED <<row, task, tries>>
    BY <1>1, <1>2
  <2>2. \A e \in Events : Working(e)' = Working(e)
    BY <2>1 DEF Working
  <2> QED BY <2>1, <2>2 DEF AttemptsInv
<1>3. ASSUME NEW due \in SeenDue, Published(r, Batch(due)) PROVE AttemptsInv'
  <2> DEFINE batch == Batch(due)
  <2>4. batch \subseteq Pending
    BY DEF Batch, Oldest, Heads
  <2> HIDE DEF batch
  <2>5. Published(r, batch)
    BY <1>3 DEF batch
  <2> SUFFICES ASSUME NEW e \in Events
               PROVE  /\ row'[e].attempts + Cardinality(Working(e)') <= tries'[e]
                      /\ row'[e].status = "failed" => row'[e].attempts >= MaxPublishAttempts
                      /\ Unsettled(row'[e]) => \A s \in Working(e)' :
                           task'[s][e].attempts <= row'[e].attempts
                      /\ \A s \in Relays :
                           task'[s][e].pc = "park" => LastTry(task'[s][e].attempts)
    BY DEF AttemptsInv
  <2>1. \A s \in Relays : s # r => task'[s][e] = task[s][e]
    BY <1>1, <2>5 DEF Published
  <2>2. CASE e \notin batch
    <3>1. tries'[e] = tries[e] /\ task'[r][e] = NoTask
      BY <1>1, <2>2, <2>5 DEF Published
    <3>2. \A s \in Relays : task'[s][e].pc = "none" \/ task'[s][e] = task[s][e]
      BY <2>1, <3>1 DEF NoTask
    <3> QED BY <1>1, <3>1, <3>2, SameAttempts
  <2>3. CASE e \in batch
    <3>1. /\ tries'[e] = tries[e] + 1
          /\ task'[r][e] = [pc |-> "publish", attempts |-> row[e].attempts]
      BY <1>1, <2>3, <2>5 DEF Published
    <3>2. Working(e)' = Working(e) \cup {r}
      BY <2>1, <3>1 DEF Working
    <3>3. Cardinality(Working(e)') <= Cardinality(Working(e)) + 1
          /\ Cardinality(Working(e)) \in Nat /\ Cardinality(Working(e)') \in Nat
      <4>1. IsFiniteSet(Working(e)) /\ Cardinality(Working(e)) \in Nat
        BY WorkingFinite
      <4>2. Cardinality(Working(e) \cup {r}) =
              IF r \in Working(e) THEN Cardinality(Working(e)) ELSE Cardinality(Working(e)) + 1
        BY <4>1, FS_AddElement
      <4> QED BY <3>2, <4>1, <4>2
    <3>4. row[e].attempts \in Nat /\ tries[e] \in Nat /\ row[e].status = "pending"
      BY <1>1, <2>3, <2>4 DEF Row, Pending
    <3>5. row[e].attempts + Cardinality(Working(e)) <= tries[e]
      BY DEF AttemptsInv
    <3>6. row'[e].attempts + Cardinality(Working(e)') <= tries'[e]
      BY <1>1, <3>1, <3>3, <3>4, <3>5
    <3>7. \A s \in Working(e)' : task'[s][e].attempts <= row'[e].attempts
      <4> SUFFICES ASSUME NEW s \in Working(e)'
                   PROVE  task'[s][e].attempts <= row'[e].attempts
        OBVIOUS
      <4>1. CASE s = r
        BY <1>1, <3>1, <3>4, <4>1
      <4>2. CASE s # r
        <5>1. s \in Working(e) /\ task'[s][e] = task[s][e]
          BY <2>1, <3>2, <4>2 DEF Working
        <5> QED BY <1>1, <3>4, <5>1 DEF AttemptsInv, Unsettled
      <4> QED BY <4>1, <4>2
    <3>8. \A s \in Relays : task'[s][e].pc = "park" => LastTry(task'[s][e].attempts)
      BY <2>1, <3>1 DEF AttemptsInv
    <3> QED BY <1>1, <3>4, <3>6, <3>7, <3>8
  <2> QED BY <2>2, <2>3
<1> QED BY <1>2, <1>3, ReadHeadsCases

LEMMA PublishingAttempts ==
  ASSUME AttemptsInv, TypesInv', NEW r \in Relays,
         NEW e \in Events, Publishing(r, e)
  PROVE  AttemptsInv'
<1>1. /\ task \in [Relays -> [Events -> Task]] /\ tries \in [Events -> Nat]
      /\ row \in [Events -> Row] /\ UNCHANGED tries /\ task[r][e] \in Task
      /\ row[e] \in Row
  BY DEF AttemptsInv, TypesInv, TypeOK, Publishing, PublishFails, MarkPublished,
         ScheduleRetry, MarkFailed, WriteFails
<1> DEFINE Good(f) ==
       /\ row[f].attempts + Cardinality(Working(f)) <= tries[f]
       /\ row[f].status = "failed" => row[f].attempts >= MaxPublishAttempts
       /\ Unsettled(row[f]) => \A s \in Working(f) :
            task[s][f].attempts <= row[f].attempts
       /\ \A s \in Relays : task[s][f].pc = "park" => LastTry(task[s][f].attempts)
<1>2. \A f \in Events : Good(f)
  BY DEF AttemptsInv
<1>3. \A s \in Relays, f \in Events :
        <<s, f>> # <<r, e>> => task'[s][f] = task[s][f]
  <2>1. \/ task' = [task EXCEPT ![r][e] = NoTask]
        \/ \E p \in {"retry", "park"} : task' = [task EXCEPT ![r][e].pc = p]
    BY DEF Finish, Publishing, PublishFails, MarkPublished, ScheduleRetry, MarkFailed,
           WriteFails
  <2> QED BY <1>1, <2>1
<1>4. \A f \in Events : f # e => row'[f] = row[f]
  BY <1>1 DEF Publishing, PublishFails, MarkPublished, ScheduleRetry, MarkFailed,
              WriteFails
<1>5. ASSUME NEW f \in Events, f # e PROVE Good(f)'
  <2>1. \A s \in Relays : task'[s][f] = task[s][f]
    BY <1>3, <1>5
  <2>2. Working(f)' = Working(f)
    BY <2>1 DEF Working
  <2> QED BY <1>1, <1>2, <1>4, <1>5, <2>1, <2>2 DEF Working
<1>6. CASE PublishFails(r, e)
  <2>1. \/ task'[r][e] = NoTask
        \/ /\ task'[r][e].attempts = task[r][e].attempts
           /\ task'[r][e].pc = "park" => LastTry(task[r][e].attempts)
    BY <1>1, <1>6 DEF PublishFails, Finish, Task
  <2>2. task[r][e].pc # "none" /\ UNCHANGED row
    BY <1>6 DEF PublishFails
  <2>3. Good(e)'
    BY <1>1, <1>3, <2>1, <2>2, SameAttempts DEF NoTask
  <2> QED BY <1>5, <2>3 DEF AttemptsInv
<1>7. CASE task'[r][e] = NoTask
  <2>1. CASE /\ row'[e].attempts = row[e].attempts
             /\ row'[e].status = "failed" => row[e].status = "failed"
             /\ Unsettled(row'[e]) => Unsettled(row[e])
    <3>1. task'[r][e].pc = "none"
      BY <1>7 DEF NoTask
    <3>2. \A t \in Relays : t # r => task'[t][e] = task[t][e]
      BY <1>3
    <3>3. \A t \in Relays : task[t][e].pc = "park" => LastTry(task[t][e].attempts)
      BY DEF AttemptsInv
    <3>4. \A t \in Relays : \/ task'[t][e].pc = "none"
                            \/ /\ task[t][e].pc # "none"
                               /\ task'[t][e].attempts = task[t][e].attempts
                               /\ task'[t][e].pc = "park" =>
                                    \/ task[t][e].pc = "park"
                                    \/ LastTry(task[t][e].attempts)
      BY <3>1, <3>2, <3>3
    <3>5. Good(e)'
      BY <1>1, <2>1, <3>4, SameAttempts
    <3> QED BY <1>5, <3>5 DEF AttemptsInv
  <2>2. CASE e \in Pending /\ (ScheduleRetry(r, e) \/ MarkFailed(r, e))
    <3>1. r \in Working(e) /\ row[e].status = "pending"
      BY <2>2 DEF Working, ScheduleRetry, MarkFailed, Pending
    <3>2. Working(e)' = Working(e) \ {r}
      BY <1>3, <1>7 DEF Working, NoTask
    <3>3. /\ Cardinality(Working(e)') = Cardinality(Working(e)) - 1
          /\ Cardinality(Working(e)) \in Nat
      BY <3>1, <3>2, WorkingFinite, FS_RemoveElement
    <3>4. /\ task[r][e].attempts \in Nat /\ row[e].attempts \in Nat
          /\ tries[e] \in Nat /\ task[r][e].attempts <= row[e].attempts
      BY <1>1, <1>2, <3>1 DEF Task, Row, Unsettled
    <3>5. /\ row'[e].attempts \in Nat /\ row'[e].attempts <= row[e].attempts + 1
          /\ ScheduleRetry(r, e) =>
               row'[e].status = "pending" /\ row'[e].attempts = row[e].attempts + 1
          /\ MarkFailed(r, e) =>
               row'[e].status = "failed" /\ row'[e].attempts = task[r][e].attempts + 1
      BY <1>1, <2>2, <3>1, <3>4 DEF ScheduleRetry, MarkFailed, Row
    <3>6. row'[e].attempts + Cardinality(Working(e)') <= tries'[e]
      BY <1>1, <1>2, <3>3, <3>4, <3>5
    <3>7. row'[e].status = "failed" => row'[e].attempts >= MaxPublishAttempts
      <4>1. CASE ScheduleRetry(r, e)
        BY <3>5, <4>1
      <4>2. CASE MarkFailed(r, e)
        BY <1>2, <3>4, <3>5, <4>2, LimitsAssumption DEF MarkFailed, LastTry
      <4> QED BY <2>2, <4>1, <4>2
    <3>8. Unsettled(row'[e]) => \A s \in Working(e)' :
            task'[s][e].attempts <= row'[e].attempts
      <4> SUFFICES ASSUME Unsettled(row'[e]), NEW s \in Working(e)'
                   PROVE  task'[s][e].attempts <= row'[e].attempts
        OBVIOUS
      <4>1. row'[e].attempts = row[e].attempts + 1
        BY <2>2, <3>5 DEF Unsettled
      <4>2. s \in Working(e) /\ s # r /\ s \in Relays
        BY <3>2 DEF Working
      <4>3. task'[s][e] = task[s][e] /\ task[s][e] \in Task
        BY <1>1, <1>3, <4>2
      <4>4. task[s][e].attempts <= row[e].attempts /\ task[s][e].attempts \in Nat
        BY <1>2, <3>1, <4>2, <4>3 DEF Task, Unsettled
      <4> QED BY <3>4, <4>1, <4>3, <4>4
    <3>9. \A s \in Relays : task'[s][e].pc = "park" => LastTry(task'[s][e].attempts)
      BY <1>2, <1>3, <1>7 DEF NoTask
    <3>10. Good(e)'
      BY <3>6, <3>7, <3>8, <3>9
    <3> QED BY <1>5, <3>10 DEF AttemptsInv
  <2> QED
    BY <1>1, <2>1, <2>2
    DEF Publishing, PublishFails, MarkPublished, ScheduleRetry, MarkFailed, WriteFails,
        Pending, Row, Unsettled
<1> QED
  BY <1>1, <1>6, <1>7
  DEF Publishing, MarkPublished, ScheduleRetry, MarkFailed, WriteFails, Finish

LEMMA StepAttempts ==
  ASSUME AttemptsInv, [Next]_vars
  PROVE  AttemptsInv'
<1>1. /\ TypesInv' /\ row \in [Events -> Row]
      /\ task \in [Relays -> [Events -> Task]] /\ flight \in [Relays -> [Channels -> Seq(Events)]]
  BY StepTypes DEF AttemptsInv, TypesInv, TypeOK
<1>2. CASE UNCHANGED <<row, task, tries>>
  BY <1>1, <1>2 DEF AttemptsInv, Working
<1>3. CASE \E e \in Events : Insert(e) \/ DelayEnds(e)
  <2>1. PICK e \in Events : Insert(e) \/ DelayEnds(e)
    BY <1>3
  <2>2. UNCHANGED <<task, tries>>
    BY <2>1 DEF Insert, DelayEnds
  <2>3. ASSUME NEW f \in Events
        PROVE  /\ row'[f].attempts = row[f].attempts
               /\ row'[f].status = "failed" => row[f].status = "failed"
               /\ Unsettled(row'[f]) => Unsettled(row[f])
    <3>1. row[f] \in Row /\ row[e] \in Row
      BY <1>1
    <3>2. CASE f # e
      <4>1. row'[f] = row[f]
        BY <1>1, <2>1, <3>2 DEF Insert, DelayEnds
      <4> QED BY <4>1
    <3>3. CASE f = e /\ Insert(e)
      <4>1. row'[e].attempts = row[e].attempts /\ row'[e].status = "pending"
            /\ row[e].status = "absent"
        BY <1>1, <3>1, <3>3 DEF Insert, Row
      <4> QED BY <3>3, <4>1 DEF Unsettled
    <3>4. CASE f = e /\ DelayEnds(e)
      <4>1. row'[e].attempts = row[e].attempts /\ row'[e].status = row[e].status
        BY <1>1, <3>1, <3>4 DEF DelayEnds, Row
      <4> QED BY <3>4, <4>1 DEF Unsettled
    <3> QED BY <2>1, <3>2, <3>3, <3>4
  <2> QED BY <1>1, <2>2, <2>3, SameAttempts DEF AttemptsInv
<1>4. ASSUME NEW r \in Relays, NEW c \in Channels, Land(r, c) PROVE AttemptsInv'
  <2> DEFINE h == Head(flight[r][c])
  <2>1. UNCHANGED <<row, tries>> /\ flight[r][c] # <<>>
    BY <1>4 DEF Land
  <2>2. h \in Events
    BY <1>1, <2>1
  <2>3. \/ task' = task
        \/ task' = [task EXCEPT ![r][h] = NoTask]
        \/ task[r][h].pc = "publish" /\ task' = [task EXCEPT ![r][h].pc = "mark"]
    BY <1>4 DEF Land
  <2> HIDE DEF h
  <2>4. ASSUME NEW s \in Relays, NEW e \in Events
        PROVE  \/ task'[s][e].pc = "none"
               \/ task'[s][e] = task[s][e] /\ task[s][e].pc # "none"
               \/ /\ task[s][e].pc # "none" /\ task'[s][e].pc = "mark"
                  /\ task'[s][e].attempts = task[s][e].attempts
    <3>1. task[r][h] \in Task /\ task[s][e] \in Task
      BY <1>1, <2>2
    <3>2. CASE s # r \/ e # h \/ task' = task
      <4>1. task'[s][e] = task[s][e]
        BY <1>1, <2>2, <2>3, <3>2
      <4> QED BY <4>1
    <3>3. CASE s = r /\ e = h /\ task' = [task EXCEPT ![r][h] = NoTask]
      BY <1>1, <2>2, <3>3 DEF NoTask
    <3>4. CASE /\ s = r /\ e = h /\ task[r][h].pc = "publish"
               /\ task' = [task EXCEPT ![r][h].pc = "mark"]
      BY <1>1, <2>2, <3>1, <3>4 DEF Task
    <3> QED BY <2>3, <3>2, <3>3, <3>4
  <2> QED BY <1>1, <2>1, <2>4, SameAttempts DEF AttemptsInv
<1>5. ASSUME NEW r \in Relays, Crash(r) PROVE AttemptsInv'
  <2>1. UNCHANGED <<row, tries>>
    BY <1>5 DEF Crash
  <2>2. \A s \in Relays, e \in Events :
          task'[s][e].pc = "none" \/ task'[s][e] = task[s][e]
    BY <1>1, <1>5 DEF Crash, NoTask
  <2> QED BY <1>1, <2>1, <2>2, SameAttempts DEF AttemptsInv
<1> QED
  BY <1>1, <1>2, <1>3, <1>4, <1>5, ReadHeadsAttempts, PublishingAttempts
  DEF vars, Next, Looping, Tick, Start, Wake, Acquire, RoundEnds, Release, CallFails,
      Stop, Lose

\* However many relays work on an event at once, no attempt is counted that was
\* not made, and none parks it before the limit is reached
\* (internal/outbox/relay.go:124-162, internal/outbox/repository.go:141-177).
THEOREM ParkedAfterAttempts == Spec => []ParkedOnlyAfterAttempts
<1>1. AttemptsInv /\ [Next]_vars => AttemptsInv'
  BY StepAttempts
<1>2. AttemptsInv => ParkedOnlyAfterAttempts
  <2> SUFFICES ASSUME AttemptsInv, NEW e \in Events PROVE row[e].attempts <= tries[e]
    BY DEF AttemptsInv, ParkedOnlyAfterAttempts
  <2>1. Cardinality(Working(e)) \in Nat
    BY WorkingFinite
  <2>2. row[e].attempts \in Nat /\ tries[e] \in Nat
    BY DEF AttemptsInv, TypesInv, TypeOK, Row
  <2> QED BY <2>1, <2>2 DEF AttemptsInv
<1>3. Init => AttemptsInv
  BY InitAttempts
<1> QED BY <1>1, <1>2, <1>3, PTL DEF Spec
=============================================================================

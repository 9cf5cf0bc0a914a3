---------------------------- MODULE OutboxRelay ----------------------------
(***************************************************************************)
(* The relays that carry the outbox to Kafka: one in every process of the  *)
(* service, of which the holder of a lease in MongoDB publishes the oldest *)
(* pending event of each channel, a batch of channels at a time.           *)
(*                                                                         *)
(* Durations are counted in ticks by timers: how long a relay has been at  *)
(* its call, and in its round.  A call ends at the latest when its timeout *)
(* does, which holds back Tick.  The time of day is each process's own:    *)
(* time.Now() is off the common time by at most MaxSkew, either way, by an *)
(* amount that may differ at every reading.                                *)
(***************************************************************************)
EXTENDS Integers, Sequences, FiniteSets

CONSTANTS
  Relays,              \* processes of the service
  Channels,
  Events,              \* the events that are inserted
  ChannelOf,           \* [Events -> Channels]: the partition key
  Version,             \* [Events -> Nat]: aggregate_version
  CreatedAt,           \* [Events -> Nat]: created_at, then _id
  MaxPublishAttempts,  \* 3 in the code
  HeadLimit,           \* maxPendingChannelHeads, 1000 in the code
  BatchLimit,          \* maxParallelPublishes, 16 in the code
  LeaseDuration,       \* ticks the lease is taken for
  PublishTimeout,      \* ticks a publish may take
  MongoTimeout,        \* ticks a MongoDB call may take
  HeadsTimeout,        \* ticks the calls of PendingChannelHeads may take together
  MaxSkew,             \* ticks a process's clock may be off
  MaxFaults,           \* crashes, shutdowns and MongoDB errors in a run
  None

ASSUME PlacementAssumption ==
  /\ ChannelOf \in [Events -> Channels]
  /\ Version \in [Events -> Nat]
  /\ \A e, f \in Events :
       ChannelOf[e] = ChannelOf[f] /\ Version[e] = Version[f] => e = f
  /\ CreatedAt \in [Events -> Nat]
  /\ \A e, f \in Events : CreatedAt[e] = CreatedAt[f] => e = f
ASSUME RelaysAssumption == IsFiniteSet(Relays) /\ Relays # {} /\ None \notin Relays
ASSUME LimitsAssumption ==
  /\ MaxPublishAttempts \in Nat \ {0} /\ HeadLimit \in Nat \ {0}
  /\ BatchLimit \in Nat \ {0} /\ MaxFaults \in Nat
ASSUME TimesAssumption ==
  /\ MongoTimeout \in Nat /\ HeadsTimeout \in Nat /\ MaxSkew \in Nat
  /\ PublishTimeout \in Nat \ {0}
  /\ LeaseDuration \in Nat /\ LeaseDuration > PublishTimeout

VARIABLES
  row,     \* [Events -> Row]: the documents of outbox_events
  lease,   \* the document of outbox_relay_leases
  relay,   \* [Relays -> Relay]: where each relay is in its loop
  task,    \* [Relays -> [Events -> Task]]: the goroutines of its batch
  flight,  \* [Relays -> [Channels -> Seq(Events)]]: writes with the Kafka writer
  log,     \* the topic: events in the order they first got there
  ahead,   \* auxiliary: [Events -> SUBSET Events], the older events of its
           \* channel that were in the outbox before an event was
  tries,   \* auxiliary: [Events -> Nat], publishes begun
  faults   \* crashes, shutdowns and MongoDB errors yet to come

vars == <<row, lease, relay, task, flight, log, ahead, tries, faults>>

Row   == [status : {"absent", "pending", "published", "failed"},
          attempts : Nat, due : BOOLEAN]
\* left is counted in common time, and no further than it takes for the lease
\* to have run out by every clock and as of every reading of one.
RunOut == 0 - (MongoTimeout + MaxSkew)
Lease == [owner : Relays \cup {None}, left : RunOut..(LeaseDuration + MaxSkew)]
\* age counts from the start of the call on, round from time.Now() before the
\* election, which is auxiliary.
Relay == [pc : {"down", "wait", "acquire", "heads", "publish"}, age : Nat,
          round : Nat, stop : BOOLEAN]
Task  == [pc : {"none", "publish", "mark", "retry", "park"}, attempts : Nat]

NoTask == [pc |-> "none", attempts |-> 0]
NoLease == [owner |-> None, left |-> RunOut]
Begin(p) == [pc |-> p, age |-> 0, round |-> 0, stop |-> FALSE]

Init ==
  /\ row    = [e \in Events |->
                [status |-> "absent", attempts |-> 0, due |-> TRUE]]
  /\ lease  = NoLease
  /\ relay  = [r \in Relays |-> Begin("down")]
  /\ task   = [r \in Relays |-> [e \in Events |-> NoTask]]
  /\ flight = [r \in Relays |-> [c \in Channels |-> <<>>]]
  /\ log    = <<>>
  /\ ahead  = [e \in Events |-> {}]
  /\ tries  = [e \in Events |-> 0]
  /\ faults = MaxFaults

Pending   == {e \in Events : row[e].status = "pending"}
Delivered == {log[i] : i \in 1..Len(log)}
Busy(r)   == {e \in Events : task[r][e].pc # "none"}
Peers(e)  == {f \in Events : ChannelOf[f] = ChannelOf[e]}
Clock     == (0 - MaxSkew)..MaxSkew    \* what a process's clock may be off by

\* On to the next call, of this round or of another.
GoOn(r, p)  == relay' = [relay EXCEPT ![r].pc = p, ![r].age = 0]
Begins(r, p) == relay' = [relay EXCEPT ![r].pc = p, ![r].age = 0, ![r].round = 0]
Finish(r, e) == task' = [task EXCEPT ![r][e] = NoTask]

\* A MongoDB call of r fails: because its context is cancelled or otherwise.
Failure(r) ==
  \/ relay[r].stop /\ UNCHANGED faults
  \/ faults > 0 /\ faults' = faults - 1
-----------------------------------------------------------------------------
(* The outbox and the clock *)

\* A request of the chat inserts its event, as the last of its calls
\* (message.repo.go:158, 290, 379).  The version was taken by a call of its own
\* before (128, 262, 350): a later one may be inserted earlier.
Insert(e) ==
  /\ row[e].status = "absent"
  /\ row' = [row EXCEPT ![e].status = "pending"]
  /\ ahead' = [ahead EXCEPT ![e] =
       {f \in Peers(e) : Version[f] < Version[e] /\ row[f].status # "absent"}]
  /\ UNCHANGED <<lease, relay, task, flight, log, tries, faults>>

\* next_attempt_at has come.
DelayEnds(e) ==
  /\ e \in Pending /\ ~row[e].due
  /\ row' = [row EXCEPT ![e].due = TRUE]
  /\ UNCHANGED <<lease, relay, task, flight, log, ahead, tries, faults>>

\* No call outlasts its timeout.  The writes that end a publish have theirs
\* counted from the timeout of the publish on.
InTime(r) ==
  /\ relay[r].pc = "acquire" => relay[r].age < MongoTimeout
  /\ relay[r].pc = "heads" => relay[r].age < HeadsTimeout
  /\ relay[r].pc = "publish" =>
       /\ relay[r].age < PublishTimeout + MongoTimeout
       /\ (\E e \in Events : task[r][e].pc = "publish") => relay[r].age < PublishTimeout

Tick ==
  /\ \A r \in Relays : InTime(r)
  /\ lease' = [lease EXCEPT !.left = IF @ > RunOut THEN @ - 1 ELSE @]
  /\ relay' = [r \in Relays |->
       IF relay[r].pc \in {"acquire", "heads", "publish"}
       THEN [relay[r] EXCEPT !.age = @ + 1, !.round = @ + 1] ELSE relay[r]]
  /\ UNCHANGED <<row, task, flight, log, ahead, tries, faults>>
-----------------------------------------------------------------------------
(* The loop of a relay *)

Start(r) ==
  /\ relay[r].pc = "down"
  /\ \A c \in Channels : flight[r][c] = <<>>
  /\ relay' = [relay EXCEPT ![r] = Begin("acquire")]
  /\ UNCHANGED <<row, lease, task, flight, log, ahead, tries, faults>>

Wake(r) ==
  /\ relay[r].pc = "wait" /\ ~relay[r].stop
  /\ Begins(r, "acquire")
  /\ UNCHANGED <<row, lease, task, flight, log, ahead, tries, faults>>

\* The filter of the lease, as of the time the relay read before its call, by a
\* clock that is off by so much.
Free(r, off) == lease.owner = r \/ lease.left + relay[r].age <= off

TakenOnTop(r, off) == [owner |-> r, left |-> lease.left + LeaseDuration]  \* mutant of Taken

TakenOnce(r, off) ==                               \* mutant of Taken
  IF lease.owner = r THEN lease
  ELSE [owner |-> r, left |-> LeaseDuration + off - relay[r].age]

\* The lease lasts from that time on as well.
Taken(r, off) == [owner |-> r, left |-> LeaseDuration + off - relay[r].age]

Acquire(r) ==
  /\ relay[r].pc = "acquire"
  /\ \E off \in Clock :
       \/ /\ Free(r, off)
          /\ lease' = Taken(r, off)
          /\ IF relay[r].stop THEN Begins(r, "wait") ELSE GoOn(r, "heads")
       \/ /\ ~Free(r, off)
          /\ Begins(r, "wait")
          /\ UNCHANGED lease
  /\ UNCHANGED <<row, task, flight, log, ahead, tries, faults>>

\* The answer of the call is an error, whether it took the lease or not.
CallFails(r) ==
  /\ \/ /\ relay[r].pc = "acquire"
        /\ \E off \in Clock : Free(r, off) /\ lease' = Taken(r, off)
     \/ relay[r].pc \in {"acquire", "heads"} /\ UNCHANGED lease
  /\ Failure(r)
  /\ Begins(r, "wait")
  /\ UNCHANGED <<row, task, flight, log, ahead, tries>>

HeadsOfDue ==                                      \* mutant of Heads
  {e \in Pending : row[e].due /\ \A f \in Pending \cap Peers(e) :
                                  row[f].due => Version[f] >= Version[e]}
HeadsBehindParked ==                               \* mutant of Heads
  {e \in Pending : \A f \in Peers(e) :
                     row[f].status \in {"pending", "failed"} => Version[f] >= Version[e]}

\* PendingChannelHeads, without its limit.
Heads == {e \in Pending : \A f \in Pending \cap Peers(e) : Version[f] >= Version[e]}

\* The n oldest of a set of events.
Oldest(n, S) == {e \in S : Cardinality({f \in S : CreatedAt[f] < CreatedAt[e]}) < n}

\* By a clock that is behind, a delay that has ended has not.
Due == {e \in Pending : row[e].due}
SeenDue == IF MaxSkew = 0 THEN {Due} ELSE SUBSET Due

Batch(due) == Oldest(BatchLimit, Oldest(HeadLimit, Heads) \cap due)

\* The Kafka writer queues by partition.  Writing an event again right behind
\* itself makes no difference to the order in which events get there.
Queued(q, e) == IF q # <<>> /\ q[Len(q)] = e THEN q ELSE Append(q, e)

\* The batch is handed to its goroutines, each of which begins to publish.
ReadHeads(r) ==
  /\ relay[r].pc = "heads"
  /\ \E batch \in {Batch(due) : due \in SeenDue} :
       \/ /\ batch = {}
          /\ Begins(r, "wait")
          /\ UNCHANGED <<task, flight, tries>>
       \/ /\ batch # {}
          /\ GoOn(r, "publish")
          /\ task' = [task EXCEPT ![r] = [e \in Events |->
               IF e \in batch THEN [pc |-> "publish", attempts |-> row[e].attempts]
                              ELSE NoTask]]
          /\ flight' = [flight EXCEPT ![r] = [c \in Channels |->
               IF \E e \in batch : ChannelOf[e] = c
               THEN Queued(flight[r][c], CHOOSE e \in batch : ChannelOf[e] = c)
               ELSE flight[r][c]]]
          /\ tries' = [e \in Events |-> IF e \in batch THEN tries[e] + 1 ELSE tries[e]]
  /\ UNCHANGED <<row, lease, log, ahead, faults>>

\* workers.Wait returns.
RoundEnds(r) ==
  /\ relay[r].pc = "publish" /\ Busy(r) = {} /\ ~relay[r].stop
  /\ Begins(r, "acquire")
  /\ UNCHANGED <<row, lease, task, flight, log, ahead, tries, faults>>
-----------------------------------------------------------------------------
(* Publishing an event *)

\* The broker takes the oldest write.  The goroutine that waits for it goes on
\* to mark the event, which fails at once where its context is cancelled.
Land(r, c) ==
  /\ flight[r][c] # <<>>
  /\ LET e == Head(flight[r][c]) IN
       /\ log' = IF e \in Delivered THEN log ELSE Append(log, e)
       /\ task' = IF task[r][e].pc # "publish" THEN task
                  ELSE IF relay[r].stop THEN [task EXCEPT ![r][e] = NoTask]
                  ELSE [task EXCEPT ![r][e].pc = "mark"]
  /\ flight' = [flight EXCEPT ![r][c] = Tail(@)]
  /\ UNCHANGED <<row, lease, relay, ahead, tries, faults>>

\* The broker refuses it, or does not get it.
Lose(r, c) ==
  /\ flight[r][c] # <<>>
  /\ flight' = [flight EXCEPT ![r][c] = Tail(@)]
  /\ UNCHANGED <<row, lease, relay, task, log, ahead, tries, faults>>

LastTryTooEarly(attempts) == attempts + 2 >= MaxPublishAttempts  \* mutant of LastTry

\* The last try is the one that reaches the limit.
LastTry(attempts) == attempts + 1 >= MaxPublishAttempts

\* Publish returns an error or times out; the write may still be under way.
PublishFails(r, e) ==
  /\ task[r][e].pc = "publish"
  /\ IF relay[r].stop THEN Finish(r, e)
     ELSE task' = [task EXCEPT ![r][e].pc =
                    IF LastTry(task[r][e].attempts) THEN "park" ELSE "retry"]
  /\ UNCHANGED <<row, lease, relay, flight, log, ahead, tries, faults>>

MarkPublishedAtOnce(r, e) ==                       \* mutant of MarkPublished
  /\ task[r][e].pc \in {"publish", "mark"}
  /\ row' = [row EXCEPT ![e].status = IF @ = "pending" THEN "published" ELSE @]
  /\ Finish(r, e)
  /\ UNCHANGED <<lease, relay, flight, log, ahead, tries, faults>>

MarkPublished(r, e) ==
  /\ task[r][e].pc = "mark"
  /\ row' = [row EXCEPT ![e].status = IF @ = "pending" THEN "published" ELSE @]
  /\ Finish(r, e)
  /\ UNCHANGED <<lease, relay, flight, log, ahead, tries, faults>>

ScheduleRetryUncounted(r, e) ==                    \* mutant of ScheduleRetry
  /\ task[r][e].pc = "retry"
  /\ row' = IF e \notin Pending THEN row ELSE [row EXCEPT ![e].due = FALSE]
  /\ Finish(r, e)
  /\ UNCHANGED <<lease, relay, flight, log, ahead, tries, faults>>

ScheduleRetry(r, e) ==
  /\ task[r][e].pc = "retry"
  /\ row' = IF e \notin Pending THEN row
            ELSE [row EXCEPT ![e].attempts = @ + 1, ![e].due = FALSE]
  /\ Finish(r, e)
  /\ UNCHANGED <<lease, relay, flight, log, ahead, tries, faults>>

MarkFailedAnyway(r, e) ==                          \* mutant of MarkFailed
  /\ task[r][e].pc = "park"
  /\ row' = [row EXCEPT ![e].status = "failed",
                        ![e].attempts = task[r][e].attempts + 1]
  /\ Finish(r, e)
  /\ UNCHANGED <<lease, relay, flight, log, ahead, tries, faults>>

MarkFailed(r, e) ==
  /\ task[r][e].pc = "park"
  /\ row' = IF e \notin Pending THEN row
            ELSE [row EXCEPT ![e].status = "failed",
                             ![e].attempts = task[r][e].attempts + 1]
  /\ Finish(r, e)
  /\ UNCHANGED <<lease, relay, flight, log, ahead, tries, faults>>

\* One of these three writes fails: the event stays as it is.
WriteFails(r, e) ==
  /\ task[r][e].pc \in {"mark", "retry", "park"}
  /\ Failure(r)
  /\ Finish(r, e)
  /\ UNCHANGED <<row, lease, relay, flight, log, ahead, tries>>
-----------------------------------------------------------------------------
(* The end of a process *)

\* A process that is no more keeps its lease until it runs out: the next one
\* comes with an owner id of its own.
Orphaned(r) == IF lease.owner = r THEN [lease EXCEPT !.owner = None] ELSE lease

\* What was sent to Kafka may still land.
Crash(r) ==
  /\ relay[r].pc # "down"
  /\ faults > 0 /\ faults' = faults - 1
  /\ relay' = [relay EXCEPT ![r] = Begin("down")]
  /\ lease' = Orphaned(r)
  /\ task' = [task EXCEPT ![r] = [e \in Events |-> NoTask]]
  /\ UNCHANGED <<row, flight, log, ahead, tries>>

\* The context of Run is cancelled.
Stop(r) ==
  /\ relay[r].pc # "down" /\ ~relay[r].stop
  /\ faults > 0 /\ faults' = faults - 1
  /\ relay' = [relay EXCEPT ![r].stop = TRUE]
  /\ UNCHANGED <<row, lease, task, flight, log, ahead, tries>>

\* Run returns and releases the lease, if MongoDB lets it; the Kafka writer is
\* closed afterwards, which waits for the writes under way.
Release(r) ==
  /\ relay[r].stop
  /\ relay[r].pc \in {"wait", "publish"} /\ Busy(r) = {}
  /\ relay' = [relay EXCEPT ![r] = Begin("down")]
  /\ lease' \in {Orphaned(r), IF lease.owner = r THEN NoLease ELSE lease}
  /\ UNCHANGED <<row, task, flight, log, ahead, tries, faults>>
-----------------------------------------------------------------------------
Publishing(r, e) ==
  \/ PublishFails(r, e) \/ MarkPublished(r, e) \/ ScheduleRetry(r, e)
  \/ MarkFailed(r, e) \/ WriteFails(r, e)

Looping(r) ==
  Start(r) \/ Wake(r) \/ Acquire(r) \/ ReadHeads(r) \/ RoundEnds(r) \/ Release(r)

Next ==
  \/ \E e \in Events : Insert(e) \/ DelayEnds(e)
  \/ Tick
  \/ \E r \in Relays : Looping(r) \/ CallFails(r) \/ Crash(r) \/ Stop(r)
  \/ \E r \in Relays, c \in Channels : Land(r, c) \/ Lose(r, c)
  \/ \E r \in Relays, e \in Events : Publishing(r, e)

Spec == Init /\ [][Next]_vars

\* Time goes on, every goroutine that can move on does, Kafka deals with every
\* write it is given, and a process that ended is started again, as the
\* stack file of the deployment says.  Faults are as many as MaxFaults.
Fairness ==
  /\ SF_vars(Tick)
  /\ \A e \in Events : WF_vars(DelayEnds(e))
  /\ \A r \in Relays :
       /\ WF_vars(Looping(r))
       /\ \A c \in Channels : WF_vars(Land(r, c) \/ Lose(r, c))
       /\ \A e \in Events : WF_vars(Publishing(r, e))

LiveSpec == Spec /\ Fairness

\* Types, with the lease never held for longer than its duration.
TypeOK ==
  /\ row \in [Events -> Row]
  /\ lease \in Lease
  /\ relay \in [Relays -> Relay]
  /\ task \in [Relays -> [Events -> Task]]
  /\ flight \in [Relays -> [Channels -> Seq(Events)]]
  /\ log \in Seq(Events)
  /\ ahead \in [Events -> SUBSET Events]
  /\ tries \in [Events -> Nat]
  /\ faults \in Nat
-----------------------------------------------------------------------------
(* Properties *)

\* docs/chat-outbox-producer.md:139: only the leader works on the outbox.
OneLeaderPublishes ==
  \A r, s \in Relays : Busy(r) # {} /\ Busy(s) # {} => r = s

\* By no clock has the lease run out that was taken for this round.
InTerm(r) == relay[r].round + 2 * MaxSkew < LeaseDuration

\* What the election ensures of that: two relays are at work at once only if the
\* round of one has outlasted its lease, by the clocks of the two.
OneLeaderInTerm ==
  \A r, s \in Relays :
    Busy(r) # {} /\ InTerm(r) /\ Busy(s) # {} /\ InTerm(s) => r = s

\* An event is marked published only after Kafka has taken it.
PublishedWasDelivered ==
  \A e \in Events : row[e].status = "published" => e \in Delivered

\* An event is parked only after the full number of publishes, and none is
\* counted that was not made, however many relays work on it.
ParkedOnlyAfterAttempts ==
  \A e \in Events :
    /\ row[e].attempts <= tries[e]
    /\ row[e].status = "failed" => row[e].attempts >= MaxPublishAttempts

\* A verdict stands: a relay that has lost its lease does not overrule the one
\* that took over.
SettledIsFinal ==
  [][\A e \in Events :
       row[e].status \in {"published", "failed"} =>
         row'[e].status = row[e].status]_vars

\* The relays implement the topic of EventTopic: what they do with leases,
\* batches, retries and writers is hidden, and what followers rely on is left.
Topic == INSTANCE EventTopic WITH
  fate    <- [e \in Events |-> row[e].status],
  arrived <- log

ImplementsTopic == Topic!TSpec

\* internal/outbox/repository.go:44-46, README.md:102 and docs/chat-outbox-
\* producer.md:86: the events of a channel get to the topic in the order of
\* their versions, though some may be missing and some come again.
InVersionOrder ==
  \A i, j \in 1..Len(log) :
    i < j /\ ChannelOf[log[i]] = ChannelOf[log[j]]
    => Version[log[i]] < Version[log[j]]

\* What the heads ensure of that, however many relays are at work: an event gets
\* to the topic before an older one of its channel only if that was inserted
\* later, or given up.
OvertakesOnlyLateOrParked ==
  \A i, j \in 1..Len(log) :
    i < j /\ log[j] \in ahead[log[i]] => row[log[j]].status = "failed"

\* README.md:102 allows an event three publishes.  An attempt is counted after
\* the fact: it takes a crash, a shutdown or a failed write for each publish
\* beyond them, or another relay at work meanwhile, two for each other relay.
ExtraTriesAccounted ==
  \A e \in Events :
    tries[e] <= MaxPublishAttempts + (MaxFaults - faults)
                  + 2 * (Cardinality(Relays) - 1)

\* internal/outbox/repository.go:84-85: a delayed event blocks only its own
\* channel; while the oldest event of some channel is due there is a batch.
DelayBlocksOwnChannelOnly == (\E e \in Heads : row[e].due) => Batch(Due) # {}

\* Every event in the outbox is published or parked in the end, whichever
\* process holds the lease when it dies.
EventuallySettled ==
  \A e \in Events :
    row[e].status = "pending" ~> row[e].status \in {"published", "failed"}
=============================================================================

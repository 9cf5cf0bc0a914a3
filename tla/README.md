# Verification of lens-chat-service

The chat service stores direct conversations in a **standalone MongoDB**: no
transactions, every call atomic on one document only. What it promises –
gap-free numbering, idempotent posts, one channel per pair of users, one version
per event, events delivered at least once and in order – has to come out of
single-document calls, unique indexes, optimistic retries and a lease. That is
what is modelled here, one MongoDB call at a time, together with the client that
follows a channel and the process that runs it all.

Paths below are relative to the repository's root; `PROJECT.json` has the line
numbers (`map`), the hazards and the mutants.

## 1. Inventory

| Component | Source | State | Operations |
|---|---|---|---|
| Message repository and service | `internal/message/message.service.go`, `internal/message/repo/message.repo.go` | collections `messages`, `channel_states`, the summary and version fields of `channels` | post, AI reply, edit, recall, advance read cursor, list |
| Channel directory | `internal/channel/*` | collection `channels` | open a direct channel (upsert by `direct_key`), get, list |
| Outbox repository | `internal/outbox/repository.go` | collections `outbox_events`, `outbox_relay_leases` | take/release the lease, read the heads, mark published, schedule a retry, park |
| Outbox relay | `internal/outbox/relay.go` | loop position, goroutines of a batch | Run, publishChannelHeads |
| Kafka publisher | `internal/outbox/publisher.go` | the queues of the kafka-go writer | Publish, Close |
| Lifecycle | `internal/initialize/run.go`, `cmd/server` | HTTP server, relay, MongoDB client, Kafka writer | start, serve, shut down |
| Configuration | `internal/initialize/config.go` | the settings | load and check |
| Authentication | `internal/middleware/keycloak.middleware.go` | the public key | verify a token |
| Routing, controllers, DTOs, mapping, CORS, metrics | rest of `internal/`, `pkg/` | none that steers anything | translate, render |

**Interactions.** An HTTP request runs in a goroutine of its own: controller →
service → repository → MongoDB. A write ends by inserting a document into
`outbox_events`, which is the only thing the request side and the relay share.
Every process runs one relay; the relays elect a leader by a lease document and
the leader publishes to Kafka and writes the outcome back into the row. Clients
follow the topic and load pages of the history where they miss something. `Run`
builds the parts on one another and takes them down in the opposite order.

**What is hard.** Requests interleave at every MongoDB call and may end after
any of them (error, cancelled context, dead process), leaving what they wrote.
An operator may clear `active` of a channel under way. Relays crash, are shut
down, lose the lease while at work; a publish that timed out may still land;
counts and marks are written after the fact. Clients read pages of a history
that changes and get its events late, twice, out of order or not at all. A
signal may come at any point of the start, and handlers may outlast the
shutdown.

**What makes each part correct.**
*Posting*: sequences of a channel are 1, 2, … without duplicates or gaps; one
message per idempotency key; the summary names the newest summarised message
and only moves forward.
*Revising*: the first change to a revision wins, a recall is final.
*Cursors*: only move forward, never past the summary.
*Events*: one version each, telling of what really is stored.
*Directory*: one channel per pair, whoever loses the race for it is answered
with the winner's.
*Relay*: one leader as long as its lease lasts, published means delivered,
verdicts stand, attempts are counted, no event overtakes an older one that is
still to be published, everything is settled in the end.
*Client*: shows every change up to the version it is at, nothing the store did
not say, and no gap.
*Process*: nobody is served without indexes, the relay never works on closed
means, whatever fails everything is closed, and it ends.

## 2. Modules

| Module | What it is |
|---|---|
| `ChatDocs` | documents, requests and events of the message repository, and their types |
| `SendMessage` | `Service.Create`, `Service.CreateAIReply`, `Repository.Create` |
| `ReviseMessage` | `Service.Edit`, `Service.Recall`, `Repository.mutate` |
| `ReadCursor` | `Service.Read`, `Repository.Read` |
| `ChatStore` | composes the three: initial state, failures, the specification and its properties |
| `ChatHistory` | abstract specification of `ChatStore`: a history per channel, each action one atomic step |
| `ChatPipeline` | `ChatStore` with a client that applies events and loads pages (`Service.List`, `Repository.List`) |
| `ChannelDirectory` | `Service.Create`, `Repository.GetOrCreate` of channels |
| `OutboxRelay` | lease, relay loop, goroutines, outbox rows, Kafka writers, clocks |
| `EventTopic` | abstract specification of `OutboxRelay` towards those who follow the topic |
| `Lifecycle` | `Run`: configuration, start, serving, shutdown |
| `ChatStoreInv` | the inductive invariants of `ChatStore` |
| `ChatStoreProofs`, `ChatEventProofs`, `ChatAnswerProofs` | proofs about `ChatStore`: the history, its events, the answers to posts |
| `OutboxLeaderProofs`, `OutboxTopicProofs` | proofs about `OutboxRelay`: the election and the attempts; verdicts, order and the topic |
| `ChatPipelineProofs`, `ChannelDirectoryProofs`, `LifecycleProofs` | proofs about the others |
| `MCChatStore`, `MCChatPipeline`, `MCChannelDirectory`, `MCLifecycle`, `MCOutboxRelay` | instances for TLC |

### The message repository (`ChatStore`)

A request is a record `req[r]` whose `pc` names the MongoDB call it makes next;
its other fields are the local variables that live across calls (`doc` the
message last read or written, `seq` the sequence to insert, `version` the
version just taken, …). Each action is one MongoDB call together with the
code up to the next one. The arrival of a request is merged with its first
call. The order of the calls is the code's:

- *post* `CreateGet` (Channels.Get, validation) → `CheckReply` → `Lookup`
  (existing) → `FindChannel` → `FindLatest` → `Insert` → (`Relookup` → round
  again) → `Summary` (→ `Undo`) → `CreatedEvent`;
- *AI reply* `AIReplyGet` → `CheckSource` → as above;
- *edit, recall* `ReviseGet` → `Authorize` → `CompareAndSet` → `ReviseBump` →
  `RevisedEvent`;
- *read* `ReadGet` → `UpdateCursor` → (`UpsertCursor`) → `FetchCursor` or
  `PeekCursor` → `ReadBump` → `AdvancedEvent`. The upsert of `UpdateOne` is two
  steps, its search and its insert, which is what lets the unique index refuse
  it.

`Abort` ends a request at any call: a MongoDB error, a cancelled context, a
dead process. A call that was carried out without its answer getting back is
that step followed by `Abort`. `Deactivate` clears the active flag of a
channel; nothing in the service does, yet every channel write tests it, so it
is external: an operator at the database. Nothing sets the flag again.

Abstractions. An ObjectID or event UUID is named after the request that mints
it, so an identifier is never minted twice. The document of a message is
absent while its `seq` is 0, a cursor while its value is 0 (the DTO wants 1 or
more). A payload is a member of `Bodies`: type and content, for an AI reply the
content and `expected_last_seq`, which goes into the hash and nowhere else
(`internal/dto/message.dto.go:12-13`); everything the validation rejects is the one
payload `Malformed`. The SHA-256 of the request is the tuple of what goes into
it, i.e. there are no collisions; a user's and an AI worker's request never have
the same JSON. The content of a message is named after the payload it came with,
which tells at least as many apart as their texts do. Times are left out: no
guard of this part reads one. `MaxAttempts` stands for the 64 tries of the
insert loop.

`ChatHistory` is what this amounts to: messages are posted, announced, revised,
withdrawn and marked as read, each in one step. A post takes place at its
`Insert`, is announced at its `Summary`; a revision at its `CompareAndSet`; all
other calls do not show.

### The client (`ChatPipeline`)

The client is external: `README.md:98` says what consumers have to do (dedupe
by `event_id`, apply by `aggregate_version`, load the history on a gap), and
`Receive` does that. Any event of the outbox may reach it at any time, any number
of times or never, which takes in all that `EventTopic` – and so `OutboxRelay` –
lets the topic do. The pages are the code's: `LoadGet` is `Channels.Get` of
`Service.List`, `LoadFind` the `Find` of `Repository.List`, taken to be one atomic
read of at most one batch. `ListForAI` is the same read with its page reversed
and a fixed limit, so it has no action of its own.

### The channel directory (`ChannelDirectory`)

The upsert of `FindOneAndUpdate` is a `Search` and an `Insert`. If the unique
index on `direct_key` turns the insert away, MongoDB searches again by itself or
reports the duplicate, upon which the code reads the channel (`Reread`). The
`direct_key` is the pair in the order of the ids, i.e. its hash has no
collisions. `Service.Get` is `CanAccess` of `ChatDocs`.

### The relays (`OutboxRelay`)

`relay[r].pc` is the place in the loop of `Run`: `down`, `acquire`, `heads`,
`publish` (in `publishChannelHeads`), `wait`. `task[r][e]` is the goroutine for
event `e` of the batch: it publishes, then marks, schedules a retry or parks.
`row` is `outbox_events`, `lease` the one lease document, `flight` the
partition queues of the Kafka writer of a process, `log` the topic.

Durations are kept by timers, in ticks of a common time: `lease.left` counts down,
`relay[r].age` counts up from the start of a call. A call ends at its timeout at
the latest, which is expressed by `Tick` being blocked (`InTime`): the MongoDB
timeout is the client's (`SetTimeout` in `connectMongo`), the publish timeout that
of `publishChannelHeads`. `PendingChannelHeads` is an aggregate and the `getMore`s
of `cursor.All`, each with a timeout of its own, so it has a parameter of its own,
`HeadsTimeout`. A publishing round has one timer: publishes end by
`PublishTimeout`, the writes after them by `PublishTimeout + MongoTimeout`; a write
that begins early gets more time than it has, which only adds behaviours. That
timers run at the same rate everywhere is assumed.

The time of day is another matter: `Run` takes `time.Now()` in its own process, and
`AcquireRelayLease` compares that with what another process wrote. Each reading of
a clock is therefore off the common time by some amount of `Clock`, up to
`MaxSkew` ticks either way and not the same twice (which takes in clocks that are
set). A process that is ahead by `off` finds a lease free (`Free`) that lasts
another `off` ticks, and takes one (`Taken`) that lasts as much longer; both go by
the time it read *before* its call, hence the age. `relay[r].round` is how long ago
that was, for the properties only. The delay before a retry is a flag `due` that
`DelayEnds` sets at any time; a relay whose clock is off may still see as delayed
what is due (`SeenDue`).

An event has its version before it is inserted (`Version`: another call takes it),
and its `created_at` too (`CreatedAt`), so `Insert` takes the events in any order.
`ahead[e]`, for the properties only, is which older events of its channel were
there when `e` was inserted.

A process that dies leaves its lease to nobody (`Orphaned`), since the next one
draws a new owner id. What it had given to Kafka may land after its death
(`Crash` leaves `flight` as it is). `Stop` cancels the context, after which state
writes fail; `Release` is the deferred release of the lease, which may fail; the
Kafka writer is flushed afterwards (`relayRuntime.Close`). A member of `Relays` is
started again once its last write has landed or is lost; a process that is started
earlier than that is another member, and the theorems are for any number of them.
The Kafka writer is external: a queue per partition and process, writes land in
order or are lost, and may land after `Publish` has reported a timeout. The log
keeps the first arrival of an event, consumers dedupe by `event_id`.

`EventTopic` is what followers may rely on: an event first arrives only once it is
in the outbox and every older event of its channel that was there before it is
published or parked; it is published only if it has arrived; and a verdict stands.

### The process (`Lifecycle`)

`main` is where `Run` is; the defers are the chain `stopRelay` → `waitRelay` →
`closeWriter` → `disconnect` → `exit`, entered where a failure at that place
enters it. A configuration is a record of what the checks of `LoadConfig`, the
Keycloak verifier, `setGinMode` and the publisher tell apart. The signal may come
at any time; connections are accepted, handled and ended by others; the relay
ends by the signal or by `Close`. The 20 seconds of the startup context and the
timeout of `Shutdown` may run out at any time.

## 3. Runs

The runs of the chat, the directory and the process switch the deadlock check
off: their requests are finite in number and used once, and a process exits. The
relay runs check deadlock.

| Run | Question | Result |
|---|---|---|
| `create_race` | posts and an AI reply race in two channels, one of them cleared: numbering, idempotency, replies and the summary? | holds |
| `mutate_race` | do racing edits and recalls keep revisions, finality and events right? | holds |
| `read_cursor` | do racing cursor writes only move forward, within the summary? | holds |
| `withdraw` | a channel cleared while messages are posted, edited, read: are events true, does the store implement `ChatHistory`? | holds |
| `pipeline` | what does a client show whose events are lost, late or out of order and whose pages are read while messages come in? | holds |
| `directory` | do racing opens of direct channels agree, and are they all answered? | holds |
| `lifecycle` | at whatever point the process fails or is told to stop: who is cut off, what is left open, does it end? | holds |
| `relay_rivals` | two relays, clocks that are off, rounds that may outlast the lease, inserts in any order: what do election, attempts, verdicts and order come to, and is it `EventTopic`? | holds |
| `relay_settles` | across crashes, shutdowns and failing calls: is every event settled in the end, and is every publish too many due to one of these? | holds |
| `relay_two_leaders` | one leader with the default timeouts and clocks that agree? | violated |
| `relay_order` | do the events of a channel reach the topic in the order of their versions? | violated |
| `relay_head_limit` | does a delayed event block only its own channel? | violated |

The violated ones quote documents and comments; see §6.

**Bounds and why they suffice.** Two participants are all a channel has; an
outsider is added in `create_race` and a third user in `directory`. Three posts
(two of users, one of an AI worker) are needed so that one loses to two rivals in
turn, is refused after `MaxAttempts` = 2, or writes its summary after a later
one; two keys, a good and a rejected payload, and replies that make payloads
differ give every combination of same/other key and payload. `withdraw` has one
key, which the two senders use independently. Two edits and two recalls make
every pair that can race. Two cursor writes with sequences around the number of
messages meet at the upsert, and `3` asks for more than there is. One cleared
channel suffices: channels share nothing but replies, for which `create_race` has
two. `pipeline` has two posts and a recall with pages of one message, so that a
load takes up to three pages and both a new message and a revision can fall
between any two of them; `MaxAttempts` is 1 there, which only takes away posts
that succeed late. `directory` has three opens: one winner, one loser answered by
the server's retry, one by the reread. `lifecycle` has three connections (one
accepted, one running, one done) and every configuration.

Two relays suffice for a handover, for a stale leader and for a late write that
comes behind the successor's; two events of one channel, inserted in either order,
for an event to overtake another. `relay_rivals` has clocks that are off by a tick
either way, a lease of three ticks and a publish of one: `InTerm` rounds are those
before the first tick, and both relays can also be at work after it.
MongoDB calls take no time there – the publish alone is long enough to lose the
lease in – and there are no crashes: with one fault the run has more than nine
million states. Faults are in `relay_settles`, two of them at any point, with one
relay, MongoDB timeouts of a tick and clocks that agree; faults among several relays
are left to the theorems, which are for any number of both. The passing relay runs
have one channel and limits (`HeadLimit`, `BatchLimit` 2 for 1000 and 16) that do not
bite; `relay_head_limit` has two channels and limits of 1, where they do, and
the theorems are for any. `MaxPublishAttempts` is 2 for 3 where only the presence of
a retry matters. A lease of 3 with timeouts of 1 is the default configuration (30 s,
10 s, 10 s) in ticks of ten seconds. `relay_order` and `relay_two_leaders` have no
faults and clocks that agree, so that what they show needs neither.

**Fairness.** Relays (`OutboxRelay.LiveSpec`): time goes on – `Tick` is disabled
whenever a call is at its timeout, hence strong fairness. A goroutine that can
move on does, and every call ends (timeouts), hence weak fairness of the loop and
of each goroutine; Kafka deals with every write it is given, by taking it or not;
a delay ends. A process that ended is started again:
`deploy/portainer/chat-stack.yml:41` (`restart: unless-stopped`). No fairness on
faults, on `Stop` or on new events. Client (`PLiveSpec`): it goes on with a load
it has begun; nobody has to stop posting. Directory (`LiveSpec`): every MongoDB
call of an open is answered; requests need not arrive. Process (`LiveSpec`): `Run`
and the relay go on, as each of their calls has a timeout; handlers need not end,
connections need not come, and no signal has to.

## 4. Properties worth a word

- `EventsTellHistory`: in a channel in use every event tells of a stored message,
  and two events of a message tell of different revisions. After a channel was
  cleared, an edit of a message that its author's post is about to withdraw
  leaves an event of a message that is gone; only events of posts are
  excepted from that.
- `NoGaps` speaks of channels in use, for the same reason: a withdrawal may
  leave a gap in a cleared one.
- `ExhaustionNeedsRivals`: a post is refused for too many collisions only when
  that many messages at or above the sequence it first tried got in.
- `CursorWithinHistory` relates a cursor to a summary that was read two calls
  earlier, and through it to a message.
- `ViewCoversVersions` is why taking a version and inserting its event may be two
  calls: a client that is at a version has every change below it, also one whose
  event never came. It rests on the change being stored *before* its version is
  taken, so that a load begun after the version was seen finds it.
- `ViewContiguous` says that paging back by `before_seq` is sound although
  messages are posted meanwhile; `LoadEnds` that it ends however many are.
- `LoserFindsWinner`: the reread after a duplicate never comes back empty.
  `OpensAnswered`: the server's retries of an upsert are not endless.
- `RelayWithinItsMeans`, `CutOffOnlyWhenLate`, `NothingLeftOpen` are about the order
  of the defers of `Run`, which no test runs through; `CleanExit` says what exit
  code 0 tells the orchestrator; `Ends` allows for handlers that never return.
  `RelayWithinItsMeans` also gives `OutboxRelay` its assumption on the lease.
- `OneLeaderInTerm`: the election does not make `OneLeaderPublishes` true
  (`relay_two_leaders`), but two relays are at work at once only when the round of
  one has gone on for longer than its lease less twice the skew. `InTerm` compares
  a duration, which a process can measure, with what its clock and that of its
  successor may differ by.
- `OvertakesOnlyLateOrParked` is what is left of `InVersionOrder`, which the code
  does not ensure (`relay_order`): a later version arrives first only if the earlier
  one was inserted after it, or was given up and a write of it landed all the same.
  It is about several relays, stale heads and late writes, and asks
  nothing of lease or clocks.
- `ExtraTriesAccounted` says how far the documented limit of three publishes
  (`README.md:102`) is exceeded, and by what: one for each crash, shutdown or
  failed write, and two for each relay besides the leader, since a relay that
  overlaps goes by the count of attempts it has read.
- `ImplementsTopic` is the refinement of `EventTopic`, with the order: a relay that
  overlaps another must not give Kafka an event whose elders in the outbox are
  without a verdict.

## 5. Proofs

All proofs are for any sets of users, channels, requests, relays, events and
connections, any size of page, any timeouts and any skew of the clocks, from the
named assumptions of `ChatDocs`, `ChatPipeline`, `ChannelDirectory`, `OutboxRelay`
and `Lifecycle` (disjoint request sets, positive limits, an order on users, events
with versions and `created_at` of their own, finitely many relays, a lease longer
than the publish timeout). What a theorem takes in addition stands in its `ASSUME`:

| Assumption | Theorems | Why it may be made |
|---|---|---|
| finitely many posts | `ExhaustedByRivals`, `PagesDetermined` | an execution has got to finitely many at any time; they count messages |

The theorems about the relays take nothing in addition: not that a round fits into
the lease, which the configuration check does not make sure of, nor that events
are inserted in order, nor how many channels there are.

Two assumptions of `OutboxRelay` are results about other components: that the
events of a channel have versions of their own (`PlacementAssumption`) is
`DistinctVersions`, and that the lease is longer than the publish timeout
(`TimesAssumption`) is `RelayHasItsMeans`.

**The store.** `ChatStoreProofs.TypeCorrect` proves `TypeOK`, strengthened by what
requests under way have in hand (`TypeInv`). The rest goes through the
invariants of `ChatStoreInv`, which build on one another:

- `HistoryInv` (`ChatStoreProofs`). `SequencesContiguous` alone is not
  inductive: that an insert leaves no gap needs that the sequence chosen two
  calls earlier was one past an unbroken run then (`Chosen`), that messages only
  disappear from cleared channels (`Withdrawn`), and for the summary that a
  message not yet summarised is in no summary (`Unknown`) and still is its own
  request's (`Owned`). Cursors need the same of a sequence tested against the
  summary (`ReadReqInv`). From it: `ContiguousSequences`, `TrueSummary`,
  `CursorsWithinHistory`.
- `ChangeInv` (`ChatEventProofs`) adds who has which version (`VersionInv`) and
  wrote which event (`EventInv`), and for every request that holds a copy of a
  message that the copy is `Faithful`: a revision the message had, which nothing
  but a later change has replaced, and after a recall nothing. No two requests
  made the same revision (`RevisionsDistinct`). From it: `DistinctVersions`,
  `ForwardSummary`, `ForwardCursors`, `CoveredWhenCreated`,
  `AuthorisedOnWhatIsChanged`, `RecallsAreFinal`, `TrueEvents`,
  `TrueCursorEvents`.
- `AnnounceInv` adds that the summary names announced messages only, which is
  what a cursor is justified by in `ChatHistory`. From it `HistoryImplemented`:
  every step of the store is a step of `ChatHistory` or does not show (`Mapped`).
- `AnswerInv` (`ChatAnswerProofs`) is `ChangeInv` with what posts come to. Every
  stored message is what its request asked for (`Written`) and the only one of
  its key (`KeysDistinct`). `AnswerGood`: what a post was answered with is the
  message of its key. `ReplyGood`: the source that was looked at several calls
  before the insert is still what it was; it rests on a message keeping sender,
  sequence and kind whatever becomes of it while the channel is in use
  (`Lasting`). `RivalGood`: each try takes a sequence above the one before, which
  a message of another post has by then; as there are no gaps, a post that made
  *n* tries has *n* messages of others at or above the first. From it:
  `RepliesFollow`, `AnswersIdempotent`, `ExhaustedByRivals`.

**The client.** `PInv` of `ChatPipelineProofs` is `ChangeInv` with `ClientInv`: a
load in the middle has everything at and above the page it asks for next (`Shown`,
`ViewGapless`), up to the version that made it load. From it: `CoversVersions`,
`TrueView`, `GaplessView`. `PagesDetermined` proves that the definition of a page is
that of one list: among finitely many messages with sequences of their own there
always is a page, and no other. `LoadsDescend`: the pages of a load go strictly
down, whatever is posted meanwhile.

**The directory.** The invariant of `ChannelDirectoryProofs` says that a request
that is past its search and was turned away has a channel to find. From it:
`OneChannel`, `Agreement`, `LosersFind`, and `CallsRunOut`: an open takes three
steps of the database at most.

**The relays, election and attempts** (`OutboxLeaderProofs`). `TypeCorrect` proves the
types; the bounds of the lease need that no call outlasts its timeout (`OnTime`).

- `OneLeader`: `OneLeaderInTerm`. The invariant `Holding` says that a relay past the
  election owns the lease while its round is in term, with as much of it left as
  the round and the skew of the clock it was taken by leave; so whoever finds the
  lease free, by whatever clock, finds the other's round out of term. `Electing` says
  that a round begins with the time read before the election.
- `TriesBounded`: `ExtraTriesAccounted`. `CountInv` keeps the account of an event
  (`Counted`): the publishes that are not among its attempts are one for each fault
  and one for each relay at work on it whose context still lets it write (`Live`);
  once the last attempt is counted, further ones come only from relays that read
  the row before (`Early`). Hence two for each other relay. A shutdown is a fault paid
  in advance (`Prepaid`): the relay may still publish and then be unable to write.

**The relays, however many lead** (`OutboxTopicProofs`).

- `PublishedDelivered` (an event marked published has reached the topic) and
  `VerdictStands` hold with any number of relays that believe they lead.
- `ParkedAfterAttempts`: `AttemptsInv` counts the relays at work on an event among
  its publishes not yet counted, so that stale counts never get ahead.
- `AfterVerdicts`: no event is in the topic or on its way there before the older
  ones it found in the outbox are published or parked, even where several relays
  go by heads that are out of date (`OvertakeInv`): a head was read when the older
  ones had their verdicts, and verdicts stand.
- `ChannelsInOrder`: `OvertakesOnlyLateOrParked`. What is published has arrived, so
  an older event that has a verdict and has not arrived was parked.
- `TopicImplemented`: with `OvertakeInv` and what is known of writes under way
  (`KnownInv`) every step is one of `EventTopic` or does not show.

**The process.** The invariant of `LifecycleProofs` says what is open at each place
of `Run` and how the server and its connections stand there. From it:
`RelayHasItsMeans`, `HandlersKeepMongo`, `ExitIsClean`, `AllIsClosed`,
`HandlersWait`; and `RelayIsTold`: the wait of `Close`, which has no timeout, is for a
relay whose context is cancelled.

**Only model-checked**: `EventuallySettled`, `LoadEnds`, `OpensAnswered`, `Ends`, since
liveness under fairness is out of the prover's reach. Part of what they rest on
is proved for three of them: `LoadsDescend` and `PagesDetermined` for `LoadEnds`,
`CallsRunOut` for `OpensAnswered`, `RelayIsTold` for `Ends`.

## 6. Where code and documents disagree

Shown by a run, with the quoted text in `PROJECT.json` (`findings`):

1. `relay_two_leaders` – with the default timeouts a round may outlast the lease,
   and a second relay publishes while the first still does, though the clocks
   agree. Clocks that do not agree make it happen sooner.
2. `relay_order` – a version is taken by one call and its event inserted by a later
   one, so the event with the later version may be inserted and published first.
   `repository.go:44-46`, `README.md:102` and `docs/chat-outbox-producer.md:86,145`
   promise the order without such a condition. It takes no fault and one
   relay. With a parked event there is another way to it: the write of the last try
   lands after its timeout, behind the next version that another relay has
   published. `OvertakesOnlyLateOrParked` says that there is no third.
3. `relay_head_limit` – the limit on the heads is applied before their delay is
   looked at, so delayed events can block other channels.

`README.md:102` also says that a publish is tried at most three times in all. That
is exceeded: a publish whose outcome is not stored, because the process died, was
shut down or the write failed, is not counted, and two relays that overlap each
publish on the same count. `ExtraTriesAccounted` bounds by how much; no run of its own
refutes the sentence.

Visible in the models without a run of their own, as no document promises the
contrary:

- the events of a cursor need not tell of it in the order of their versions, as it
  is read back before its version is taken (`message.repo.go:341`);
- a first cursor write that loses the upsert is answered 200 with a cursor below
  the one asked for (`UpsertCursor`, `PeekCursor`);
- a recall repeated while the first is under way is answered 409
  (`CompareAndSet`);
- opening a channel that was cleared returns it, cleared (`Search`);
- a signal during the start makes the process exit with code 1 (`PingMongo`,
  `EnsureIndexes`);
- brokers that hold only commas pass `LoadConfig` and are refused by
  `NewKafkaPublisher` after MongoDB was connected (`StartOutboxRelay`);
- when the server fails on its own, its connections are not closed, and their
  handlers lose MongoDB under way (`CutOffOnlyWhenLate`).

## 7. Not modelled

- Authentication: one request, one key, no shared state; the models start from
  the verified subject.
- Routing, CORS and mapping are stateless translations; the answers are the
  statuses of the models. The metrics steer nothing. The smoke test is a client.
- Configuration: reading files and environment, and the CORS origins. Its checks
  are in `Lifecycle`.
- The order of `List` of channels by `updated_at`: the clocks are those of
  different processes and nothing promises an order across them.
- The growth of the delay before a retry (`retryDelay`): the models let it end at
  any time, which takes in every delay.

## 8. What could follow

A variant behind `EventuallySettled` (the attempts left of an event, after those of
the older events of its channel); `relay_rivals` with faults and a second channel;
clocks that run at different rates; a run with two clients and edits once the state
space of `pipeline` allows it.

-------------------------- MODULE ChatAnswerProofs --------------------------
(***************************************************************************)
(* What the answers to posts come to, from AnswerInv of ChatStoreInv:      *)
(* posts of one idempotency key get one message, a post is refused for     *)
(* collisions only when it lost every try, and a reply follows the message *)
(* it answers.                                                             *)
(***************************************************************************)
EXTENDS ChatEventProofs, FiniteSetTheorems

-----------------------------------------------------------------------------
(* What a step does to the messages *)

\* A message stays what it was posted as, whatever becomes of its content.
SameOrigin(m) ==
  /\ messages'[m].ch = messages[m].ch /\ messages'[m].seq = messages[m].seq
  /\ messages'[m].sender = messages[m].sender /\ messages'[m].kind = messages[m].kind
  /\ messages'[m].key = messages[m].key /\ messages'[m].hash = messages[m].hash
  /\ messages'[m].reply = messages[m].reply

Inserts(r)   == Insert(r) /\ ~Goto(r, "relookup")
Withdraws(r) == Undo(r) /\ messages' = [messages EXCEPT ![r] = NoDoc]

\* What is in a channel that is in use stays there, as it was posted.
Lasting ==
  /\ \A c \in Channels : channels'[c].active => channels[c].active
  /\ \A m \in Stored : channels'[messages[m].ch].active =>
       m \in Stored' /\ SameOrigin(m)

LEMMA SameOrigins ==
  UNCHANGED messages => \A m \in MsgIds : SameOrigin(m)
  BY DEF SameOrigin

\* A revision leaves alone what its message was posted as.
LEMMA RevisedOrigins ==
  ASSUME TypeInv, NEW r \in ReviseReqs, CompareAndSet(r), Unchanged(r)
  PROVE  \A m \in MsgIds : SameOrigin(m)
<1> DEFINE n == req[r].msg
           d == messages[n]
<1>1. messages \in [MsgIds -> Message] /\ n \in MsgIds /\ d \in Message
  BY DEF TypeInv, TypeOK, Unchanged, Stored
<1>2. messages' = [messages EXCEPT ![n] = Revised(r, d)]
  BY CompareAndSetKeeps
<1>3. /\ Revised(r, d).ch = d.ch /\ Revised(r, d).seq = d.seq
      /\ Revised(r, d).sender = d.sender /\ Revised(r, d).kind = d.kind
      /\ Revised(r, d).key = d.key /\ Revised(r, d).hash = d.hash
      /\ Revised(r, d).reply = d.reply
  BY <1>1 DEF Revised, Message
<1>4. \A m \in MsgIds : messages'[m] = IF m = n THEN Revised(r, d) ELSE messages[m]
  BY <1>1, <1>2
<1> QED BY <1>3, <1>4 DEF SameOrigin

LEMMA SendOrigins ==
  ASSUME HistoryInv, NEW r \in MsgIds, Send(r)
  PROVE  (\A m \in MsgIds : SameOrigin(m)) \/ Inserts(r) \/ Withdraws(r)
<1>1. TypeInv /\ r \in Reqs
  BY Kinds DEF HistoryInv
<1>2. CASE PostingRead(r)
  BY <1>2, SameOrigins DEF PostingRead, docs
<1>3. CASE Insert(r) /\ Goto(r, "relookup")
  <2>1. req'[r].pc = "relookup"
    BY <1>1, <1>3, GotoKeeps
  <2>2. CASE req' = [req EXCEPT ![r].pc = "summary", ![r].doc = Candidate(r)]
    <3>1. req'[r].pc = "summary"
      BY <1>1, <2>2 DEF TypeInv, TypeOK, Request
    <3> QED BY <2>1, <3>1
  <2> QED BY <1>3, <2>2, SameOrigins DEF Insert
<1>4. CASE Summary(r) \/ CreatedEvent(r)
  BY <1>4, SameOrigins DEF Summary, CreatedEvent
<1>5. CASE Undo(r)
  BY <1>5, SameOrigins DEF Undo, Withdraws
<1> QED BY <1>1, <1>2, <1>3, <1>4, <1>5, PostingReads DEF Send, Inserts

\* A step keeps all messages as they were posted, adds one or withdraws one.
LEMMA NextOrigins ==
  ASSUME HistoryInv, [Next]_vars
  PROVE  \/ \A m \in MsgIds : SameOrigin(m)
         \/ \E r \in MsgIds : Inserts(r) \/ Withdraws(r)
<1>1. TypeInv
  BY DEF HistoryInv
<1>2. ASSUME NEW r \in ReviseReqs, Revise(r) PROVE \A m \in MsgIds : SameOrigin(m)
  <2>1. CASE CompareAndSet(r) /\ Unchanged(r)
    BY <1>1, <2>1, RevisedOrigins
  <2>2. CASE ~(CompareAndSet(r) /\ Unchanged(r))
    <3>1. UNCHANGED messages
      BY <1>2, <2>2 DEF Revise, ReviseRefused, ReviseGet, Authorize, CompareAndSet,
         ReviseBump, RevisedEvent, docs
    <3> QED BY <3>1, SameOrigins
  <2> QED BY <2>1, <2>2
<1>3. ASSUME NEW r \in ReadReqs, Read(r) PROVE UNCHANGED messages
  BY <1>3 DEF Read, ReadGet, UpdateCursor, UpsertCursor, FetchCursor, PeekCursor,
     ReadBump, AdvancedEvent, docs
<1>4. \/ \E r \in Reqs : Abort(r)
      \/ \E c \in Channels : Deactivate(c)
      \/ UNCHANGED vars
      => UNCHANGED messages
  BY DEF Abort, Deactivate, docs, vars
<1> QED BY <1>1, <1>2, <1>3, <1>4, SendOrigins, SameOrigins DEF Next

\* What an insert adds.
LEMMA InsertedOrigin ==
  ASSUME HistoryInv, NEW r \in MsgIds, Inserts(r)
  PROVE  /\ req[r].pc = "insert" /\ ~SeqTaken(r) /\ ~KeyTaken(r)
         /\ r \notin Stored /\ Stored' = Stored \cup {r}
         /\ messages'[r].ch = req[r].ch /\ messages'[r].seq = req[r].seq
         /\ messages'[r].sender = req[r].actor /\ messages'[r].kind = Kind(r)
         /\ messages'[r].key = req[r].key /\ messages'[r].hash = RequestHash(r)
         /\ messages'[r].reply = req[r].reply
         /\ \A m \in MsgIds : m # r => messages'[m] = messages[m]
         /\ UNCHANGED channels
<1>1. TypeInv /\ messages \in [MsgIds -> Message]
  BY DEF HistoryInv, TypeInv, TypeOK
<1>2. /\ req[r].pc = "insert" /\ ~SeqTaken(r) /\ ~KeyTaken(r)
      /\ messages' = [messages EXCEPT ![r] = Candidate(r)] /\ UNCHANGED channels
  BY DEF Inserts, Insert, At
<1>3. messages'[r] = Candidate(r)
  BY <1>1, <1>2
<1>4. /\ r \notin Stored /\ Stored' = Stored \cup {r}
      /\ \A m \in MsgIds : m # r => messages'[m] = messages[m]
  BY <1>2, InsertedMessage
<1>5. /\ messages'[r].ch = req[r].ch /\ messages'[r].seq = req[r].seq
      /\ messages'[r].sender = req[r].actor /\ messages'[r].kind = Kind(r)
      /\ messages'[r].key = req[r].key /\ messages'[r].hash = RequestHash(r)
      /\ messages'[r].reply = req[r].reply
  BY <1>3 DEF Candidate
<1> QED BY <1>2, <1>4, <1>5

\* Only from a channel that was closed is a message withdrawn.
LEMMA WithdrawnOrigin ==
  ASSUME HistoryInv, NEW r \in MsgIds, Withdraws(r)
  PROVE  /\ r \in Stored /\ ~channels[messages[r].ch].active
         /\ Stored' = Stored \ {r} /\ UNCHANGED channels
         /\ \A m \in MsgIds : m # r => messages'[m] = messages[m]
<1>1. TypeInv /\ messages \in [MsgIds -> Message] /\ SendReqInv(r)
  BY DEF HistoryInv, TypeInv, TypeOK
<1>2. /\ req[r].pc = "undo" /\ UNCHANGED channels
      /\ messages' = [messages EXCEPT ![r] = NoDoc]
  BY DEF Withdraws, Undo, At
<1>3. r \in Stored /\ ~channels[messages[r].ch].active
  BY <1>1, <1>2 DEF SendReqInv, Owned, Withdrawn
<1>4. \A m \in MsgIds : messages'[m] = IF m = r THEN NoDoc ELSE messages[m]
  BY <1>1, <1>2
<1>5. Stored' = Stored \ {r}
  BY <1>4 DEF Stored, NoDoc
<1> QED BY <1>2, <1>3, <1>4, <1>5

LEMMA NextLasting ==
  ASSUME HistoryInv, [Next]_vars
  PROVE  Lasting
<1>1. \A c \in Channels : channels'[c].active => channels[c].active
  BY NextSteps DEF DocsStep, ChannelStep
<1>2. CASE \A m \in MsgIds : SameOrigin(m)
  BY <1>1, <1>2 DEF Lasting, Stored, SameOrigin
<1>3. ASSUME NEW r \in MsgIds, Inserts(r) PROVE Lasting
  <2>1. /\ r \notin Stored /\ Stored' = Stored \cup {r}
        /\ \A m \in MsgIds : m # r => messages'[m] = messages[m]
    BY <1>3, InsertedOrigin
  <2> QED BY <1>1, <2>1 DEF Lasting, SameOrigin, Stored
<1>4. ASSUME NEW r \in MsgIds, Withdraws(r) PROVE Lasting
  <2>1. /\ r \in Stored /\ ~channels[messages[r].ch].active
        /\ Stored' = Stored \ {r} /\ UNCHANGED channels
        /\ \A m \in MsgIds : m # r => messages'[m] = messages[m]
    BY <1>4, WithdrawnOrigin
  <2> QED BY <1>1, <2>1 DEF Lasting, SameOrigin, Stored
<1> QED BY <1>2, <1>3, <1>4, NextOrigins
-----------------------------------------------------------------------------
(* What a step does to a post *)

\* A post keeps the inputs it has come with, and its count of tries.
Came(r) ==
  /\ req'[r].actor = req[r].actor /\ req'[r].ch = req[r].ch
  /\ req'[r].key = req[r].key /\ req'[r].body = req[r].body
  /\ req'[r].reply = req[r].reply

SameTry(r) ==
  Came(r) /\ req'[r].first = req[r].first /\ req'[r].attempt = req[r].attempt

LEMMA MovesOn ==
  ASSUME TypeInv, NEW r \in Reqs
  PROVE  /\ \A p : Goto(r, p) => SameTry(r)
         /\ \A t : Answer(r, t) => SameTry(r)
         /\ \A ch : TakeVersion(r, ch) => SameTry(r)
<1>1. req \in [Reqs -> Request]
  BY DEF TypeInv, TypeOK
<1>2. \A p : Goto(r, p) => SameTry(r)
  BY <1>1 DEF Goto, SameTry, Came, Request
<1>3. \A t : Answer(r, t) => SameTry(r)
  BY <1>1 DEF Answer, SameTry, Came, Request
<1>4. \A ch : TakeVersion(r, ch) => SameTry(r)
  BY <1>1 DEF TakeVersion, SameTry, Came, Request
<1> QED BY <1>2, <1>3, <1>4

\* What a post found in its channel is still there.
LEMMA StillThere ==
  ASSUME TypeInv, Lasting, NEW r \in MsgIds, Came(r), req[r].ch \in Channels,
         channels'[req[r].ch].active
  PROVE  /\ channels[req[r].ch].active
         /\ RequestHash(r)' = RequestHash(r)
         /\ \A m \in InChannel(req[r].ch) : m \in InChannel(req[r].ch)' /\ SameOrigin(m)
         /\ \A m \in SameKey(r) : m \in SameKey(r)'
         /\ \A k : Passed(r, k) => Passed(r, k)'
<1>1. channels[req[r].ch].active /\ req'[r].ch = req[r].ch
  BY DEF Lasting, Came
<1>2. \A m \in InChannel(req[r].ch) : m \in InChannel(req[r].ch)' /\ SameOrigin(m)
  BY <1>1 DEF Lasting, InChannel, Stored, SameOrigin
<1>3. \A m \in SameKey(r) : m \in SameKey(r)'
  BY <1>2 DEF SameKey, SameOrigin, Came
<1>4. \A k : Passed(r, k) => Passed(r, k)'
  BY <1>2 DEF Passed, SameOrigin
<1>5. RequestHash(r)' = RequestHash(r)
  BY DEF RequestHash, Kind, Came
<1> QED BY <1>1, <1>2, <1>3, <1>4, <1>5

\* The step of another actor, or one that leaves a post where it is.
LEMMA StaysAnswered ==
  ASSUME TypeInv, Lasting, NEW r \in MsgIds, PostAnswers(r), SameTry(r),
         req'[r].pc = req[r].pc, req'[r].status = req[r].status,
         req'[r].msg = req[r].msg, req'[r].seq = req[r].seq
  PROVE  PostAnswers(r)'
<1> DEFINE c == req[r].ch
<1>1. /\ Came(r) /\ req'[r].ch = c /\ r \in Reqs
      /\ req'[r].first = req[r].first /\ req'[r].attempt = req[r].attempt
  BY Kinds DEF SameTry, Came
<1>2. c \in Channels /\ channels'[c].active =>
        /\ channels[c].active /\ RequestHash(r)' = RequestHash(r)
        /\ \A m \in InChannel(c) : m \in InChannel(c)' /\ SameOrigin(m)
        /\ \A m \in SameKey(r) : m \in SameKey(r)' /\ SameOrigin(m)
        /\ \A k : Passed(r, k) => Passed(r, k)'
  BY <1>1, StillThere DEF SameKey
<1>3. req[r].pc \notin {"idle", "done"} => c \in Channels
  BY <1>1 DEF TypeInv, Addressed, UnderWay
<1>4. AnswerGood(r)'
  BY <1>1, <1>2 DEF PostAnswers, AnswerGood, SameOrigin
<1>5. ReplyGood(r)'
  BY <1>1, <1>2, <1>3 DEF PostAnswers, ReplyGood, SameOrigin, Came
<1>6. RivalGood(r)'
  BY <1>1, <1>2, <1>3 DEF PostAnswers, RivalGood
<1> QED BY <1>4, <1>5, <1>6 DEF PostAnswers

\* A post that is past its tries, or is turned away.
LEMMA PastItsTries ==
  ASSUME NEW r \in MsgIds, PostAnswers(r), PostGood(r), SameTry(r),
         req[r].pc # "done", req'[r].pc \in {"summary", "undo", "event", "done"},
         \/ req'[r].status = req[r].status
         \/ req'[r].status \in {"invalid", "not_found", "conflict", "error"}
  PROVE  PostAnswers(r)'
<1>1. req'[r].status \notin {"created", "existing", "exhausted"}
  BY DEF PostAnswers, AnswerGood, RivalGood, PostGood
<1> QED BY <1>1 DEF PostAnswers, AnswerGood, ReplyGood, RivalGood, SameTry
-----------------------------------------------------------------------------
(* AnswerInv: the steps of a post *)

\* The calls of a post that has come, with what the others rely on.
Tries(r) ==
  /\ HistoryInv /\ Lasting /\ r \in MsgIds /\ UNCHANGED docs
  /\ PostAnswers(r) /\ PostGood(r)

\* A post comes.
LEMMA ArrivalAnswers ==
  ASSUME TypeInv, NEW r \in MsgIds, At(r, "idle"), PostAnswers(r), PostGood(r),
         NEW in \in Request, NEW v \in {"pending", "invalid", "not_found"},
         NEW p \in {"lookup", "reply", "source"},
         p = "lookup" => in.reply = None,
         Arrive(r, in, v, p), in.attempt = req[r].attempt
  PROVE  PostAnswers(r)'
<1>1. r \in Reqs /\ req \in [Reqs -> Request] /\ in \in Request
  BY Kinds DEF TypeInv, TypeOK
<1>2. req'[r] = [in EXCEPT !.pc = IF v = "pending" THEN p ELSE "done", !.status = v]
  BY <1>1 DEF Arrive
<1>3. /\ req'[r].pc = IF v = "pending" THEN p ELSE "done"
      /\ req'[r].status = v /\ req'[r].reply = in.reply
      /\ req'[r].attempt = req[r].attempt
  BY <1>1, <1>2 DEF Request
<1>4. req[r].attempt = 0
  BY DEF PostAnswers, RivalGood, At
<1> QED BY <1>3, <1>4 DEF PostAnswers, AnswerGood, ReplyGood, RivalGood

LEMMA GetAnswers ==
  ASSUME TypeInv, NEW r \in MsgIds, PostAnswers(r), PostGood(r),
         CreateGet(r) \/ AIReplyGet(r)
  PROVE  PostAnswers(r)'
<1>1. r \in Reqs /\ req \in [Reqs -> Request] /\ req[r] \in Request
  BY Kinds DEF TypeInv, TypeOK
<1>2. CASE CreateGet(r)
  <2>1. PICK u \in Users, c \in Channels, k \in Keys, b \in Bodies, t \in ReplyTargets :
          Arrive(r, [req[r] EXCEPT !.actor = u, !.ch = c, !.key = k,
                                   !.body = b, !.reply = t],
                 CASE ~CanAccess(u, c) -> "not_found"
                   [] b = Malformed    -> "invalid"
                   [] OTHER            -> "pending",
                 IF t = None THEN "lookup" ELSE "reply")
    BY <1>2 DEF CreateGet
  <2> DEFINE in == [req[r] EXCEPT !.actor = u, !.ch = c, !.key = k,
                                  !.body = b, !.reply = t]
             v  == CASE ~CanAccess(u, c) -> "not_found"
                     [] b = Malformed    -> "invalid"
                     [] OTHER            -> "pending"
             p  == IF t = None THEN "lookup" ELSE "reply"
  <2>2. t \in MsgIds \cup {None}
    BY DEF ReplyTargets, Stored
  <2>3. in \in Request /\ in.attempt = req[r].attempt /\ in.reply = t
    BY <1>1, <2>2 DEF Request
  <2>4. /\ v \in {"pending", "invalid", "not_found"}
        /\ p \in {"lookup", "reply", "source"}
        /\ p = "lookup" => in.reply = None
    BY <2>3
  <2>5. Arrive(r, in, v, p)
    BY <2>1
  <2> HIDE DEF in, v, p
  <2> QED BY <1>2, <2>3, <2>4, <2>5, ArrivalAnswers DEF CreateGet
<1>3. CASE AIReplyGet(r)
  <2>1. PICK u \in Users, c \in Channels, k \in Keys, b \in Bodies, t \in Stored :
          Arrive(r, [req[r] EXCEPT !.actor = u, !.ch = c, !.key = k,
                                   !.body = b, !.reply = t],
                 CASE b = Malformed    -> "invalid"
                   [] ~CanAccess(u, c) -> "not_found"
                   [] OTHER            -> "pending",
                 "source")
    BY <1>3 DEF AIReplyGet
  <2> DEFINE in == [req[r] EXCEPT !.actor = u, !.ch = c, !.key = k,
                                  !.body = b, !.reply = t]
             v  == CASE b = Malformed    -> "invalid"
                     [] ~CanAccess(u, c) -> "not_found"
                     [] OTHER            -> "pending"
  <2>2. t \in MsgIds
    BY DEF Stored
  <2>3. in \in Request /\ in.attempt = req[r].attempt
    BY <1>1, <2>2 DEF Request
  <2>4. v \in {"pending", "invalid", "not_found"}
    OBVIOUS
  <2>5. Arrive(r, in, v, "source")
    BY <2>1
  <2> HIDE DEF in, v
  <2> QED BY <1>3, <2>3, <2>4, <2>5, ArrivalAnswers DEF AIReplyGet
<1> QED BY <1>2, <1>3

\* The message to reply to has been looked at.
LEMMA CheckAnswers ==
  ASSUME NEW r, Tries(r), \/ r \in CreateReqs /\ CheckReply(r)
                          \/ r \in AIReqs /\ CheckSource(r)
  PROVE  PostAnswers(r)'
<1>1. TypeInv /\ r \in Reqs /\ r \in MsgIds /\ UNCHANGED docs
  BY Kinds DEF Tries, HistoryInv
<1>2. req[r].pc \in {"reply", "source"}
  BY DEF CheckReply, CheckSource, At
<1>3. ASSUME NEW t \in {"invalid", "not_found", "conflict"}, Answer(r, t)
      PROVE  PostAnswers(r)'
  BY <1>1, <1>2, <1>3, MovesOn, AnswerKeeps, PastItsTries DEF Tries
<1>4. CASE Goto(r, "lookup")
  <2>1. req'[r].pc = "lookup" /\ req'[r].status = req[r].status /\ SameTry(r)
    BY <1>1, <1>4, MovesOn, GotoKeeps
  <2>2. /\ req[r].reply \in InChannel(req[r].ch)
        /\ r \in AIReqs => /\ messages[req[r].reply].kind # "ai"
                           /\ messages[req[r].reply].sender # req[r].actor
    <3>1. ~\E t : Answer(r, t)
      BY <1>1, <2>1, AnswerKeeps
    <3>2. r \in AIReqs => r \notin CreateReqs
      BY RequestsAssumption
    <3> QED BY <3>1, <3>2 DEF CheckReply, CheckSource, Answerable, InChannel
  <2>3. messages[req[r].reply].kind \in {"user", "ai"}
    BY <1>1, <2>2 DEF TypeInv, TypeOK, InChannel, Stored, Message
  <2>4. ReplyGood(r)'
    BY <1>1, <2>1, <2>2, <2>3 DEF ReplyGood, SameTry, Came, InChannel, Stored, docs
  <2>5. req[r].attempt = 0
    BY <1>2 DEF Tries, PostAnswers, RivalGood
  <2>6. req[r].status \notin {"created", "existing", "exhausted"}
    BY <1>2 DEF Tries, PostAnswers, PostGood, AnswerGood, RivalGood
  <2> QED BY <2>1, <2>4, <2>5, <2>6 DEF PostAnswers, AnswerGood, RivalGood, SameTry
<1> QED BY <1>3, <1>4 DEF CheckReply, CheckSource
LEMMA AnswerExistingAnswers ==
  ASSUME NEW r, Tries(r), req[r].pc \in {"lookup", "relookup"},
         NEW m \in SameKey(r), AnswerExisting(r, m)
  PROVE  PostAnswers(r)'
<1>1. /\ TypeInv /\ r \in Reqs /\ r \in MsgIds /\ UNCHANGED docs
      /\ req \in [Reqs -> Request] /\ SendReqInv(r)
  BY Kinds DEF Tries, HistoryInv, TypeInv, TypeOK
<1>2. CASE Answer(r, "conflict")
  BY <1>1, <1>2, MovesOn, AnswerKeeps, PastItsTries DEF Tries
<1>3. CASE /\ messages[m].hash = RequestHash(r)
           /\ req' = [req EXCEPT ![r].pc = "done", ![r].status = "existing",
                                 ![r].msg = m, ![r].doc = messages[m]]
  <2>1. /\ req'[r].pc = "done" /\ req'[r].status = "existing" /\ req'[r].msg = m
        /\ SameTry(r)
    BY <1>1, <1>3 DEF SameTry, Came, Request
  <2>2. m # r /\ req[r].ch \in Channels
    BY <1>1 DEF SendReqInv, Owned, SameKey, InChannel, TypeInv, Addressed, UnderWay
  <2>3. SameKey(r)' = SameKey(r) /\ RequestHash(r)' = RequestHash(r)
    BY <1>1, <2>1 DEF SameKey, InChannel, Stored, RequestHash, Kind, SameTry, Came, docs
  <2>4. AnswerGood(r)'
    BY <1>1, <1>3, <2>1, <2>2, <2>3 DEF AnswerGood, SameTry, Came, docs
  <2> QED BY <2>1, <2>4 DEF Tries, PostAnswers, ReplyGood, RivalGood, SameTry
<1> QED BY <1>2, <1>3 DEF AnswerExisting

\* A post goes on to read the channel and its newest message.
LEMMA GoesOnAnswers ==
  ASSUME NEW r, Tries(r), Came(r), req'[r].status = req[r].status,
         req[r].pc \in {"lookup", "channel", "latest", "insert", "relookup"},
         req'[r].pc \in {"channel", "latest", "insert", "relookup"},
         RivalGood(r)'
  PROVE  PostAnswers(r)'
<1>1. req'[r].status \notin {"created", "existing", "exhausted"}
  BY DEF Tries, PostAnswers, AnswerGood, RivalGood, PostGood
<1>2. ReplyGood(r)'
  BY DEF Tries, PostAnswers, ReplyGood, InChannel, Stored, Came, docs
<1> QED BY <1>1, <1>2 DEF PostAnswers, AnswerGood

LEMMA ReadsAnswers ==
  ASSUME NEW r, Tries(r), \/ Lookup(r) /\ SameKey(r) = {} /\ Goto(r, "channel")
                          \/ FindChannel(r)
  PROVE  PostAnswers(r)'
<1>1. /\ TypeInv /\ r \in Reqs /\ r \in MsgIds /\ UNCHANGED docs
      /\ req \in [Reqs -> Request] /\ RivalGood(r)
  BY Kinds DEF Tries, HistoryInv, TypeInv, TypeOK, PostAnswers
<1>2. CASE Lookup(r) /\ SameKey(r) = {} /\ Goto(r, "channel")
  <2>1. /\ req'[r].pc = "channel" /\ req'[r].status = req[r].status /\ SameTry(r)
        /\ req[r].pc = "lookup"
    BY <1>1, <1>2, MovesOn, GotoKeeps DEF Lookup, At
  <2>2. req'[r].status # "exhausted"
    BY <1>1, <2>1 DEF RivalGood
  <2>3. RivalGood(r)'
    BY <1>1, <2>1, <2>2 DEF RivalGood, SameTry
  <2> QED BY <2>1, <2>3, GoesOnAnswers DEF SameTry
<1>3. CASE FindChannel(r)
  <2>1. CASE Answer(r, "not_found")
    BY <1>1, <1>3, <2>1, MovesOn, AnswerKeeps, PastItsTries DEF Tries, FindChannel, At
  <2>2. CASE req' = [req EXCEPT ![r].pc = "latest", ![r].seq = channels[req[r].ch].lastSeq]
    <3>1. /\ req'[r].pc = "latest" /\ req'[r].status = req[r].status /\ SameTry(r)
          /\ req[r].pc = "channel"
      BY <1>1, <1>3, <2>2 DEF SameTry, Came, Request, FindChannel, At
    <3>2. \A k : Passed(r, k)' <=> Passed(r, k)
      BY <1>1, <3>1 DEF Passed, InChannel, Stored, SameTry, Came, docs
    <3>3. req'[r].status # "exhausted"
      BY <1>1, <3>1 DEF RivalGood
    <3>4. RivalGood(r)'
      BY <1>1, <3>1, <3>2, <3>3 DEF RivalGood, SameTry, Came, docs
    <3> QED BY <3>1, <3>4, GoesOnAnswers DEF SameTry
  <2> QED BY <1>3, <2>1, <2>2 DEF FindChannel
<1> QED BY <1>2, <1>3

\* The sequence tried next is above those passed before.
LEMMA FindLatestAnswers ==
  ASSUME NEW r, Tries(r), FindLatest(r)
  PROVE  PostAnswers(r)'
<1>1. /\ TypeInv /\ r \in Reqs /\ r \in MsgIds /\ UNCHANGED docs /\ RivalGood(r)
      /\ req \in [Reqs -> Request] /\ req[r] \in Request /\ req[r].pc = "latest"
      /\ messages \in [MsgIds -> Message]
  BY Kinds DEF Tries, HistoryInv, TypeInv, TypeOK, PostAnswers, FindLatest, At
<1>2. PICK s \in LatestSeqs(req[r].ch) :
        req' = [req EXCEPT ![r].pc = "insert", ![r].seq = NextSeq(req[r].seq, s),
                           ![r].first = IF req[r].attempt = 0
                                        THEN NextSeq(req[r].seq, s) ELSE @]
  BY DEF FindLatest
<1> DEFINE n == NextSeq(req[r].seq, s)
<1>3. req[r].ch \in Channels /\ s \in Nat
  BY <1>1, LatestSeqsType DEF TypeInv, Addressed, UnderWay
<1>4. /\ req[r].seq \in Nat /\ req[r].first \in Nat /\ req[r].attempt \in Nat
      /\ n \in Nat /\ n > s /\ n > 0
  BY <1>1, <1>3 DEF Request, NextSeq
<1> HIDE DEF n
<1>5. /\ req'[r].pc = "insert" /\ req'[r].status = req[r].status /\ req'[r].seq = n
      /\ req'[r].first = (IF req[r].attempt = 0 THEN n ELSE req[r].first)
      /\ req'[r].attempt = req[r].attempt /\ Came(r)
  BY <1>1, <1>2 DEF n, Came, Request
<1>6. \A m \in InChannel(req[r].ch) : messages[m].seq <= s
  BY <1>1 DEF LatestSeqs, InChannel, Stored, Message
<1>7. ASSUME req[r].attempt > 0, channels[req[r].ch].active
      PROVE  n >= req[r].first + req[r].attempt
  <2>1. PICK m \in InChannel(req[r].ch) :
          messages[m].seq >= req[r].first + req[r].attempt - 1
    <3>1. Passed(r, req[r].first + req[r].attempt - 1)
      BY <1>1, <1>4, <1>7 DEF RivalGood
    <3> QED BY <3>1 DEF Passed
  <2>2. messages[m].seq \in Nat /\ messages[m].seq <= s
    BY <1>1, <1>6 DEF InChannel, Stored, Message
  <2> QED BY <1>3, <1>4, <2>1, <2>2
<1>8. req'[r].status # "exhausted"
  BY <1>1, <1>5 DEF RivalGood
<1>9. RivalGood(r)'
  BY <1>1, <1>4, <1>5, <1>7, <1>8 DEF RivalGood, Came, docs
<1> QED BY <1>1, <1>5, <1>9, GoesOnAnswers
\* A duplicate key: the sequence or the idempotency key is another's by now.
LEMMA CollisionAnswers ==
  ASSUME NEW r, Tries(r), Insert(r), Goto(r, "relookup"), SeqTaken(r) \/ KeyTaken(r)
  PROVE  PostAnswers(r)'
<1>1. /\ TypeInv /\ r \in Reqs /\ r \in MsgIds /\ UNCHANGED docs /\ RivalGood(r)
      /\ req[r] \in Request /\ req[r].pc = "insert" /\ messages \in [MsgIds -> Message]
  BY Kinds DEF Tries, HistoryInv, TypeInv, TypeOK, PostAnswers, Insert, At
<1>2. req'[r].pc = "relookup" /\ req'[r].status = req[r].status /\ SameTry(r)
  BY <1>1, MovesOn, GotoKeeps
<1>3. /\ req[r].first \in Nat /\ req[r].attempt \in Nat /\ req[r].seq \in Nat
  BY <1>1 DEF Request
<1>4. channels[req[r].ch].active =>
        SameKey(r) # {} \/ Passed(r, req[r].first + req[r].attempt)
  <2> SUFFICES ASSUME channels[req[r].ch].active, ~KeyTaken(r)
               PROVE  Passed(r, req[r].first + req[r].attempt)
    BY DEF KeyTaken
  <2>1. req[r].seq >= req[r].first + req[r].attempt
    BY <1>1, <1>3 DEF RivalGood
  <2>2. PICK m \in InChannel(req[r].ch) : messages[m].seq = req[r].seq
    BY DEF SeqTaken
  <2> QED BY <2>1, <2>2 DEF Passed
<1>5. /\ SameKey(r)' = SameKey(r)
      /\ \A k : Passed(r, k)' <=> Passed(r, k)
  BY <1>1, <1>2 DEF SameKey, Passed, InChannel, Stored, SameTry, Came, docs
<1>6. req'[r].status # "exhausted"
  BY <1>1, <1>2 DEF RivalGood
<1>7. RivalGood(r)'
  BY <1>1, <1>2, <1>3, <1>4, <1>5, <1>6 DEF RivalGood, SameTry, Came, docs
<1> QED BY <1>1, <1>2, <1>7, GoesOnAnswers DEF SameTry

\* The try is lost to another message, and the loop goes round or gives up.
LEMMA RelookupAnswers ==
  ASSUME NEW r, Tries(r), Relookup(r)
  PROVE  PostAnswers(r)'
<1>1. /\ TypeInv /\ r \in Reqs /\ r \in MsgIds /\ UNCHANGED docs /\ RivalGood(r)
      /\ req \in [Reqs -> Request] /\ req[r] \in Request /\ req[r].pc = "relookup"
  BY Kinds DEF Tries, HistoryInv, TypeInv, TypeOK, PostAnswers, Relookup, At
<1>2. CASE \E m \in SameKey(r) : AnswerExisting(r, m)
  BY <1>1, <1>2, AnswerExistingAnswers
<1>3. CASE /\ SameKey(r) = {}
           /\ req' = [req EXCEPT
                ![r].attempt = @ + 1,
                ![r].pc = IF req[r].attempt + 1 < MaxAttempts THEN "channel" ELSE "done",
                ![r].status = IF req[r].attempt + 1 < MaxAttempts THEN @ ELSE "exhausted"]
  <2> DEFINE last == ~(req[r].attempt + 1 < MaxAttempts)
  <2>1. /\ req[r].first \in Nat /\ req[r].attempt \in Nat /\ MaxAttempts \in Nat
        /\ req[r].first > 0 /\ req[r].ch \in Channels
    BY <1>1, AttemptsAssumption DEF Request, RivalGood, TypeInv, Addressed, UnderWay
  <2>2. /\ req'[r].attempt = req[r].attempt + 1 /\ req'[r].first = req[r].first
        /\ req'[r].pc = (IF last THEN "done" ELSE "channel")
        /\ req'[r].status = (IF last THEN "exhausted" ELSE req[r].status)
        /\ Came(r)
    BY <1>1, <1>3, <2>1 DEF Came, Request
  <2>3. channels[req[r].ch].active => Passed(r, req[r].first + req[r].attempt)
    BY <1>1, <1>3, <2>1 DEF RivalGood
  <2>4. \A k : Passed(r, k)' <=> Passed(r, k)
    BY <1>1, <2>2 DEF Passed, InChannel, Stored, Came, docs
  <2>5. req[r].status # "exhausted"
    BY <1>1 DEF RivalGood
  <2>6. (req[r].first + (req[r].attempt + 1)) - 1 = req[r].first + req[r].attempt
    BY <2>1
  <2>7. RivalGood(r)'
    BY <1>1, <2>1, <2>2, <2>3, <2>4, <2>5, <2>6 DEF RivalGood, Came, docs
  <2>8. CASE ~last
    BY <1>1, <2>2, <2>7, <2>8, GoesOnAnswers
  <2>9. CASE last
    BY <2>2, <2>7, <2>9 DEF PostAnswers, AnswerGood, ReplyGood
  <2> QED BY <2>8, <2>9
<1> QED BY <1>2, <1>3 DEF Relookup

\* The message is in: what is left to do has no bearing on the answer's truth.
LEMMA InsertedAnswers ==
  ASSUME TypeInv, NEW r \in MsgIds, PostAnswers(r), PostGood(r),
         Inserts(r) \/ Summary(r) \/ Undo(r)
  PROVE  PostAnswers(r)'
<1>1. r \in Reqs /\ req \in [Reqs -> Request]
  BY Kinds DEF TypeInv, TypeOK
<1>2. CASE Inserts(r)
  <2>1. req' = [req EXCEPT ![r].pc = "summary", ![r].doc = Candidate(r)]
    BY <1>2 DEF Inserts, Insert
  <2>2. /\ req'[r].pc = "summary" /\ req'[r].status = req[r].status /\ SameTry(r)
        /\ req[r].pc = "insert"
    BY <1>1, <1>2, <2>1 DEF SameTry, Came, Request, Inserts, Insert, At
  <2> QED BY <2>2, PastItsTries
<1>3. CASE Summary(r)
  <2>1. SameTry(r) /\ req[r].pc = "summary"
    BY <1>1, <1>3, MovesOn DEF Summary, At
  <2>2. req'[r].pc \in {"undo", "event"} /\ req'[r].status = req[r].status
    BY <1>1, <1>3, GotoKeeps, TakeVersionKeeps DEF Summary
  <2> QED BY <2>1, <2>2, PastItsTries
<1>4. CASE Undo(r)
  <2>1. /\ SameTry(r) /\ req[r].pc = "undo"
        /\ req'[r].pc = "done" /\ req'[r].status = "not_found"
    BY <1>1, <1>4, MovesOn, AnswerKeeps DEF Undo, At
  <2> QED BY <2>1, PastItsTries
<1> QED BY <1>2, <1>3, <1>4

LEMMA CreatedAnswers ==
  ASSUME TypeInv, NEW r \in MsgIds, PostAnswers(r), CreatedEvent(r)
  PROVE  PostAnswers(r)'
<1>1. r \in Reqs /\ req \in [Reqs -> Request]
  BY Kinds DEF TypeInv, TypeOK
<1>2. req' = [req EXCEPT ![r].pc = "done", ![r].status = "created", ![r].msg = r]
  BY DEF CreatedEvent
<1>3. /\ req'[r].pc = "done" /\ req'[r].status = "created" /\ req'[r].msg = r
      /\ SameTry(r)
  BY <1>1, <1>2 DEF SameTry, Came, Request
<1> QED BY <1>3 DEF PostAnswers, AnswerGood, ReplyGood, RivalGood, SameTry

LEMMA SendAnswers ==
  ASSUME HistoryInv, Lasting, NEW r \in MsgIds, PostAnswers(r), PostGood(r), Send(r)
  PROVE  PostAnswers(r)'
<1>1. TypeInv
  BY DEF HistoryInv
<1>2. UNCHANGED docs => Tries(r)
  BY DEF Tries
<1>3. CASE CreateGet(r) \/ AIReplyGet(r)
  BY <1>1, <1>3, GetAnswers
<1>4. CASE \/ r \in CreateReqs /\ CheckReply(r)
           \/ r \in AIReqs /\ CheckSource(r)
  BY <1>2, <1>4, CheckAnswers DEF CheckReply, CheckSource
<1>5. CASE Lookup(r)
  BY <1>2, <1>5, AnswerExistingAnswers, ReadsAnswers DEF Lookup, At
<1>6. CASE FindChannel(r)
  BY <1>2, <1>6, ReadsAnswers DEF FindChannel
<1>7. CASE FindLatest(r)
  BY <1>2, <1>7, FindLatestAnswers DEF FindLatest
<1>8. CASE Insert(r) /\ ~Inserts(r)
  <2>1. Goto(r, "relookup") /\ (SeqTaken(r) \/ KeyTaken(r)) /\ UNCHANGED docs
    <3>1. Goto(r, "relookup")
      BY <1>8 DEF Inserts
    <3>2. req'[r].pc = "relookup"
      BY <1>1, <3>1, GotoKeeps, Kinds
    <3>3. req' # [req EXCEPT ![r].pc = "summary", ![r].doc = Candidate(r)]
      BY <1>1, <3>2, Kinds DEF TypeInv, TypeOK, Request
    <3> QED BY <1>8, <3>1, <3>3 DEF Insert, docs
  <2> QED BY <1>2, <1>8, <2>1, CollisionAnswers
<1>9. CASE Relookup(r)
  BY <1>2, <1>9, RelookupAnswers DEF Relookup
<1>10. CASE Inserts(r) \/ Summary(r) \/ Undo(r)
  BY <1>1, <1>10, InsertedAnswers
<1>11. CASE CreatedEvent(r)
  BY <1>1, <1>11, CreatedAnswers
<1> QED BY <1>3, <1>4, <1>5, <1>6, <1>7, <1>8, <1>9, <1>10, <1>11 DEF Send

\* Whoever takes the step, the answer to a post stays good.
LEMMA NextAnswers ==
  ASSUME AnswerInv, [Next]_vars, NEW r \in MsgIds
  PROVE  PostAnswers(r)'
<1>1. /\ HistoryInv /\ TypeInv /\ r \in Reqs /\ r \notin ReviseReqs /\ r \notin ReadReqs
      /\ PostAnswers(r) /\ PostGood(r) /\ Lasting
  BY Kinds, NextLasting DEF AnswerInv, ChangeInv, HistoryInv, ReqGood
<1>2. CASE req'[r] = req[r]
  BY <1>1, <1>2, StaysAnswered DEF SameTry, Came
<1>3. ASSUME NEW s \in Reqs, s # r, OthersSame(s) PROVE PostAnswers(r)'
  BY <1>1, <1>2, <1>3 DEF OthersSame
<1>4. ASSUME NEW s \in MsgIds, Send(s) PROVE PostAnswers(r)'
  BY <1>1, <1>3, <1>4, SendAnswers, SendSteps, Kinds DEF Steps
<1>5. ASSUME NEW s \in ReviseReqs, Revise(s) PROVE PostAnswers(r)'
  BY <1>1, <1>3, <1>5, ReviseSteps, Kinds DEF Steps
<1>6. ASSUME NEW s \in ReadReqs, Read(s) PROVE PostAnswers(r)'
  BY <1>1, <1>3, <1>6, ReadSteps, Kinds DEF Steps
<1>7. ASSUME NEW s \in Reqs, Abort(s) PROVE PostAnswers(r)'
  <2>1. CASE s = r
    BY <1>1, <1>7, <2>1, MovesOn, AnswerKeeps, PastItsTries DEF Abort
  <2> QED BY <1>1, <1>3, <1>7, <2>1, AnswerKeeps DEF Abort
<1>8. (\E c \in Channels : Deactivate(c)) => UNCHANGED req
  BY DEF Deactivate
<1> QED BY <1>2, <1>4, <1>5, <1>6, <1>7, <1>8 DEF Next, vars
-----------------------------------------------------------------------------
(* AnswerInv: the messages *)

LEMMA SendCame ==
  ASSUME TypeInv, NEW r \in MsgIds, req[r].pc # "idle", Send(r)
  PROVE  Came(r)
<1>1. r \in Reqs /\ req \in [Reqs -> Request]
  BY Kinds DEF TypeInv, TypeOK
<1>2. ASSUME NEW m, AnswerExisting(r, m) PROVE Came(r)
  <2>1. CASE Answer(r, "conflict")
    BY <1>1, <2>1, MovesOn DEF SameTry
  <2>2. CASE req' = [req EXCEPT ![r].pc = "done", ![r].status = "existing",
                                ![r].msg = m, ![r].doc = messages[m]]
    BY <1>1, <2>2 DEF Came, Request
  <2> QED BY <1>2, <2>1, <2>2 DEF AnswerExisting
<1>3. CASE CheckReply(r) \/ CheckSource(r) \/ Summary(r) \/ Undo(r)
  BY <1>1, <1>3, MovesOn DEF CheckReply, CheckSource, Summary, Undo, SameTry
<1>4. CASE Lookup(r)
  BY <1>1, <1>2, <1>4, MovesOn DEF Lookup, SameTry
<1>5. CASE FindChannel(r)
  <2>1. CASE req' = [req EXCEPT ![r].pc = "latest", ![r].seq = channels[req[r].ch].lastSeq]
    BY <1>1, <2>1 DEF Came, Request
  <2> QED BY <1>1, <1>5, <2>1, MovesOn DEF FindChannel, SameTry
<1>6. CASE FindLatest(r)
  <2>1. PICK s \in LatestSeqs(req[r].ch) :
          req' = [req EXCEPT ![r].pc = "insert", ![r].seq = NextSeq(req[r].seq, s),
                             ![r].first = IF req[r].attempt = 0
                                          THEN NextSeq(req[r].seq, s) ELSE @]
    BY <1>6 DEF FindLatest
  <2> QED BY <1>1, <2>1 DEF Came, Request
<1>7. CASE Insert(r)
  <2>1. CASE req' = [req EXCEPT ![r].pc = "summary", ![r].doc = Candidate(r)]
    BY <1>1, <2>1 DEF Came, Request
  <2> QED BY <1>1, <1>7, <2>1, MovesOn DEF Insert, SameTry
<1>8. CASE Relookup(r)
  <2>1. CASE req' = [req EXCEPT
             ![r].attempt = @ + 1,
             ![r].pc = IF req[r].attempt + 1 < MaxAttempts THEN "channel" ELSE "done",
             ![r].status = IF req[r].attempt + 1 < MaxAttempts THEN @ ELSE "exhausted"]
    BY <1>1, <2>1 DEF Came, Request
  <2> QED BY <1>2, <1>8, <2>1 DEF Relookup
<1>9. CASE CreatedEvent(r)
  <2>1. req' = [req EXCEPT ![r].pc = "done", ![r].status = "created", ![r].msg = r]
    BY <1>9 DEF CreatedEvent
  <2> QED BY <1>1, <2>1 DEF Came, Request
<1>10. ~CreateGet(r) /\ ~AIReplyGet(r)
  BY DEF CreateGet, AIReplyGet, At
<1> QED BY <1>3, <1>4, <1>5, <1>6, <1>7, <1>8, <1>9, <1>10 DEF Send

\* Once it has come, a post keeps its inputs.
LEMMA NextCame ==
  ASSUME HistoryInv, [Next]_vars, NEW r \in MsgIds, req[r].pc # "idle"
  PROVE  Came(r)
<1>1. TypeInv /\ r \in Reqs /\ r \notin ReviseReqs /\ r \notin ReadReqs
  BY Kinds DEF HistoryInv
<1>2. CASE req'[r] = req[r]
  BY <1>2 DEF Came
<1>3. ASSUME NEW s \in Reqs, s # r, OthersSame(s) PROVE Came(r)
  BY <1>1, <1>2, <1>3 DEF OthersSame
<1>4. ASSUME NEW s \in MsgIds, Send(s) PROVE Came(r)
  BY <1>1, <1>3, <1>4, SendCame, SendSteps, Kinds DEF Steps
<1>5. ASSUME NEW s \in ReviseReqs, Revise(s) PROVE Came(r)
  BY <1>1, <1>3, <1>5, ReviseSteps, Kinds DEF Steps
<1>6. ASSUME NEW s \in ReadReqs, Read(s) PROVE Came(r)
  BY <1>1, <1>3, <1>6, ReadSteps, Kinds DEF Steps
<1>7. ASSUME NEW s \in Reqs, Abort(s) PROVE Came(r)
  <2>1. CASE s = r
    BY <1>1, <1>7, <2>1, MovesOn DEF Abort, SameTry
  <2> QED BY <1>1, <1>3, <1>7, <2>1, AnswerKeeps DEF Abort
<1>8. (\E c \in Channels : Deactivate(c)) => UNCHANGED req
  BY DEF Deactivate
<1> QED BY <1>2, <1>4, <1>5, <1>6, <1>7, <1>8 DEF Next, vars

LEMMA NextWritten ==
  ASSUME AnswerInv, [Next]_vars, NEW m \in MsgIds
  PROVE  Written(m)'
<1>1. HistoryInv /\ Written(m) /\ SendReqInv(m)
  BY DEF AnswerInv, ChangeInv, HistoryInv
<1> SUFFICES ASSUME m \in Stored' PROVE Written(m)'
  BY DEF Written
<1>2. ASSUME Came(m)
      PROVE  Kind(m)' = Kind(m) /\ RequestHash(m)' = RequestHash(m)
  BY <1>2 DEF Kind, RequestHash, Came
<1>3. CASE m \in Stored /\ SameOrigin(m)
  <2>1. Came(m)
    BY <1>1, <1>3, NextCame DEF SendReqInv, Owned
  <2> QED BY <1>1, <1>2, <1>3, <2>1 DEF Written, SameOrigin, Came
<1>4. CASE \A n \in MsgIds : SameOrigin(n)
  BY <1>3, <1>4 DEF Stored, SameOrigin
<1>5. ASSUME NEW r \in MsgIds, Inserts(r) PROVE Written(m)'
  <2>1. CASE m = r
    <3>1. Came(r)
      BY <1>1, <1>5, InsertedOrigin, NextCame
    <3> QED BY <1>1, <1>2, <1>5, <2>1, <3>1, InsertedOrigin DEF Written, Came
  <2>2. CASE m # r
    <3>1. Stored' = Stored \cup {r} /\ messages'[m] = messages[m]
      BY <1>1, <1>5, <2>2, InsertedOrigin
    <3> QED BY <1>3, <2>2, <3>1 DEF SameOrigin
  <2> QED BY <2>1, <2>2
<1>6. ASSUME NEW r \in MsgIds, Withdraws(r) PROVE Written(m)'
  <2>1. Stored' = Stored \ {r} /\ (m # r => messages'[m] = messages[m])
    BY <1>1, <1>6, WithdrawnOrigin
  <2> QED BY <1>3, <2>1 DEF SameOrigin
<1> QED BY <1>1, <1>4, <1>5, <1>6, NextOrigins

\* The unique index on sender and key keeps a second message out.
LEMMA NextKeys ==
  ASSUME AnswerInv, [Next]_vars
  PROVE  KeysDistinct'
<1>1. HistoryInv /\ KeysDistinct
  BY DEF AnswerInv, ChangeInv
<1>2. CASE \A n \in MsgIds : SameOrigin(n)
  BY <1>1, <1>2 DEF KeysDistinct, Stored, SameOrigin
<1>3. ASSUME NEW r \in MsgIds, Inserts(r) PROVE KeysDistinct'
  <2>1. /\ ~KeyTaken(r) /\ r \notin Stored /\ Stored' = Stored \cup {r}
        /\ messages'[r].ch = req[r].ch /\ messages'[r].sender = req[r].actor
        /\ messages'[r].key = req[r].key
        /\ \A m \in Stored : messages'[m] = messages[m]
    BY <1>1, <1>3, InsertedOrigin DEF Stored
  <2>2. \A m \in Stored : ~(/\ messages[m].ch = req[r].ch
                            /\ messages[m].sender = req[r].actor
                            /\ messages[m].key = req[r].key)
    BY <2>1 DEF KeyTaken, SameKey, InChannel
  <2> QED BY <1>1, <2>1, <2>2 DEF KeysDistinct
<1>4. ASSUME NEW r \in MsgIds, Withdraws(r) PROVE KeysDistinct'
  <2>1. /\ Stored' = Stored \ {r}
        /\ \A m \in Stored : m # r => messages'[m] = messages[m]
    BY <1>1, <1>4, WithdrawnOrigin DEF Stored
  <2> QED BY <1>1, <2>1 DEF KeysDistinct
<1> QED BY <1>1, <1>2, <1>3, <1>4, NextOrigins

\* The sequence of a reply was chosen when its source was in, and the channel
\* had no gap below.
LEMMA InsertedFollows ==
  ASSUME HistoryInv, NEW r \in MsgIds, Inserts(r), channels[req[r].ch].active,
         NEW t \in InChannel(req[r].ch)
  PROVE  messages[t].seq < req[r].seq
<1>1. /\ messages \in [MsgIds -> Message] /\ req \in [Reqs -> Request]
      /\ NoGaps /\ r \in Reqs /\ TypeInv
  BY Kinds DEF HistoryInv, TypeInv, TypeOK
<1>2. req[r].pc = "insert" /\ ~SeqTaken(r)
  BY InsertedOrigin
<1>3. messages[t].seq \in Nat /\ req[r].seq \in Nat /\ req[r].seq > 0
      /\ req[r].ch \in Channels
  BY <1>1, <1>2 DEF InChannel, Stored, Message, Request, HistoryInv, SendReqInv, Chosen,
     TypeInv, Addressed, UnderWay
<1>4. messages[t].seq # req[r].seq
  BY <1>2 DEF SeqTaken
<1>5. ASSUME messages[t].seq > req[r].seq PROVE FALSE
  <2>1. req[r].seq \in 1..(messages[t].seq - 1)
    BY <1>3, <1>5
  <2> QED BY <1>1, <1>2, <1>3, <2>1 DEF NoGaps, SeqTaken
<1> QED BY <1>3, <1>4, <1>5

LEMMA NextReplies ==
  ASSUME AnswerInv, [Next]_vars
  PROVE  RepliesFollowTheirSource'
<1>1. HistoryInv /\ Lasting /\ RepliesFollowTheirSource /\ TypeInv
  BY NextLasting DEF AnswerInv, ChangeInv, HistoryInv
<1> SUFFICES ASSUME NEW m \in Stored', messages'[m].reply # None,
                    channels'[messages'[m].ch].active
             PROVE  LET t == messages'[m].reply IN
                      /\ t \in InChannel(messages[m].ch)'
                      /\ messages'[t].seq < messages'[m].seq
                      /\ messages'[m].kind = "ai" =>
                           /\ messages'[t].kind = "user"
                           /\ messages'[t].sender # messages'[m].sender
  BY DEF RepliesFollowTheirSource
<1> DEFINE t == messages'[m].reply
           c == messages'[m].ch
<1>2. m \in MsgIds
  BY DEF Stored
<1>3. CASE m \in Stored /\ SameOrigin(m)
  <2>1. /\ t = messages[m].reply /\ c = messages[m].ch /\ c \in Channels
        /\ messages'[m].seq = messages[m].seq /\ messages'[m].kind = messages[m].kind
        /\ messages'[m].sender = messages[m].sender
    BY <1>1, <1>3 DEF SameOrigin, TypeInv
  <2>2. channels[c].active
    BY <1>1, <2>1 DEF Lasting
  <2>3. t \in Stored /\ messages[t].ch = c
    BY <1>1, <1>3, <2>1, <2>2 DEF RepliesFollowTheirSource, InChannel
  <2>4. t \in Stored' /\ SameOrigin(t)
    BY <1>1, <2>3 DEF Lasting
  <2> QED BY <1>1, <1>3, <2>1, <2>2, <2>3, <2>4
          DEF RepliesFollowTheirSource, InChannel, SameOrigin
<1>4. ASSUME NEW r \in MsgIds, Inserts(r), m = r
      PROVE  /\ t \in InChannel(messages[m].ch)'
             /\ messages'[t].seq < messages'[m].seq
             /\ messages'[m].kind = "ai" => /\ messages'[t].kind = "user"
                                           /\ messages'[t].sender # messages'[m].sender
  <2>1. /\ req[r].pc = "insert" /\ UNCHANGED channels /\ t = req[r].reply
        /\ c = req[r].ch /\ messages'[r].seq = req[r].seq
        /\ messages'[r].sender = req[r].actor /\ messages'[r].kind = Kind(r)
        /\ r \notin Stored /\ Stored' = Stored \cup {r}
        /\ \A n \in MsgIds : n # r => messages'[n] = messages[n]
    BY <1>1, <1>4, InsertedOrigin
  <2>2. /\ t \in InChannel(c)
        /\ r \in AIReqs => /\ messages[t].kind = "user"
                           /\ messages[t].sender # req[r].actor
    BY <2>1 DEF AnswerInv, PostAnswers, ReplyGood
  <2>3. messages[t].seq < req[r].seq
    BY <1>1, <1>4, <2>1, <2>2, InsertedFollows
  <2>4. messages'[t] = messages[t] /\ t \in Stored'
    BY <2>1, <2>2 DEF InChannel, Stored
  <2>5. Kind(r) = "ai" => r \in AIReqs
    BY DEF Kind
  <2> QED BY <1>4, <2>1, <2>2, <2>3, <2>4, <2>5 DEF InChannel
<1>5. (m \in Stored /\ SameOrigin(m)) \/ \E r \in MsgIds : Inserts(r) /\ m = r
  <2>1. CASE \A n \in MsgIds : SameOrigin(n)
    BY <1>2, <2>1 DEF Stored, SameOrigin
  <2>2. ASSUME NEW r \in MsgIds, Inserts(r), m # r PROVE m \in Stored /\ SameOrigin(m)
    BY <1>1, <1>2, <2>2, InsertedOrigin DEF SameOrigin
  <2>3. ASSUME NEW r \in MsgIds, Withdraws(r) PROVE m \in Stored /\ SameOrigin(m)
    BY <1>1, <1>2, <2>3, WithdrawnOrigin DEF SameOrigin
  <2> QED BY <1>1, <2>1, <2>2, <2>3, NextOrigins
<1> QED BY <1>3, <1>4, <1>5
-----------------------------------------------------------------------------
(* AnswerInv, and what follows from it *)

LEMMA InitAnswers == Init => AnswerInv
<1> SUFFICES ASSUME Init PROVE AnswerInv
  OBVIOUS
<1>1. Stored = {}
  BY DEF Init, NoDoc, Stored
<1>2. \A r \in MsgIds : PostAnswers(r)
  BY Kinds DEF Init, Idle, PostAnswers, AnswerGood, ReplyGood, RivalGood
<1> QED BY <1>1, <1>2, InitChange
        DEF AnswerInv, Written, KeysDistinct, RepliesFollowTheirSource

LEMMA StepAnswers == AnswerInv /\ [Next]_vars => AnswerInv'
<1> SUFFICES ASSUME AnswerInv, [Next]_vars PROVE AnswerInv'
  OBVIOUS
<1>1. ChangeInv'
  BY StepChange DEF AnswerInv
<1>2. \A m \in MsgIds : Written(m)' /\ PostAnswers(m)'
  BY NextWritten, NextAnswers
<1> QED BY <1>1, <1>2, NextKeys, NextReplies DEF AnswerInv

LEMMA AnswerInvariant == Spec => []AnswerInv
  BY InitAnswers, StepAnswers, PTL DEF Spec

\* A reply follows the message it answers, which is of its own channel, though
\* that message was looked at several calls before the reply was inserted
\* (message.service.go:54-62 and 97-106, message.repo.go:66-107).
THEOREM RepliesFollow == Spec => []RepliesFollowTheirSource
<1>1. AnswerInv => RepliesFollowTheirSource
  BY DEF AnswerInv
<1> QED BY <1>1, AnswerInvariant, PTL

\* An answered post asked for the message it is answered with.
LEMMA AnsweredAsAsked ==
  ASSUME AnswerInv, NEW r \in MsgIds, Answered(r), channels[req[r].ch].active
  PROVE  /\ req[r].msg \in SameKey(r)
         /\ messages[req[r].msg].hash = RequestHash(r)
         /\ req[r].status = "created" => req[r].msg = r
<1>1. PostAnswers(r) /\ PostGood(r) /\ SendReqInv(r) /\ Written(r)
  BY Kinds DEF AnswerInv, ChangeInv, HistoryInv, ReqGood
<1>2. CASE req[r].status = "existing"
  BY <1>1, <1>2 DEF PostAnswers, AnswerGood
<1>3. CASE req[r].status = "created"
  <2>1. req[r].msg = r /\ r \in Stored
    BY <1>1, <1>3 DEF PostAnswers, AnswerGood, PostGood
  <2> QED BY <1>1, <2>1 DEF SendReqInv, Owned, Written, SameKey, InChannel
<1> QED BY <1>2, <1>3 DEF Answered

\* However often a post is sent and however its copies interleave, one message
\* comes of it, and one of the copies at most is told that it is new
\* (message.repo.go:41-107).
THEOREM AnswersIdempotent == Spec => []IdempotentAnswers
<1>1. AnswerInv => IdempotentAnswers
  <2> SUFFICES ASSUME AnswerInv, NEW r \in MsgIds, NEW s \in MsgIds,
                      Answered(r), Answered(s), req[r].ch = req[s].ch,
                      req[r].actor = req[s].actor, req[r].key = req[s].key,
                      channels[req[r].ch].active
               PROVE  /\ req[r].msg = req[s].msg
                      /\ req[r].msg \in InChannel(req[r].ch)
                      /\ messages[req[r].msg].hash = RequestHash(r)
                      /\ r # s => "existing" \in {req[r].status, req[s].status}
    BY DEF IdempotentAnswers
  <2>1. /\ req[r].msg \in SameKey(r) /\ req[s].msg \in SameKey(s)
        /\ messages[req[r].msg].hash = RequestHash(r)
        /\ req[r].status = "created" => req[r].msg = r
        /\ req[s].status = "created" => req[s].msg = s
    BY AnsweredAsAsked
  <2>2. req[r].msg = req[s].msg
    BY <2>1 DEF AnswerInv, KeysDistinct, SameKey, InChannel
  <2>3. r # s => "existing" \in {req[r].status, req[s].status}
    BY <2>1, <2>2 DEF Answered
  <2> QED BY <2>1, <2>2, <2>3 DEF SameKey
<1> QED BY <1>1, AnswerInvariant, PTL

\* A channel without gaps has a message for each of the sequences tried.
LEMMA AsManyAsTries ==
  ASSUME TypeInv, NoGaps, NEW c \in Channels, channels[c].active, IsFiniteSet(MsgIds),
         NEW k \in Nat \ {0}, NEW n \in Nat \ {0},
         NEW l \in InChannel(c), messages[l].seq >= k + n - 1
  PROVE  Cardinality({m \in InChannel(c) : messages[m].seq >= k}) >= n
<1> DEFINE S == {m \in InChannel(c) : messages[m].seq >= k}
           T == k..(k + n - 1)
           f == [i \in T |-> CHOOSE m \in S : messages[m].seq = i]
<1>1. IsFiniteSet(S)
  BY FS_Subset DEF InChannel, Stored
<1>2. IsFiniteSet(T) /\ Cardinality(T) = n
  BY FS_Interval
<1>3. messages[l].seq \in Nat
  BY DEF TypeInv, TypeOK, Message, InChannel, Stored
<1>4. ASSUME NEW i \in T PROVE \E m \in S : messages[m].seq = i
  <2>1. CASE i = messages[l].seq
    BY <2>1
  <2>2. CASE i # messages[l].seq
    <3>1. i \in 1..(messages[l].seq - 1) /\ i >= k
      BY <1>3, <2>2
    <3> QED BY <3>1 DEF NoGaps
  <2> QED BY <2>1, <2>2
<1>5. \A i \in T : f[i] \in S /\ messages[f[i]].seq = i
  BY <1>4
<1>6. f \in [T -> S]
  BY <1>5
<1> HIDE DEF S, f, T
<1>7. ~(Cardinality(S) < Cardinality(T))
  <2> SUFFICES ASSUME Cardinality(S) < Cardinality(T) PROVE FALSE
    OBVIOUS
  <2>1. PICK x \in T, y \in T : x # y /\ f[x] = f[y]
    BY <1>1, <1>2, <1>6, FS_PigeonHole
  <2> QED BY <1>5, <2>1
<1>8. Cardinality(S) \in Nat
  BY <1>1, FS_CardinalityType
<1> QED BY <1>2, <1>7, <1>8 DEF S

\* A post is refused for too many collisions only after as many messages of
\* others got in at or above the first sequence it tried
\* (message.repo.go:66-110).
THEOREM ExhaustedByRivals ==
  ASSUME IsFiniteSet(MsgIds)
  PROVE  Spec => []ExhaustionNeedsRivals
<1>1. AnswerInv => ExhaustionNeedsRivals
  <2> SUFFICES ASSUME AnswerInv, NEW r \in MsgIds, req[r].status = "exhausted",
                      channels[req[r].ch].active
               PROVE  Cardinality({m \in InChannel(req[r].ch) :
                                     messages[m].seq >= req[r].first}) >= MaxAttempts
    BY DEF ExhaustionNeedsRivals
  <2>1. TypeInv /\ NoGaps /\ RivalGood(r) /\ req[r] \in Request
    BY Kinds DEF AnswerInv, ChangeInv, HistoryInv, PostAnswers, TypeInv, TypeOK
  <2>2. /\ req[r].first \in Nat \ {0} /\ req[r].attempt \in Nat
        /\ MaxAttempts \in Nat \ {0}
        /\ req[r].attempt >= MaxAttempts /\ req[r].ch \in Channels
    BY <2>1, AttemptsAssumption DEF RivalGood, Request
  <2>3. Passed(r, req[r].first + req[r].attempt - 1)
    BY <2>1, <2>2 DEF RivalGood
  <2>4. PICK l \in InChannel(req[r].ch) :
          messages[l].seq >= req[r].first + req[r].attempt - 1
    BY <2>3 DEF Passed
  <2>5. messages[l].seq \in Nat
    BY <2>1 DEF TypeInv, TypeOK, Message, InChannel, Stored
  <2>6. messages[l].seq >= req[r].first + MaxAttempts - 1
    BY <2>2, <2>4, <2>5
  <2> QED BY <2>1, <2>2, <2>6, AsManyAsTries
<1> QED BY <1>1, AnswerInvariant, PTL
=============================================================================

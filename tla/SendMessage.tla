---------------------------- MODULE SendMessage -----------------------------
(***************************************************************************)
(* Posting a message: Service.Create and Service.CreateAIReply, and the    *)
(* Repository.Create they share.  The sequence of a message is found by    *)
(* optimistic retry against a unique index; the summary in the channel and *)
(* the event are written afterwards, each by a call of its own.            *)
(***************************************************************************)
EXTENDS ChatDocs

\* What the clients may name as reply_to_message_id: messages they have seen.
ReplyTargets == {None} \cup (IF WithReplies THEN Stored ELSE {})

\* Service.Create up to its first MongoDB call: the channel is looked up
\* before the payload is validated.
CreateGet(r) ==
  /\ At(r, "idle")
  /\ \E u \in Users, c \in Channels, k \in Keys, b \in Bodies,
        t \in ReplyTargets :
       Arrive(r, [req[r] EXCEPT !.actor = u, !.ch = c, !.key = k,
                                !.body = b, !.reply = t],
              CASE ~CanAccess(u, c) -> "not_found"
                [] b = Malformed    -> "invalid"
                [] OTHER            -> "pending",
              IF t = None THEN "lookup" ELSE "reply")
  /\ UNCHANGED docs

\* Service.CreateAIReply: the payload is validated first, and there always
\* is a message to answer.
AIReplyGet(r) ==
  /\ At(r, "idle")
  /\ \E u \in Users, c \in Channels, k \in Keys, b \in Bodies, t \in Stored :
       Arrive(r, [req[r] EXCEPT !.actor = u, !.ch = c, !.key = k,
                                !.body = b, !.reply = t],
              CASE b = Malformed    -> "invalid"
                [] ~CanAccess(u, c) -> "not_found"
                [] OTHER            -> "pending",
              "source")
  /\ UNCHANGED docs

CheckReplyAnyChannel(r) ==                         \* mutant of CheckReply
  /\ At(r, "reply")
  /\ IF req[r].reply \in Stored THEN Goto(r, "lookup") ELSE Answer(r, "not_found")
  /\ UNCHANGED docs

\* The reply must be to a message of the same channel.
CheckReply(r) ==
  /\ At(r, "reply")
  /\ LET t == req[r].reply IN
       \/ t \notin Stored /\ Answer(r, "not_found")
       \/ t \in Stored /\ messages[t].ch # req[r].ch /\ Answer(r, "invalid")
       \/ t \in InChannel(req[r].ch) /\ Goto(r, "lookup")
  /\ UNCHANGED docs

\* The worker may only answer a customer's message that still stands.
Answerable(r, t) ==
  /\ messages[t].ch = req[r].ch
  /\ messages[t].sender # req[r].actor
  /\ messages[t].kind # "ai"
  /\ ~messages[t].recalled

CheckSource(r) ==
  /\ At(r, "source")
  /\ LET t == req[r].reply IN
       \/ t \notin Stored /\ Answer(r, "not_found")
       \/ t \in Stored /\ ~Answerable(r, t) /\ Answer(r, "conflict")
       \/ t \in Stored /\ Answerable(r, t) /\ Goto(r, "lookup")
  /\ UNCHANGED docs
-----------------------------------------------------------------------------
(* Repository.Create *)

Kind(r) == IF r \in AIReqs THEN "ai" ELSE "user"
RequestHashOfBody(r) == req[r].body                \* mutant of RequestHash
\* Of the whole request, in Service.Create (message.service.go:63-64) and in
\* Service.CreateAIReply (117-118).
RequestHash(r) == <<Kind(r), req[r].body, req[r].reply>>

SameKey(r) == {m \in InChannel(req[r].ch) : /\ messages[m].sender = req[r].actor
                                            /\ messages[m].key = req[r].key}

\* existing() found message m: a retry gets it back, unless its payload was
\* another one.
AnswerExisting(r, m) ==
  IF messages[m].hash = RequestHash(r)
  THEN req' = [req EXCEPT ![r].pc = "done", ![r].status = "existing",
                          ![r].msg = m, ![r].doc = messages[m]]
  ELSE Answer(r, "conflict")

Lookup(r) ==
  /\ At(r, "lookup")
  /\ \/ \E m \in SameKey(r) : AnswerExisting(r, m)
     \/ SameKey(r) = {} /\ Goto(r, "channel")
  /\ UNCHANGED docs

FindChannel(r) ==
  /\ At(r, "channel")
  /\ IF CanAccess(req[r].actor, req[r].ch)
     THEN req' = [req EXCEPT ![r].pc = "latest",
                             ![r].seq = channels[req[r].ch].lastSeq]
     ELSE Answer(r, "not_found")
  /\ UNCHANGED docs

\* The sequence of the newest message, as a set of one; 0 without messages.
LatestSeqs(c) ==
  {messages[m].seq : m \in {n \in InChannel(c) :
      \A o \in InChannel(c) : messages[o].seq <= messages[n].seq}}
  \cup (IF InChannel(c) = {} THEN {0} ELSE {})

NextSeqOfSummary(summary, latest) == summary + 1   \* mutant of NextSeq

\* One past the larger of the summary and the newest message.
NextSeq(summary, latest) == (IF latest > summary THEN latest ELSE summary) + 1

FindLatest(r) ==
  /\ At(r, "latest")
  /\ \E s \in LatestSeqs(req[r].ch) :
       LET n == NextSeq(req[r].seq, s) IN
         req' = [req EXCEPT ![r].pc = "insert", ![r].seq = n,
                            ![r].first = IF req[r].attempt = 0 THEN n ELSE @]
  /\ UNCHANGED docs

SeqTakenNoIndex(r) == FALSE                        \* mutant of SeqTaken
KeyTakenNoIndex(r) == FALSE                        \* mutant of KeyTaken

\* The two unique indexes of the messages collection.
SeqTaken(r) == \E m \in InChannel(req[r].ch) : messages[m].seq = req[r].seq
KeyTaken(r) == SameKey(r) # {}

Candidate(r) ==
  [ch |-> req[r].ch, sender |-> req[r].actor,
   kind |-> Kind(r), key |-> req[r].key, hash |-> RequestHash(r),
   reply |-> req[r].reply, seq |-> req[r].seq, rev |-> 1,
   recalled |-> FALSE, content |-> req[r].body]

Insert(r) ==
  /\ At(r, "insert")
  /\ \/ /\ ~SeqTaken(r) /\ ~KeyTaken(r)
        /\ messages' = [messages EXCEPT ![r] = Candidate(r)]
        /\ req' = [req EXCEPT ![r].pc = "summary", ![r].doc = Candidate(r)]
     \/ /\ SeqTaken(r) \/ KeyTaken(r)
        /\ Goto(r, "relookup")
        /\ UNCHANGED messages
  /\ UNCHANGED <<channels, states, outbox>>

\* After a duplicate key: the same request may have got through elsewhere,
\* otherwise another message took the sequence and the loop goes round.
Relookup(r) ==
  /\ At(r, "relookup")
  /\ \/ \E m \in SameKey(r) : AnswerExisting(r, m)
     \/ /\ SameKey(r) = {}
        /\ req' = [req EXCEPT
             ![r].attempt = @ + 1,
             ![r].pc = IF req[r].attempt + 1 < MaxAttempts THEN "channel" ELSE "done",
             ![r].status = IF req[r].attempt + 1 < MaxAttempts THEN @ ELSE "exhausted"]
  /\ UNCHANGED docs

SummarizedByLastWriter(ch, r) ==                   \* mutant of Summarized
  [ch EXCEPT !.lastSeq = req[r].seq, !.lastMsg = r, !.version = @ + 1]
SummarizedIdByLastWriter(ch, r) ==                 \* mutant of Summarized
  [ch EXCEPT !.lastSeq = IF @ < req[r].seq THEN req[r].seq ELSE @,
             !.lastMsg = r, !.version = @ + 1]
SummarizedInTurn(ch, r) ==                         \* mutant of Summarized
  LET next == req[r].seq = ch.lastSeq + 1 IN
  [ch EXCEPT !.lastSeq = IF next THEN req[r].seq ELSE @,
             !.lastMsg = IF next THEN r ELSE @, !.version = @ + 1]
SummarizedIfNewer(ch, r) ==                        \* mutant of Summarized
  IF ch.lastSeq < req[r].seq
  THEN [ch EXCEPT !.lastSeq = req[r].seq, !.lastMsg = r, !.version = @ + 1]
  ELSE ch

\* The $set pipeline: the summary moves only forward, the version always.
Summarized(ch, r) ==
  LET newer == ch.lastSeq < req[r].seq IN
  [ch EXCEPT !.lastSeq = IF newer THEN req[r].seq ELSE @,
             !.lastMsg = IF newer THEN r ELSE @,
             !.version = @ + 1]

SummaryUndoneOnAnyError(r) ==                      \* mutant of Summary
  /\ At(r, "summary")
  /\ \/ /\ CanAccess(req[r].actor, req[r].ch)
        /\ TakeVersion(r, Summarized(channels[req[r].ch], r))
     \/ Goto(r, "undo") /\ UNCHANGED channels
  /\ UNCHANGED <<messages, states, outbox>>

Summary(r) ==
  /\ At(r, "summary")
  /\ \/ /\ CanAccess(req[r].actor, req[r].ch)
        /\ TakeVersion(r, Summarized(channels[req[r].ch], r))
     \/ /\ ~CanAccess(req[r].actor, req[r].ch)
        /\ Goto(r, "undo")
        /\ UNCHANGED channels
  /\ UNCHANGED <<messages, states, outbox>>

\* The channel is gone: delete the message; the outcome of that is ignored.
Undo(r) ==
  /\ At(r, "undo")
  /\ messages' \in {messages, [messages EXCEPT ![r] = NoDoc]}
  /\ Answer(r, "not_found")
  /\ UNCHANGED <<channels, states, outbox>>

CreatedEvent(r) ==
  /\ At(r, "event")
  /\ outbox' = outbox \cup {MessagePayload(r, "created", r)}
  /\ req' = [req EXCEPT ![r].pc = "done", ![r].status = "created", ![r].msg = r]
  /\ UNCHANGED <<messages, channels, states>>

Send(r) ==
  \/ r \in CreateReqs /\ (CreateGet(r) \/ CheckReply(r))
  \/ r \in AIReqs /\ (AIReplyGet(r) \/ CheckSource(r))
  \/ Lookup(r) \/ FindChannel(r) \/ FindLatest(r) \/ Insert(r) \/ Relookup(r)
  \/ Summary(r) \/ Undo(r) \/ CreatedEvent(r)
=============================================================================

-------------------------- MODULE ChatStoreProofs ---------------------------
(***************************************************************************)
(* Type correctness and safety of ChatStore, for any sets of users,        *)
(* channels, keys and requests and any number of attempts.                 *)
(*                                                                         *)
(* Types: a step rewrites the record of one request, so each action is     *)
(* shown to be a RequestStep: what it writes there is a Request that has   *)
(* its inputs as long as it is under way.                                  *)
(*                                                                         *)
(* Safety, from the inductive invariant of ChatStoreInv: most steps change *)
(* nothing of the history of a channel: SameHistory says so, and for them  *)
(* only the request that moves has to be looked at.  Five do: the insert   *)
(* of a message, its withdrawal, the summary, the cursor and the clearing  *)
(* of a channel.                                                           *)
(***************************************************************************)
EXTENDS ChatStoreInv, TLAPS

AddressedAs(r, q) ==
  q.pc \notin {"idle", "done"} =>
    /\ q.actor \in Users /\ q.ch \in Channels
    /\ r \in MsgIds => q.body \in Bodies
    /\ r \in ReviseReqs => q.msg \in MsgIds

RequestStep(r) ==
  \E q \in Request : AddressedAs(r, q) /\ req' = [req EXCEPT ![r] = q]

MessagesTyped ==
  /\ messages \in [MsgIds -> Message]
  /\ \A m \in Stored : messages[m].ch \in Channels

DocsTyped ==
  /\ MessagesTyped
  /\ channels \in [Channels -> Channel]
  /\ states \in [Channels -> [Users -> Nat]]
  /\ outbox \subseteq MessageEvent \cup CursorEvent
-----------------------------------------------------------------------------
LEMMA NoDocType == NoDoc \in Message
  BY DEF NoDoc, Message

LEMMA IdleType == Idle \in Request
  BY NoDocType DEF Idle, Request, Statuses, PCs

\* Initially every variable has its type, and no request is under way.
LEMMA InitTypeInv == Init => TypeInv
<1> SUFFICES ASSUME Init PROVE TypeInv OBVIOUS
<1>1. messages \in [MsgIds -> Message]
  BY NoDocType DEF Init
<1>2. channels \in [Channels -> Channel]
  BY DEF Init, NewChannel, Channel
<1>3. states \in [Channels -> [Users -> Nat]]
  BY DEF Init
<1>4. req \in [Reqs -> Request]
  BY IdleType DEF Init
<1>5. \A r \in Reqs : Addressed(r)
  BY DEF Init, Idle, Addressed, UnderWay
<1>6. Stored = {}
  BY DEF Init, Stored, NoDoc
<1> QED BY <1>1, <1>2, <1>3, <1>4, <1>5, <1>6 DEF Init, TypeInv, TypeOK

\* A request step on documents of their types keeps the type invariant.
LEMMA RequestStepTypes ==
  ASSUME TypeInv, NEW r \in Reqs, RequestStep(r), DocsTyped'
  PROVE  TypeInv'
<1>1. PICK q \in Request : AddressedAs(r, q) /\ req' = [req EXCEPT ![r] = q]
  BY DEF RequestStep
<1>2. req \in [Reqs -> Request]
  BY DEF TypeInv, TypeOK
<1>3. req' \in [Reqs -> Request]
  BY <1>1, <1>2
<1>4. \A s \in Reqs : Addressed(s)'
  <2> SUFFICES ASSUME NEW s \in Reqs PROVE Addressed(s)' OBVIOUS
  <2>1. CASE s = r
    BY <1>1, <1>2, <2>1 DEF AddressedAs, Addressed, UnderWay
  <2>2. CASE s # r
    <3>1. req'[s] = req[s]
      BY <1>1, <1>2, <2>2
    <3>2. Addressed(s)
      BY DEF TypeInv
    <3> QED BY <3>1, <3>2 DEF Addressed, UnderWay
  <2> QED BY <2>1, <2>2
<1> QED BY <1>3, <1>4 DEF TypeInv, TypeOK, DocsTyped, MessagesTyped

LEMMA TypedDocs == TypeInv => DocsTyped
  BY DEF TypeInv, TypeOK, DocsTyped, MessagesTyped

\* So does one that only reads the documents.
LEMMA ReadStepTypes ==
  ASSUME TypeInv, NEW r \in Reqs, RequestStep(r), UNCHANGED docs
  PROVE  TypeInv'
<1>1. DocsTyped'
  BY TypedDocs DEF docs, DocsTyped, MessagesTyped, Stored
<1> QED BY <1>1, RequestStepTypes
-----------------------------------------------------------------------------
(* The steps the handlers are made of *)

LEMMA GotoStep ==
  ASSUME TypeInv, NEW r \in Reqs, UnderWay(r), NEW p \in PCs, Goto(r, p)
  PROVE  RequestStep(r)
<1> DEFINE q == [req[r] EXCEPT !.pc = p]
<1>1. req[r] \in Request /\ Addressed(r)
  BY DEF TypeInv, TypeOK
<1>2. q \in Request
  BY <1>1 DEF Request
<1>3. AddressedAs(r, q)
  BY <1>1 DEF Addressed, AddressedAs, Request
<1>4. req' = [req EXCEPT ![r] = q]
  BY DEF Goto
<1> QED BY <1>2, <1>3, <1>4 DEF RequestStep

LEMMA AnswerStep ==
  ASSUME TypeInv, NEW r \in Reqs, NEW s \in Statuses, Answer(r, s)
  PROVE  RequestStep(r)
<1> DEFINE q == [req[r] EXCEPT !.pc = "done", !.status = s]
<1>1. req[r] \in Request /\ "done" \in PCs
  BY DEF TypeInv, TypeOK, PCs
<1>2. q \in Request
  BY <1>1 DEF Request
<1>3. AddressedAs(r, q)
  BY <1>1 DEF AddressedAs, Request
<1>4. req' = [req EXCEPT ![r] = q]
  BY DEF Answer
<1> QED BY <1>2, <1>3, <1>4 DEF RequestStep

LEMMA ArriveStep ==
  ASSUME NEW r \in Reqs, NEW in \in Request, NEW v \in Statuses, NEW p \in PCs,
         in.actor \in Users, in.ch \in Channels,
         r \in MsgIds => in.body \in Bodies,
         r \notin ReviseReqs,
         Arrive(r, in, v, p)
  PROVE  RequestStep(r)
<1> DEFINE pc == IF v = "pending" THEN p ELSE "done"
           q  == [in EXCEPT !.pc = pc, !.status = v]
<1>1. pc \in PCs
  BY DEF PCs
<1>2. req' = [req EXCEPT ![r] = q]
  BY DEF Arrive
<1> HIDE DEF pc
<1>3. q \in Request
  BY <1>1 DEF Request
<1>4. AddressedAs(r, q)
  BY DEF AddressedAs, Request
<1> QED BY <1>2, <1>3, <1>4 DEF RequestStep

LEMMA TakeVersionStep ==
  ASSUME TypeInv, NEW r \in Reqs, UnderWay(r), NEW ch \in Channel,
         TakeVersion(r, ch)
  PROVE  /\ channels' \in [Channels -> Channel]
         /\ RequestStep(r)
<1> DEFINE v == ch.version
           q == [req[r] EXCEPT !.version = v, !.pc = "event"]
<1>1. /\ v \in Nat /\ req[r] \in Request /\ "event" \in PCs /\ Addressed(r)
  BY DEF Channel, TypeInv, TypeOK, PCs, SendPCs
<1>2. req' = [req EXCEPT ![r] = q]
  BY DEF TakeVersion
<1>3. channels' \in [Channels -> Channel]
  BY DEF TakeVersion, TypeInv, TypeOK
<1> HIDE DEF v
<1>4. q \in Request
  BY <1>1 DEF Request
<1>5. AddressedAs(r, q)
  BY <1>1 DEF Addressed, AddressedAs, Request
<1> QED BY <1>2, <1>3, <1>4, <1>5 DEF RequestStep
-----------------------------------------------------------------------------
(* Posting *)

LEMMA CreateGetType ==
  ASSUME TypeInv, NEW r \in CreateReqs, CreateGet(r)
  PROVE  TypeInv'
<1>1. PICK u \in Users, c \in Channels, k \in Keys, b \in Bodies, t \in ReplyTargets :
        Arrive(r, [req[r] EXCEPT !.actor = u, !.ch = c, !.key = k,
                                 !.body = b, !.reply = t],
               CASE ~CanAccess(u, c) -> "not_found"
                 [] b = Malformed    -> "invalid"
                 [] OTHER            -> "pending",
               IF t = None THEN "lookup" ELSE "reply")
  BY DEF CreateGet
<1>2. r \in Reqs /\ r \notin ReviseReqs /\ t \in MsgIds \cup {None}
  BY RequestsAssumption DEF Reqs, MsgIds, ReplyTargets, Stored
<1> DEFINE in == [req[r] EXCEPT !.actor = u, !.ch = c, !.key = k,
                                !.body = b, !.reply = t]
           v  == CASE ~CanAccess(u, c) -> "not_found"
                   [] b = Malformed    -> "invalid"
                   [] OTHER            -> "pending"
           p  == IF t = None THEN "lookup" ELSE "reply"
<1>3. in \in Request /\ in.actor = u /\ in.ch = c /\ in.body = b
  <2>1. req[r] \in Request
    BY <1>2 DEF TypeInv, TypeOK
  <2> HIDE DEF v, p
  <2> QED BY <1>2, <2>1 DEF Request
<1>4. v \in Statuses
  BY DEF Statuses
<1>5. p \in PCs
  BY DEF PCs, SendPCs
<1>6. Arrive(r, in, v, p)
  BY <1>1
<1> HIDE DEF in, v, p
<1>7. RequestStep(r)
  BY <1>2, <1>3, <1>4, <1>5, <1>6, ArriveStep
<1> QED BY <1>2, <1>7, ReadStepTypes DEF CreateGet

LEMMA AIReplyGetType ==
  ASSUME TypeInv, NEW r \in AIReqs, AIReplyGet(r)
  PROVE  TypeInv'
<1>1. PICK u \in Users, c \in Channels, k \in Keys, b \in Bodies, t \in Stored :
        Arrive(r, [req[r] EXCEPT !.actor = u, !.ch = c, !.key = k,
                                 !.body = b, !.reply = t],
               CASE b = Malformed    -> "invalid"
                 [] ~CanAccess(u, c) -> "not_found"
                 [] OTHER            -> "pending",
               "source")
  BY DEF AIReplyGet
<1>2. r \in Reqs /\ r \notin ReviseReqs /\ t \in MsgIds
  BY RequestsAssumption DEF Reqs, MsgIds, Stored
<1> DEFINE in == [req[r] EXCEPT !.actor = u, !.ch = c, !.key = k,
                                !.body = b, !.reply = t]
           v  == CASE b = Malformed    -> "invalid"
                   [] ~CanAccess(u, c) -> "not_found"
                   [] OTHER            -> "pending"
<1>3. in \in Request /\ in.actor = u /\ in.ch = c /\ in.body = b
  <2>1. req[r] \in Request
    BY <1>2 DEF TypeInv, TypeOK
  <2> HIDE DEF v
  <2> QED BY <1>2, <2>1 DEF Request
<1>4. v \in Statuses
  BY DEF Statuses
<1>5. "source" \in PCs
  BY DEF PCs, SendPCs
<1>6. Arrive(r, in, v, "source")
  BY <1>1
<1> HIDE DEF in, v
<1>7. RequestStep(r)
  BY <1>2, <1>3, <1>4, <1>5, <1>6, ArriveStep
<1> QED BY <1>2, <1>7, ReadStepTypes DEF AIReplyGet

\* existing(): the request is answered with a stored message, or refused.
LEMMA AnswerExistingStep ==
  ASSUME TypeInv, NEW r \in Reqs, NEW m \in MsgIds, AnswerExisting(r, m)
  PROVE  RequestStep(r)
<1>1. CASE messages[m].hash = RequestHash(r)
  <2> DEFINE q == [req[r] EXCEPT !.pc = "done", !.status = "existing",
                                 !.msg = m, !.doc = messages[m]]
  <2>1. /\ "done" \in PCs /\ "existing" \in Statuses
        /\ messages[m] \in Message /\ req[r] \in Request
    BY DEF PCs, Statuses, TypeInv, TypeOK
  <2>2. q \in Request
    BY <2>1 DEF Request
  <2>3. req' = [req EXCEPT ![r] = q]
    BY <1>1 DEF AnswerExisting
  <2>4. AddressedAs(r, q)
    BY <2>1 DEF AddressedAs, Request
  <2> QED BY <2>2, <2>3, <2>4 DEF RequestStep
<1>2. CASE messages[m].hash # RequestHash(r)
  <2>1. "conflict" \in Statuses /\ Answer(r, "conflict")
    BY <1>2 DEF Statuses, AnswerExisting
  <2> QED BY <2>1, AnswerStep
<1> QED BY <1>1, <1>2

\* The lookups, and the reading of the channel.
LEMMA SendReadsType ==
  ASSUME TypeInv, NEW r \in MsgIds,
         CheckReply(r) \/ CheckSource(r) \/ Lookup(r) \/ FindChannel(r)
  PROVE  TypeInv'
<1>1. r \in Reqs
  BY DEF Reqs
<1>2. /\ {"lookup", "channel", "latest"} \subseteq PCs
      /\ {"not_found", "invalid", "conflict"} \subseteq Statuses
  BY DEF PCs, SendPCs, Statuses
<1>3. UnderWay(r) /\ UNCHANGED docs
  BY DEF CheckReply, CheckSource, Lookup, FindChannel, UnderWay, At
<1>4. RequestStep(r)
  <2>1. CASE CheckReply(r)
    BY <1>1, <1>2, <1>3, <2>1, GotoStep, AnswerStep DEF CheckReply
  <2>2. CASE CheckSource(r)
    BY <1>1, <1>2, <1>3, <2>2, GotoStep, AnswerStep DEF CheckSource
  <2>3. CASE Lookup(r)
    BY <1>1, <1>2, <1>3, <2>3, GotoStep, AnswerExistingStep
    DEF Lookup, SameKey, InChannel, Stored
  <2>4. CASE FindChannel(r) /\ ~CanAccess(req[r].actor, req[r].ch)
    BY <1>1, <1>2, <2>4, AnswerStep DEF FindChannel
  <2>5. CASE FindChannel(r) /\ CanAccess(req[r].actor, req[r].ch)
    <3> DEFINE s == channels[req[r].ch].lastSeq
               q == [req[r] EXCEPT !.pc = "latest", !.seq = s]
    <3>1. req' = [req EXCEPT ![r] = q]
      BY <2>5 DEF FindChannel
    <3>2. s \in Nat /\ req[r] \in Request /\ Addressed(r)
      BY <1>1, <1>3 DEF TypeInv, TypeOK, Addressed, Channel
    <3> HIDE DEF s
    <3>3. q \in Request
      BY <1>2, <3>2 DEF Request
    <3>4. AddressedAs(r, q)
      BY <1>3, <3>2 DEF Addressed, AddressedAs, Request
    <3> QED BY <3>1, <3>3, <3>4 DEF RequestStep
  <2> QED BY <2>1, <2>2, <2>3, <2>4, <2>5
<1> QED BY <1>1, <1>3, <1>4, ReadStepTypes

LEMMA LatestSeqsType ==
  ASSUME TypeInv, NEW c \in Channels, NEW s \in LatestSeqs(c)
  PROVE  s \in Nat
  BY DEF LatestSeqs, InChannel, Stored, TypeInv, TypeOK, Message

LEMMA FindLatestType ==
  ASSUME TypeInv, NEW r \in MsgIds, FindLatest(r)
  PROVE  TypeInv'
<1>1. r \in Reqs /\ UnderWay(r)
  BY DEF Reqs, FindLatest, UnderWay, At
<1>2. req[r] \in Request /\ Addressed(r) /\ req[r].ch \in Channels
  BY <1>1 DEF TypeInv, TypeOK, Addressed
<1>3. PICK s \in LatestSeqs(req[r].ch) :
        LET n == NextSeq(req[r].seq, s) IN
          req' = [req EXCEPT ![r].pc = "insert", ![r].seq = n,
                             ![r].first = IF req[r].attempt = 0 THEN n ELSE @]
  BY DEF FindLatest
<1> DEFINE n == NextSeq(req[r].seq, s)
           f == IF req[r].attempt = 0 THEN n ELSE req[r].first
           q == [req[r] EXCEPT !.pc = "insert", !.seq = n, !.first = f]
<1>4. n \in Nat
  BY <1>2, LatestSeqsType DEF NextSeq, Request
<1>5. f \in Nat
  BY <1>2, <1>4 DEF Request
<1>6. req' = [req EXCEPT ![r] = q]
  BY <1>3
<1> HIDE DEF n, f
<1>7. "insert" \in PCs
  BY DEF PCs, SendPCs
<1>8. q \in Request
  BY <1>2, <1>4, <1>5, <1>7 DEF Request
<1>9. AddressedAs(r, q)
  BY <1>1, <1>2 DEF Addressed, AddressedAs, Request
<1> QED BY <1>1, <1>6, <1>8, <1>9, ReadStepTypes DEF RequestStep, FindLatest

LEMMA CandidateType ==
  ASSUME TypeInv, NEW r \in MsgIds, UnderWay(r)
  PROVE  Candidate(r) \in Message
<1>1. /\ req[r] \in Request
      /\ req[r].body \in Bodies
  BY DEF TypeInv, TypeOK, Addressed, Reqs
<1>2. RequestHash(r) \in Hashes
  BY <1>1 DEF RequestHash, Hashes, Kind, Request
<1>3. Kind(r) \in {"user", "ai"}
  BY DEF Kind
<1> QED BY <1>1, <1>2, <1>3 DEF Candidate, Message, Request

LEMMA InsertType ==
  ASSUME TypeInv, NEW r \in MsgIds, Insert(r)
  PROVE  TypeInv'
<1>1. r \in Reqs /\ UnderWay(r)
  BY DEF Reqs, Insert, UnderWay, At
<1>2. req[r] \in Request /\ Addressed(r) /\ req[r].ch \in Channels
  BY <1>1 DEF TypeInv, TypeOK, Addressed
<1>3. "relookup" \in PCs /\ "summary" \in PCs
  BY DEF PCs, SendPCs
<1>4. CASE Goto(r, "relookup") /\ UNCHANGED messages
  BY <1>1, <1>3, <1>4, GotoStep, ReadStepTypes DEF Insert, docs
<1>5. CASE /\ messages' = [messages EXCEPT ![r] = Candidate(r)]
           /\ req' = [req EXCEPT ![r].pc = "summary", ![r].doc = Candidate(r)]
  <2> DEFINE d == Candidate(r)
             q == [req[r] EXCEPT !.pc = "summary", !.doc = d]
  <2>1. d \in Message /\ d.ch = req[r].ch
    BY <1>1, CandidateType DEF Candidate
  <2>2. req' = [req EXCEPT ![r] = q]
    BY <1>5
  <2>3. MessagesTyped'
    <3>1. messages' = [messages EXCEPT ![r] = d]
      BY <1>5
    <3> HIDE DEF d
    <3> QED BY <1>2, <2>1, <3>1 DEF MessagesTyped, TypeInv, TypeOK, Stored
  <2> HIDE DEF d
  <2>4. q \in Request
    BY <1>2, <1>3, <2>1 DEF Request
  <2>5. AddressedAs(r, q)
    BY <1>1, <1>2 DEF Addressed, AddressedAs, Request
  <2>6. DocsTyped'
    BY <2>3, TypedDocs DEF DocsTyped, Insert
  <2> QED BY <1>1, <2>2, <2>4, <2>5, <2>6, RequestStepTypes DEF RequestStep
<1> QED BY <1>4, <1>5 DEF Insert

LEMMA RelookupType ==
  ASSUME TypeInv, NEW r \in MsgIds, Relookup(r)
  PROVE  TypeInv'
<1>1. r \in Reqs /\ UnderWay(r) /\ UNCHANGED docs
  BY DEF Reqs, Relookup, UnderWay, At
<1>2. req[r] \in Request /\ Addressed(r)
  BY <1>1 DEF TypeInv, TypeOK
<1>3. CASE \E m \in SameKey(r) : AnswerExisting(r, m)
  BY <1>1, <1>3, AnswerExistingStep, ReadStepTypes DEF SameKey, InChannel, Stored
<1>4. CASE req' = [req EXCEPT
             ![r].attempt = @ + 1,
             ![r].pc = IF req[r].attempt + 1 < MaxAttempts THEN "channel" ELSE "done",
             ![r].status = IF req[r].attempt + 1 < MaxAttempts THEN @ ELSE "exhausted"]
  <2> DEFINE a == req[r].attempt + 1
             p == IF a < MaxAttempts THEN "channel" ELSE "done"
             t == IF a < MaxAttempts THEN req[r].status ELSE "exhausted"
             q == [req[r] EXCEPT !.attempt = a, !.pc = p, !.status = t]
  <2>1. a \in Nat /\ p \in PCs /\ t \in Statuses
    BY <1>2 DEF Request, PCs, SendPCs, Statuses
  <2>2. req' = [req EXCEPT ![r] = q]
    BY <1>4
  <2> HIDE DEF a, p, t
  <2>3. q \in Request
    BY <1>2, <2>1 DEF Request
  <2>4. AddressedAs(r, q)
    BY <1>1, <1>2 DEF Addressed, AddressedAs, Request
  <2> QED BY <1>1, <2>2, <2>3, <2>4, ReadStepTypes DEF RequestStep
<1> QED BY <1>3, <1>4 DEF Relookup

\* The fields of the summary after a message.
LEMMA SummarizedFields ==
  ASSUME NEW ch \in Channel, NEW r \in MsgIds, req[r].seq \in Nat
  PROVE  LET new == Summarized(ch, r) IN
         /\ new \in Channel
         /\ new.active = ch.active
         /\ new.version = ch.version + 1
         /\ ch.lastSeq < req[r].seq  => new.lastSeq = req[r].seq /\ new.lastMsg = r
         /\ ~(ch.lastSeq < req[r].seq) => /\ new.lastSeq = ch.lastSeq
                                         /\ new.lastMsg = ch.lastMsg
<1> DEFINE newer == ch.lastSeq < req[r].seq
           s == IF newer THEN req[r].seq ELSE ch.lastSeq
           m == IF newer THEN r ELSE ch.lastMsg
           v == ch.version + 1
<1>1. s \in Nat /\ m \in MsgIds \cup {None} /\ v \in Nat
  BY DEF Channel
<1>2. Summarized(ch, r) = [ch EXCEPT !.lastSeq = s, !.lastMsg = m, !.version = v]
  BY DEF Summarized
<1>3. [ch EXCEPT !.lastSeq = s, !.lastMsg = m, !.version = v] \in Channel
  <2> HIDE DEF s, m, v
  <2> QED BY <1>1 DEF Channel
<1>4. /\ Summarized(ch, r).active = ch.active /\ Summarized(ch, r).version = v
      /\ Summarized(ch, r).lastSeq = s /\ Summarized(ch, r).lastMsg = m
  <2> HIDE DEF s, m, v
  <2> QED BY <1>1, <1>2 DEF Channel
<1> QED BY <1>2, <1>3, <1>4

LEMMA SummaryType ==
  ASSUME TypeInv, NEW r \in MsgIds, Summary(r)
  PROVE  TypeInv'
<1>1. r \in Reqs /\ UnderWay(r)
  BY DEF Reqs, Summary, UnderWay, At
<1>2. req[r] \in Request /\ Addressed(r) /\ req[r].ch \in Channels
  BY <1>1 DEF TypeInv, TypeOK, Addressed
<1>3. CASE Goto(r, "undo") /\ UNCHANGED channels
  BY <1>1, <1>3, GotoStep, ReadStepTypes DEF Summary, docs, PCs, SendPCs
<1>4. CASE TakeVersion(r, Summarized(channels[req[r].ch], r))
  <2> DEFINE ch == Summarized(channels[req[r].ch], r)
  <2>1. channels[req[r].ch] \in Channel
    BY <1>2 DEF TypeInv, TypeOK
  <2>2. ch \in Channel
    BY <1>2, <2>1, SummarizedFields DEF Request
  <2>3. TakeVersion(r, ch)
    BY <1>4
  <2> HIDE DEF ch
  <2>4. channels' \in [Channels -> Channel] /\ RequestStep(r)
    BY <1>1, <2>2, <2>3, TakeVersionStep
  <2>5. DocsTyped'
    BY <2>4, TypedDocs DEF DocsTyped, MessagesTyped, Summary, Stored
  <2> QED BY <1>1, <2>4, <2>5, RequestStepTypes
<1> QED BY <1>3, <1>4 DEF Summary

LEMMA UndoType ==
  ASSUME TypeInv, NEW r \in MsgIds, Undo(r)
  PROVE  TypeInv'
<1>1. r \in Reqs /\ "not_found" \in Statuses
  BY DEF Reqs, Statuses
<1>2. RequestStep(r)
  BY <1>1, AnswerStep DEF Undo
<1>3. MessagesTyped'
  <2>1. \A m \in MsgIds : messages'[m] \in {messages[m], NoDoc}
    BY DEF Undo, TypeInv, TypeOK
  <2>2. messages' \in [MsgIds -> Message]
    BY NoDocType DEF Undo, TypeInv, TypeOK
  <2> QED BY <2>1, <2>2 DEF MessagesTyped, TypeInv, Stored, NoDoc
<1>4. DocsTyped'
  BY <1>3, TypedDocs DEF DocsTyped, Undo
<1> QED BY <1>1, <1>2, <1>4, RequestStepTypes

\* The payload of an event is a copy of the request's document.
LEMMA MessagePayloadType ==
  ASSUME TypeInv, NEW r \in MsgIds \cup ReviseReqs, UnderWay(r),
         NEW t \in {"created", "updated", "recalled"}, NEW m \in MsgIds
  PROVE  MessagePayload(r, t, m) \in MessageEvent
<1>1. req[r] \in Request /\ req[r].ch \in Channels
  BY DEF TypeInv, TypeOK, Addressed, Reqs
<1>2. req[r].doc \in Message /\ req[r].version \in Nat
  BY <1>1 DEF Request
<1> QED BY <1>1, <1>2 DEF MessagePayload, MessageEvent, Message

LEMMA CreatedEventType ==
  ASSUME TypeInv, NEW r \in MsgIds, CreatedEvent(r)
  PROVE  TypeInv'
<1>1. r \in Reqs /\ UnderWay(r)
  BY DEF Reqs, CreatedEvent, UnderWay, At
<1> DEFINE q == [req[r] EXCEPT !.pc = "done", !.status = "created", !.msg = r]
<1>2. /\ req[r] \in Request /\ "done" \in PCs /\ "created" \in Statuses
  BY <1>1 DEF TypeInv, TypeOK, PCs, Statuses
<1>3. q \in Request
  BY <1>2 DEF Request
<1>4. AddressedAs(r, q)
  BY <1>2 DEF AddressedAs, Request
<1>5. req' = [req EXCEPT ![r] = q]
  BY DEF CreatedEvent
<1>6. DocsTyped'
  BY <1>1, TypedDocs, MessagePayloadType
  DEF DocsTyped, MessagesTyped, CreatedEvent, Stored
<1> QED BY <1>1, <1>3, <1>4, <1>5, <1>6, RequestStepTypes DEF RequestStep

LEMMA SendType ==
  ASSUME TypeInv, NEW r \in MsgIds, Send(r)
  PROVE  TypeInv'
  BY CreateGetType, AIReplyGetType, SendReadsType, FindLatestType, InsertType,
     RelookupType, SummaryType, UndoType, CreatedEventType DEF Send
-----------------------------------------------------------------------------
(* Editing and recalling *)

LEMMA ReviseGetType ==
  ASSUME TypeInv, NEW r \in ReviseReqs, ReviseGet(r)
  PROVE  TypeInv'
<1>1. PICK u \in Users, m \in Stored :
        req' = [req EXCEPT ![r].pc = "authorize", ![r].actor = u,
                           ![r].ch = messages[m].ch, ![r].msg = m,
                           ![r].doc = messages[m]]
  BY DEF ReviseGet
<1>2. /\ r \in Reqs /\ r \notin MsgIds /\ m \in MsgIds
      /\ messages[m] \in Message /\ messages[m].ch \in Channels
      /\ req[r] \in Request
  BY RequestsAssumption DEF Reqs, Stored, TypeInv, TypeOK
<1> DEFINE d == messages[m]
           c == messages[m].ch
           q == [req[r] EXCEPT !.pc = "authorize", !.actor = u, !.ch = c,
                               !.msg = m, !.doc = d]
<1>3. req' = [req EXCEPT ![r] = q]
  BY <1>1
<1>4. "authorize" \in PCs
  BY DEF PCs, RevisePCs
<1>5. d \in Message /\ c \in Channels
  BY <1>2
<1> HIDE DEF d, c
<1>6. q \in Request
  BY <1>2, <1>4, <1>5 DEF Request
<1>7. AddressedAs(r, q)
  BY <1>2, <1>5 DEF AddressedAs, Request
<1> QED BY <1>2, <1>3, <1>6, <1>7, ReadStepTypes DEF RequestStep, ReviseGet

LEMMA AuthorizeType ==
  ASSUME TypeInv, NEW r \in ReviseReqs, ReviseRefused(r) \/ Authorize(r)
  PROVE  TypeInv'
<1>1. r \in Reqs /\ UNCHANGED docs /\ "cas" \in PCs
  BY DEF Reqs, ReviseRefused, Authorize, PCs, RevisePCs
<1>2. {"invalid", "not_found", "forbidden", "conflict", "unchanged"} \subseteq Statuses
  BY DEF Statuses
<1>3. RequestStep(r)
  <2>1. CASE ReviseRefused(r)
    BY <1>1, <1>2, <2>1, AnswerStep DEF ReviseRefused
  <2>2. CASE Authorize(r)
    BY <1>1, <1>2, <2>2, AnswerStep, GotoStep DEF Authorize, UnderWay, At
  <2> QED BY <2>1, <2>2
<1> QED BY <1>1, <1>3, ReadStepTypes

\* A revision changes what a message says, never where it is.
LEMMA RevisedFields ==
  ASSUME NEW r \in ReviseReqs, NEW d \in Message
  PROVE  LET new == Revised(r, d) IN
         /\ new \in Message
         /\ new.ch = d.ch /\ new.seq = d.seq /\ new.sender = d.sender
         /\ new.rev = d.rev + 1
<1> DEFINE t == IF r \in EditReqs THEN r ELSE Blank
           n == d.rev + 1
           g == r \in RecallReqs
<1>1. t \in Bodies \cup EditReqs \cup {Blank} /\ n \in Nat /\ g \in BOOLEAN
  BY DEF Message
<1>2. Revised(r, d) = [d EXCEPT !.content = t, !.rev = n, !.recalled = g]
  BY DEF Revised
<1> HIDE DEF t, n, g
<1>3. [d EXCEPT !.content = t, !.rev = n, !.recalled = g] \in Message
  BY <1>1 DEF Message
<1>4. /\ Revised(r, d).ch = d.ch /\ Revised(r, d).seq = d.seq
      /\ Revised(r, d).sender = d.sender /\ Revised(r, d).rev = n
  BY <1>1, <1>2 DEF Message
<1> QED BY <1>2, <1>3, <1>4 DEF n

LEMMA CompareAndSetType ==
  ASSUME TypeInv, NEW r \in ReviseReqs, CompareAndSet(r)
  PROVE  TypeInv'
<1>1. /\ r \in Reqs /\ UnderWay(r) /\ "bump" \in PCs /\ "conflict" \in Statuses
  BY DEF Reqs, CompareAndSet, UnderWay, At, PCs, RevisePCs, Statuses
<1>2. req[r] \in Request /\ Addressed(r) /\ req[r].msg \in MsgIds
  BY <1>1 DEF TypeInv, TypeOK, Addressed
<1>3. CASE Answer(r, "conflict") /\ UNCHANGED messages
  BY <1>1, <1>3, AnswerStep, ReadStepTypes DEF CompareAndSet, docs
<1>4. CASE /\ Unchanged(r)
           /\ messages' = [messages EXCEPT ![req[r].msg] = Revised(r, messages[req[r].msg])]
           /\ req' = [req EXCEPT ![r].pc = "bump",
                                 ![r].doc = Revised(r, messages[req[r].msg])]
  <2> DEFINE m == req[r].msg
             d == Revised(r, messages[m])
             q == [req[r] EXCEPT !.pc = "bump", !.doc = d]
  <2>1. d \in Message /\ d.ch = messages[m].ch /\ d.seq = messages[m].seq
    BY <1>2, RevisedFields DEF TypeInv, TypeOK
  <2>2. req' = [req EXCEPT ![r] = q]
    BY <1>4
  <2>3. messages' = [messages EXCEPT ![m] = d]
    BY <1>4
  <2> HIDE DEF d
  <2>4. MessagesTyped'
    BY <1>2, <2>1, <2>3 DEF MessagesTyped, TypeInv, TypeOK, Stored
  <2>5. q \in Request
    BY <1>1, <1>2, <2>1 DEF Request
  <2>6. AddressedAs(r, q)
    BY <1>1, <1>2 DEF Addressed, AddressedAs, Request
  <2>7. DocsTyped'
    BY <2>4, TypedDocs DEF DocsTyped, CompareAndSet
  <2> QED BY <1>1, <2>2, <2>5, <2>6, <2>7, RequestStepTypes DEF RequestStep
<1> QED BY <1>3, <1>4 DEF CompareAndSet

LEMMA BumpedType ==
  ASSUME NEW ch \in Channel
  PROVE  /\ [ch EXCEPT !.version = @ + 1] \in Channel
         /\ [ch EXCEPT !.version = @ + 1].version = ch.version + 1
  BY DEF Channel

LEMMA BumpType ==
  ASSUME TypeInv, NEW r \in Reqs, UnderWay(r), UNCHANGED <<messages, states, outbox>>,
         TakeVersion(r, [channels[req[r].ch] EXCEPT !.version = @ + 1])
  PROVE  TypeInv'
<1>1. channels[req[r].ch] \in Channel
  BY DEF TypeInv, TypeOK, Addressed
<1>2. channels' \in [Channels -> Channel] /\ RequestStep(r)
  BY <1>1, BumpedType, TakeVersionStep
<1>3. DocsTyped'
  BY <1>2, TypedDocs DEF DocsTyped, MessagesTyped, Stored
<1> QED BY <1>2, <1>3, RequestStepTypes

LEMMA ReviseBumpType ==
  ASSUME TypeInv, NEW r \in ReviseReqs, ReviseBump(r)
  PROVE  TypeInv'
<1>1. r \in Reqs /\ UnderWay(r) /\ "not_found" \in Statuses
  BY DEF Reqs, ReviseBump, UnderWay, At, Statuses
<1>2. CASE Answer(r, "not_found") /\ UNCHANGED channels
  BY <1>1, <1>2, AnswerStep, ReadStepTypes DEF ReviseBump, docs
<1>3. CASE TakeVersion(r, [channels[req[r].ch] EXCEPT !.version = @ + 1])
  BY <1>1, <1>3, BumpType DEF ReviseBump
<1> QED BY <1>2, <1>3 DEF ReviseBump

LEMMA RevisedEventType ==
  ASSUME TypeInv, NEW r \in ReviseReqs, RevisedEvent(r)
  PROVE  TypeInv'
<1>1. r \in Reqs /\ UnderWay(r) /\ "revised" \in Statuses
  BY DEF Reqs, RevisedEvent, UnderWay, At, Statuses
<1>2. req[r].msg \in MsgIds
  BY <1>1 DEF TypeInv, Addressed
<1>3. RequestStep(r)
  BY <1>1, AnswerStep DEF RevisedEvent
<1>4. DocsTyped'
  BY <1>1, <1>2, TypedDocs, MessagePayloadType
  DEF DocsTyped, MessagesTyped, RevisedEvent, Stored
<1> QED BY <1>1, <1>3, <1>4, RequestStepTypes

LEMMA ReviseType ==
  ASSUME TypeInv, NEW r \in ReviseReqs, Revise(r)
  PROVE  TypeInv'
  BY ReviseGetType, AuthorizeType, CompareAndSetType, ReviseBumpType,
     RevisedEventType DEF Revise
-----------------------------------------------------------------------------
(* Reading *)

LEMMA ReadGetType ==
  ASSUME TypeInv, NEW r \in ReadReqs, ReadGet(r)
  PROVE  TypeInv'
<1>1. PICK u \in Users, c \in Channels, s \in ReadSeqs :
        Arrive(r, [req[r] EXCEPT !.actor = u, !.ch = c, !.seq = s],
               CASE ~CanAccess(u, c) -> "not_found"
                 [] ~Covered(c, s)   -> "invalid"
                 [] OTHER            -> "pending",
               "update")
  BY DEF ReadGet
<1>2. r \in Reqs /\ r \notin ReviseReqs /\ r \notin MsgIds /\ s \in Nat
  BY RequestsAssumption, ReadSeqsAssumption DEF Reqs
<1> DEFINE in == [req[r] EXCEPT !.actor = u, !.ch = c, !.seq = s]
           v  == CASE ~CanAccess(u, c) -> "not_found"
                   [] ~Covered(c, s)   -> "invalid"
                   [] OTHER            -> "pending"
<1>3. in \in Request /\ in.actor = u /\ in.ch = c
  <2>1. req[r] \in Request
    BY <1>2 DEF TypeInv, TypeOK
  <2> HIDE DEF v
  <2> QED BY <1>2, <2>1 DEF Request
<1>4. v \in Statuses
  BY DEF Statuses
<1>5. "update" \in PCs
  BY DEF PCs, ReadPCs
<1>6. Arrive(r, in, v, "update")
  BY <1>1
<1> HIDE DEF in, v
<1>7. RequestStep(r)
  BY <1>2, <1>3, <1>4, <1>5, <1>6, ArriveStep
<1> QED BY <1>2, <1>7, ReadStepTypes DEF ReadGet

LEMMA SetCursorType ==
  ASSUME states \in [Channels -> [Users -> Nat]], NEW r \in Reqs,
         req[r].ch \in Channels, req[r].actor \in Users, req[r].seq \in Nat,
         SetCursor(r)
  PROVE  /\ states' \in [Channels -> [Users -> Nat]]
         /\ \A c \in Channels : \A u \in Users :
              states'[c][u] = IF c = req[r].ch /\ u = req[r].actor
                              THEN req[r].seq ELSE states[c][u]
<1> DEFINE row == [states[req[r].ch] EXCEPT ![req[r].actor] = req[r].seq]
<1>1. row \in [Users -> Nat]
  OBVIOUS
<1>2. states' = [states EXCEPT ![req[r].ch] = row]
  BY DEF SetCursor
<1>3. \A u \in Users :
        row[u] = IF u = req[r].actor THEN req[r].seq ELSE states[req[r].ch][u]
  OBVIOUS
<1> HIDE DEF row
<1> QED BY <1>1, <1>2, <1>3

LEMMA CursorStepType ==
  ASSUME TypeInv, NEW r \in ReadReqs, UpdateCursor(r) \/ UpsertCursor(r)
  PROVE  TypeInv'
<1>1. /\ r \in Reqs /\ UnderWay(r) /\ {"fetch", "peek", "upsert"} \subseteq PCs
  BY DEF Reqs, UpdateCursor, UpsertCursor, UnderWay, At, PCs, ReadPCs
<1>2. /\ req[r].ch \in Channels /\ req[r].actor \in Users /\ req[r].seq \in Nat
  BY <1>1 DEF TypeInv, TypeOK, Addressed, Request
<1>3. RequestStep(r)
  BY <1>1, GotoStep DEF UpdateCursor, UpsertCursor
<1>4. states' \in [Channels -> [Users -> Nat]]
  BY <1>1, <1>2, SetCursorType DEF UpdateCursor, UpsertCursor, TypeInv, TypeOK
<1>5. DocsTyped'
  BY <1>4, TypedDocs DEF DocsTyped, MessagesTyped, UpdateCursor, UpsertCursor, Stored
<1> QED BY <1>1, <1>3, <1>5, RequestStepTypes

LEMMA FetchCursorType ==
  ASSUME TypeInv, NEW r \in ReadReqs, FetchCursor(r)
  PROVE  TypeInv'
<1> DEFINE s == Cursor(r)
           q == [req[r] EXCEPT !.pc = "bump", !.read = s]
<1>1. /\ r \in Reqs /\ UnderWay(r) /\ "bump" \in PCs
  BY DEF Reqs, FetchCursor, UnderWay, At, PCs, ReadPCs
<1>2. /\ s \in Nat /\ req[r] \in Request /\ Addressed(r)
  BY <1>1 DEF Cursor, TypeInv, TypeOK, Addressed
<1>3. req' = [req EXCEPT ![r] = q]
  BY DEF FetchCursor
<1> HIDE DEF s
<1>4. q \in Request
  BY <1>1, <1>2 DEF Request
<1>5. AddressedAs(r, q)
  BY <1>1, <1>2 DEF Addressed, AddressedAs, Request
<1> QED BY <1>1, <1>3, <1>4, <1>5, ReadStepTypes DEF RequestStep, FetchCursor

LEMMA PeekCursorType ==
  ASSUME TypeInv, NEW r \in ReadReqs, PeekCursor(r)
  PROVE  TypeInv'
<1> DEFINE s == Cursor(r)
           q == [req[r] EXCEPT !.pc = "done", !.status = "unchanged", !.read = s]
<1>1. r \in Reqs /\ UnderWay(r) /\ "done" \in PCs /\ "unchanged" \in Statuses
  BY DEF Reqs, PeekCursor, UnderWay, At, PCs, Statuses
<1>2. s \in Nat /\ req[r] \in Request
  BY <1>1 DEF Cursor, TypeInv, TypeOK, Addressed
<1>3. req' = [req EXCEPT ![r] = q]
  BY DEF PeekCursor
<1> HIDE DEF s
<1>4. q \in Request
  BY <1>1, <1>2 DEF Request
<1>5. AddressedAs(r, q)
  BY <1>2 DEF AddressedAs, Request
<1> QED BY <1>1, <1>3, <1>4, <1>5, ReadStepTypes DEF RequestStep, PeekCursor

LEMMA ReadBumpType ==
  ASSUME TypeInv, NEW r \in ReadReqs, ReadBump(r)
  PROVE  TypeInv'
<1>1. r \in Reqs /\ UnderWay(r) /\ "not_found" \in Statuses
  BY DEF Reqs, ReadBump, UnderWay, At, Statuses
<1>2. CASE Answer(r, "not_found") /\ UNCHANGED channels
  BY <1>1, <1>2, AnswerStep, ReadStepTypes DEF ReadBump, docs
<1>3. CASE TakeVersion(r, [channels[req[r].ch] EXCEPT !.version = @ + 1])
  BY <1>1, <1>3, BumpType DEF ReadBump
<1> QED BY <1>2, <1>3 DEF ReadBump

LEMMA AdvancedEventType ==
  ASSUME TypeInv, NEW r \in ReadReqs, AdvancedEvent(r)
  PROVE  TypeInv'
<1>1. r \in Reqs /\ UnderWay(r) /\ "advanced" \in Statuses
  BY DEF Reqs, AdvancedEvent, UnderWay, At, Statuses
<1>2. req[r] \in Request /\ req[r].ch \in Channels /\ req[r].actor \in Users
  BY <1>1 DEF TypeInv, TypeOK, Addressed
<1>3. RequestStep(r)
  BY <1>1, AnswerStep DEF AdvancedEvent
<1>4. outbox' \subseteq MessageEvent \cup CursorEvent
  BY <1>2 DEF AdvancedEvent, CursorEvent, TypeInv, TypeOK, Request
<1>5. DocsTyped'
  BY <1>4, TypedDocs DEF DocsTyped, MessagesTyped, AdvancedEvent, Stored
<1> QED BY <1>1, <1>3, <1>5, RequestStepTypes

LEMMA ReadType ==
  ASSUME TypeInv, NEW r \in ReadReqs, Read(r)
  PROVE  TypeInv'
  BY ReadGetType, CursorStepType, FetchCursorType, PeekCursorType, ReadBumpType,
     AdvancedEventType DEF Read
-----------------------------------------------------------------------------
LEMMA AbortType ==
  ASSUME TypeInv, NEW r \in Reqs, Abort(r)
  PROVE  TypeInv'
<1>1. RequestStep(r)
  BY AnswerStep DEF Abort, Statuses
<1> QED BY <1>1, ReadStepTypes DEF Abort

LEMMA DeactivateType ==
  ASSUME TypeInv, NEW c \in Channels, Deactivate(c)
  PROVE  TypeInv'
<1>1. [channels[c] EXCEPT !.active = FALSE] \in Channel
  BY DEF TypeInv, TypeOK, Channel
<1>2. channels' \in [Channels -> Channel]
  BY <1>1 DEF Deactivate, TypeInv, TypeOK
<1> QED BY <1>2 DEF Deactivate, TypeInv, TypeOK, Addressed, UnderWay, Stored

\* Every step keeps the type invariant.
LEMMA StepTypeInv == TypeInv /\ [Next]_vars => TypeInv'
<1> SUFFICES ASSUME TypeInv, [Next]_vars PROVE TypeInv' OBVIOUS
<1>1. CASE UNCHANGED vars
  BY <1>1 DEF vars, TypeInv, TypeOK, Addressed, UnderWay, Stored
<1>2. CASE Next
  BY <1>2, SendType, ReviseType, ReadType, AbortType, DeactivateType DEF Next
<1> QED BY <1>1, <1>2

\* Type correctness: whatever the requests do and wherever they end, the
\* documents and the requests have the types of the repository's structs.
THEOREM TypeCorrect == Spec => []TypeOK
<1>1. TypeInv => TypeOK
  BY DEF TypeInv
<1> QED BY <1>1, InitTypeInv, StepTypeInv, PTL DEF Spec
-----------------------------------------------------------------------------
(* Safety *)

SameHistory ==
  /\ \A m \in MsgIds : /\ messages'[m].seq = messages[m].seq
                       /\ messages'[m].ch = messages[m].ch
  /\ \A c \in Channels : /\ channels'[c].active = channels[c].active
                         /\ channels'[c].lastSeq = channels[c].lastSeq
                         /\ channels'[c].lastMsg = channels[c].lastMsg
  /\ states' = states

OthersSame(r) == \A s \in Reqs : s # r => req'[s] = req[s]
-----------------------------------------------------------------------------
(* What a step does to the request that takes it *)

LEMMA GotoFields ==
  ASSUME TypeInv, NEW r \in Reqs, NEW p, Goto(r, p)
  PROVE  /\ req'[r].pc = p /\ req'[r].status = req[r].status
         /\ req'[r].actor = req[r].actor /\ req'[r].ch = req[r].ch
         /\ req'[r].seq = req[r].seq /\ req'[r].version = req[r].version
         /\ OthersSame(r)
<1>1. req \in [Reqs -> Request]
  BY DEF TypeInv, TypeOK
<1> QED BY <1>1 DEF Goto, OthersSame, Request

LEMMA AnswerFields ==
  ASSUME TypeInv, NEW r \in Reqs, NEW t, Answer(r, t)
  PROVE  /\ req'[r].pc = "done" /\ req'[r].status = t
         /\ req'[r].actor = req[r].actor /\ req'[r].ch = req[r].ch
         /\ req'[r].seq = req[r].seq /\ req'[r].version = req[r].version
         /\ OthersSame(r)
<1>1. req \in [Reqs -> Request]
  BY DEF TypeInv, TypeOK
<1> QED BY <1>1 DEF Answer, OthersSame, Request

LEMMA ArriveFields ==
  ASSUME TypeInv, NEW r \in Reqs, NEW in \in Request, NEW v, NEW p, Arrive(r, in, v, p)
  PROVE  /\ req'[r].pc = IF v = "pending" THEN p ELSE "done"
         /\ req'[r].status = v
         /\ req'[r].actor = in.actor /\ req'[r].ch = in.ch
         /\ req'[r].seq = in.seq /\ req'[r].version = in.version
         /\ req'[r].key = in.key /\ OthersSame(r)
<1>1. req \in [Reqs -> Request]
  BY DEF TypeInv, TypeOK
<1> DEFINE pc == IF v = "pending" THEN p ELSE "done"
           q  == [in EXCEPT !.pc = pc, !.status = v]
<1>2. req' = [req EXCEPT ![r] = q]
  BY DEF Arrive
<1>3. req'[r] = q /\ OthersSame(r)
  BY <1>1, <1>2 DEF OthersSame
<1>4. /\ q.pc = pc /\ q.status = v /\ q.actor = in.actor /\ q.ch = in.ch
      /\ q.seq = in.seq /\ q.version = in.version /\ q.key = in.key
  <2> HIDE DEF pc
  <2> QED BY DEF Request
<1> QED BY <1>3, <1>4

LEMMA TakeVersionFields ==
  ASSUME TypeInv, NEW r \in Reqs, NEW ch, TakeVersion(r, ch)
  PROVE  /\ req'[r].pc = "event" /\ req'[r].status = req[r].status
         /\ req'[r].actor = req[r].actor /\ req'[r].ch = req[r].ch
         /\ req'[r].seq = req[r].seq /\ req'[r].version = ch.version
         /\ OthersSame(r)
         /\ channels' = [channels EXCEPT ![req[r].ch] = ch]
<1>1. req \in [Reqs -> Request]
  BY DEF TypeInv, TypeOK
<1> QED BY <1>1 DEF TakeVersion, OthersSame, Request
-----------------------------------------------------------------------------
(* Steps that leave the history as it is *)

LEMMA SameStored ==
  ASSUME SameHistory
  PROVE  /\ Stored' = Stored
         /\ \A c : InChannel(c)' = InChannel(c)
         /\ \A c, k : SeqStored(c, k)' <=> SeqStored(c, k)
<1>1. Stored' = Stored
  BY DEF Stored, SameHistory
<1>2. \A c : InChannel(c)' = InChannel(c)
  BY <1>1 DEF InChannel, SameHistory, Stored
<1>3. \A c, k : SeqStored(c, k)' <=> SeqStored(c, k)
  BY <1>2 DEF SeqStored, SameHistory, InChannel, Stored
<1> QED BY <1>1, <1>2, <1>3

LEMMA ReqInvKept ==
  ASSUME HistoryInv, SameHistory, NEW s \in Reqs, req'[s] = req[s]
  PROVE  /\ s \in MsgIds => SendReqInv(s)'
         /\ s \in ReadReqs => ReadReqInv(s)'
<1>1. UnderWay(s) => req[s].ch \in Channels
  BY DEF HistoryInv, TypeInv, Addressed
<1>2. ASSUME s \in MsgIds PROVE SendReqInv(s)'
  <2>1. SendReqInv(s)
    BY <1>2 DEF HistoryInv
  <2> QED BY <1>1, <1>2, <2>1, SameStored
      DEF SendReqInv, Admitted, Owned, Unknown, Chosen, Withdrawn, UnderWay, SameHistory
<1>3. ASSUME s \in ReadReqs PROVE ReadReqInv(s)'
  <2>1. ReadReqInv(s)
    BY <1>3 DEF HistoryInv
  <2> QED BY <1>1, <2>1 DEF ReadReqInv, Admitted, UnderWay, SameHistory
<1> QED BY <1>2, <1>3

LEMMA SameHistoryStep ==
  ASSUME HistoryInv, TypeInv', SameHistory, NEW r \in Reqs, OthersSame(r),
         r \in MsgIds => SendReqInv(r)', r \in ReadReqs => ReadReqInv(r)'
  PROVE  HistoryInv'
<1>1. (\A s \in MsgIds : SendReqInv(s)') /\ (\A s \in ReadReqs : ReadReqInv(s)')
  BY ReqInvKept DEF OthersSame, Reqs
<1>2. CursorInv' /\ SequencesDistinct' /\ SummaryPointsAtStored'
  BY SameStored
  DEF HistoryInv, CursorInv, SequencesDistinct, SummaryPointsAtStored, SameHistory,
      InChannel, Stored
<1>3. NoGaps'
  BY SameStored DEF HistoryInv, NoGaps, SameHistory, InChannel, Stored
<1> QED BY <1>1, <1>2, <1>3 DEF HistoryInv

LEMMA DocsSame == UNCHANGED <<messages, channels, states>> => SameHistory
  BY DEF SameHistory

\* So does one that only advances the version of a channel.
LEMMA VersionBumped ==
  ASSUME TypeInv, NEW r \in Reqs, UNCHANGED <<messages, states>>,
         \/ UNCHANGED channels
         \/ TakeVersion(r, [channels[req[r].ch] EXCEPT !.version = @ + 1])
  PROVE  SameHistory
<1> DEFINE n  == channels[req[r].ch].version + 1
           ch == [channels[req[r].ch] EXCEPT !.version = n]
<1>1. CASE UNCHANGED channels
  BY <1>1, DocsSame
<1>2. CASE TakeVersion(r, ch)
  <2>1. channels \in [Channels -> Channel]
    BY DEF TypeInv, TypeOK
  <2>2. channels' = [channels EXCEPT ![req[r].ch] = ch]
    BY <1>2 DEF TakeVersion
  <2>3. req[r].ch \in Channels =>
          /\ ch.active = channels[req[r].ch].active
          /\ ch.lastSeq = channels[req[r].ch].lastSeq
          /\ ch.lastMsg = channels[req[r].ch].lastMsg
    <3> HIDE DEF n
    <3> QED BY <2>1 DEF Channel
  <2> HIDE DEF ch
  <2> QED BY <2>1, <2>2, <2>3 DEF SameHistory
<1> QED BY <1>1, <1>2

\* A post that has no message yet, at any of its reads.
LEMMA EarlyStep ==
  ASSUME HistoryInv, TypeInv', UNCHANGED docs, NEW r \in MsgIds, OthersSame(r),
         req[r].pc \notin {"summary", "undo", "event", "done"},
         req'[r].pc \notin {"summary", "undo", "event"},
         Admitted(r)', Chosen(r)'
  PROVE  HistoryInv'
<1>1. SameHistory /\ r \in Reqs /\ r \notin ReadReqs
  BY DocsSame, RequestsAssumption DEF docs, Reqs
<1>2. SendReqInv(r)
  BY DEF HistoryInv
<1>3. Stored' = Stored
  BY <1>1, SameStored
<1>4. SendReqInv(r)'
  BY <1>2, <1>3 DEF SendReqInv, Owned, Unknown, Withdrawn, docs
<1> QED BY <1>1, <1>4, SameHistoryStep

\* A request that is answered, at any of its calls.
LEMMA DoneStep ==
  ASSUME HistoryInv, TypeInv', SameHistory, NEW r \in Reqs, OthersSame(r),
         UnderWay(r) \/ r \notin MsgIds, req'[r].pc = "done",
         req'[r].seq = req[r].seq, req'[r].ch = req[r].ch
  PROVE  HistoryInv'
<1>1. ASSUME r \in MsgIds PROVE SendReqInv(r)'
  <2>1. SendReqInv(r)
    BY <1>1 DEF HistoryInv
  <2> QED BY <1>1, <2>1, SameStored
      DEF SendReqInv, Admitted, Owned, Unknown, Chosen, Withdrawn, UnderWay, SameHistory
<1>2. ASSUME r \in ReadReqs PROVE ReadReqInv(r)'
  BY <1>2 DEF ReadReqInv, Admitted, UnderWay
<1> QED BY <1>1, <1>2, SameHistoryStep

\* A request that goes on with its inputs as they are.
LEMMA AdmittedGoto ==
  ASSUME HistoryInv, NEW r \in MsgIds \cup ReadReqs, NEW p, Goto(r, p), UnderWay(r)
  PROVE  Admitted(r)'
<1>1. Admitted(r) /\ r \in Reqs
  BY DEF HistoryInv, SendReqInv, ReadReqInv, Reqs
<1>2. req'[r].actor = req[r].actor /\ req'[r].ch = req[r].ch
  BY <1>1, GotoFields DEF HistoryInv
<1> QED BY <1>1, <1>2 DEF Admitted, UnderWay
-----------------------------------------------------------------------------
(* Posting: the steps before the insert *)

LEMMA ArriveHistory ==
  ASSUME HistoryInv, TypeInv', UNCHANGED docs, NEW r \in MsgIds, At(r, "idle"),
         NEW in \in Request, NEW v, NEW p \in {"lookup", "reply", "source"},
         Arrive(r, in, v, p), v = "pending" => CanAccess(in.actor, in.ch)
  PROVE  HistoryInv'
<1>1. r \in Reqs /\ TypeInv
  BY DEF Reqs, HistoryInv
<1>2. /\ req'[r].pc \in {"lookup", "reply", "source", "done"}
      /\ req'[r].pc # "done" => v = "pending"
      /\ req'[r].actor = in.actor /\ req'[r].ch = in.ch /\ OthersSame(r)
  BY <1>1, ArriveFields
<1>3. Admitted(r)' /\ Chosen(r)'
  BY <1>2 DEF Admitted, Chosen, UnderWay, CanAccess
<1> QED BY <1>2, <1>3, EarlyStep DEF At

LEMMA CreateGetHistory ==
  ASSUME HistoryInv, TypeInv', NEW r \in CreateReqs, CreateGet(r)
  PROVE  HistoryInv'
<1>1. PICK u \in Users, c \in Channels, k \in Keys, b \in Bodies, t \in ReplyTargets :
        Arrive(r, [req[r] EXCEPT !.actor = u, !.ch = c, !.key = k,
                                 !.body = b, !.reply = t],
               CASE ~CanAccess(u, c) -> "not_found"
                 [] b = Malformed    -> "invalid"
                 [] OTHER            -> "pending",
               IF t = None THEN "lookup" ELSE "reply")
  BY DEF CreateGet
<1>2. r \in MsgIds /\ req[r] \in Request /\ t \in MsgIds \cup {None}
  BY DEF HistoryInv, TypeInv, TypeOK, Reqs, MsgIds, ReplyTargets, Stored
<1> DEFINE in == [req[r] EXCEPT !.actor = u, !.ch = c, !.key = k,
                                !.body = b, !.reply = t]
           v  == CASE ~CanAccess(u, c) -> "not_found"
                   [] b = Malformed    -> "invalid"
                   [] OTHER            -> "pending"
           p  == IF t = None THEN "lookup" ELSE "reply"
<1>3. in \in Request /\ in.actor = u /\ in.ch = c
  BY <1>2 DEF Request
<1>4. v = "pending" => CanAccess(u, c)
  OBVIOUS
<1>5. p \in {"lookup", "reply", "source"}
  OBVIOUS
<1>6. Arrive(r, in, v, p)
  BY <1>1
<1> HIDE DEF in, v, p
<1> QED BY <1>2, <1>3, <1>4, <1>5, <1>6, ArriveHistory DEF CreateGet

LEMMA AIReplyGetHistory ==
  ASSUME HistoryInv, TypeInv', NEW r \in AIReqs, AIReplyGet(r)
  PROVE  HistoryInv'
<1>1. PICK u \in Users, c \in Channels, k \in Keys, b \in Bodies, t \in Stored :
        Arrive(r, [req[r] EXCEPT !.actor = u, !.ch = c, !.key = k,
                                 !.body = b, !.reply = t],
               CASE b = Malformed    -> "invalid"
                 [] ~CanAccess(u, c) -> "not_found"
                 [] OTHER            -> "pending",
               "source")
  BY DEF AIReplyGet
<1>2. r \in MsgIds /\ req[r] \in Request /\ t \in MsgIds
  BY DEF HistoryInv, TypeInv, TypeOK, Reqs, MsgIds, Stored
<1> DEFINE in == [req[r] EXCEPT !.actor = u, !.ch = c, !.key = k,
                                !.body = b, !.reply = t]
           v  == CASE b = Malformed    -> "invalid"
                   [] ~CanAccess(u, c) -> "not_found"
                   [] OTHER            -> "pending"
<1>3. in \in Request /\ in.actor = u /\ in.ch = c
  BY <1>2 DEF Request
<1>4. v = "pending" => CanAccess(u, c)
  OBVIOUS
<1>6. Arrive(r, in, v, "source")
  BY <1>1
<1> HIDE DEF in, v
<1> QED BY <1>2, <1>3, <1>4, <1>6, ArriveHistory DEF AIReplyGet

\* The lookups go on to one another or answer.
LEMMA LookupsHistory ==
  ASSUME HistoryInv, TypeInv', NEW r \in MsgIds,
         \/ CheckReply(r) \/ CheckSource(r)
         \/ Lookup(r) /\ SameKey(r) = {} /\ Goto(r, "channel")
  PROVE  HistoryInv'
<1>1. r \in Reqs /\ TypeInv /\ UNCHANGED docs /\ SameHistory
  BY DocsSame DEF Reqs, HistoryInv, CheckReply, CheckSource, Lookup, docs
<1>2. req[r].pc \in {"reply", "source", "lookup"} /\ UnderWay(r)
  BY DEF CheckReply, CheckSource, Lookup, At, UnderWay
<1>3. CASE \E t : Answer(r, t)
  <2>1. PICK t : Answer(r, t)
    BY <1>3
  <2> QED BY <1>1, <1>2, <2>1, AnswerFields, DoneStep
<1>4. CASE \E p \in {"lookup", "channel"} : Goto(r, p)
  <2>1. PICK p \in {"lookup", "channel"} : Goto(r, p)
    BY <1>4
  <2>2. req'[r].pc = p /\ OthersSame(r)
    BY <1>1, <2>1, GotoFields
  <2>3. Admitted(r)' /\ Chosen(r)'
    BY <1>2, <2>1, <2>2, AdmittedGoto DEF Chosen
  <2> QED BY <1>1, <1>2, <2>2, <2>3, EarlyStep
<1> QED BY <1>3, <1>4 DEF CheckReply, CheckSource, Lookup

LEMMA AnswerExistingHistory ==
  ASSUME HistoryInv, TypeInv', UNCHANGED docs, NEW r \in MsgIds, UnderWay(r),
         NEW m, AnswerExisting(r, m)
  PROVE  HistoryInv'
<1>1. r \in Reqs /\ TypeInv /\ SameHistory /\ req \in [Reqs -> Request]
  BY DocsSame DEF Reqs, HistoryInv, TypeInv, TypeOK, docs
<1>2. /\ req'[r].pc = "done" /\ req'[r].seq = req[r].seq /\ req'[r].ch = req[r].ch
      /\ OthersSame(r)
  <2>1. CASE messages[m].hash = RequestHash(r)
    BY <1>1, <2>1 DEF AnswerExisting, OthersSame, Request
  <2>2. CASE messages[m].hash # RequestHash(r)
    BY <1>1, <2>2, AnswerFields DEF AnswerExisting
  <2> QED BY <2>1, <2>2
<1> QED BY <1>1, <1>2, DoneStep

LEMMA FindChannelHistory ==
  ASSUME HistoryInv, TypeInv', NEW r \in MsgIds, FindChannel(r)
  PROVE  HistoryInv'
<1>1. /\ r \in Reqs /\ TypeInv /\ UNCHANGED docs /\ SameHistory /\ UnderWay(r)
      /\ req[r].pc = "channel"
  BY DocsSame DEF Reqs, HistoryInv, FindChannel, docs, UnderWay, At
<1>2. CASE ~CanAccess(req[r].actor, req[r].ch)
  BY <1>1, <1>2, AnswerFields, DoneStep DEF FindChannel
<1>3. CASE CanAccess(req[r].actor, req[r].ch)
  <2>1. req \in [Reqs -> Request]
    BY <1>1 DEF TypeInv, TypeOK
  <2>2. /\ req'[r].pc = "latest" /\ req'[r].seq = channels[req[r].ch].lastSeq
        /\ req'[r].actor = req[r].actor /\ req'[r].ch = req[r].ch /\ OthersSame(r)
    BY <1>1, <1>3, <2>1 DEF FindChannel, OthersSame, Request
  <2>3. channels[req[r].ch].lastSeq \in Nat
    BY <1>1 DEF TypeInv, TypeOK, Addressed, Channel
  <2>4. Admitted(r)' /\ Chosen(r)'
    BY <1>1, <1>3, <2>2, <2>3 DEF Admitted, CanAccess, Chosen, docs
  <2> QED BY <1>1, <2>2, <2>4, EarlyStep
<1> QED BY <1>2, <1>3

\* The newest message is at least as new as the summary, so the sequence that
\* follows leaves no gap behind it.
LEMMA FindLatestHistory ==
  ASSUME HistoryInv, TypeInv', NEW r \in MsgIds, FindLatest(r)
  PROVE  HistoryInv'
<1>1. /\ r \in Reqs /\ TypeInv /\ UNCHANGED docs /\ SameHistory /\ UnderWay(r)
      /\ req[r].pc = "latest"
  BY DocsSame DEF Reqs, HistoryInv, FindLatest, docs, UnderWay, At
<1>0. PICK c \in Channels : c = req[r].ch
  BY <1>1 DEF TypeInv, Addressed
<1>2. /\ req \in [Reqs -> Request] /\ c \in Channels /\ req[r].seq \in Nat
      /\ channels[c] \in Channel /\ messages \in [MsgIds -> Message]
      /\ Admitted(r) /\ req[r].seq <= channels[c].lastSeq
  BY <1>0, <1>1 DEF TypeInv, TypeOK, Addressed, Request, HistoryInv, SendReqInv, Chosen
<1>3. PICK s \in LatestSeqs(c) :
        LET n == NextSeq(req[r].seq, s) IN
          req' = [req EXCEPT ![r].pc = "insert", ![r].seq = n,
                             ![r].first = IF req[r].attempt = 0 THEN n ELSE @]
  BY <1>0 DEF FindLatest
<1> DEFINE n == NextSeq(req[r].seq, s)
<1>4. s \in Nat /\ n \in Nat /\ n > 0
  BY <1>1, <1>2, <1>3, LatestSeqsType DEF NextSeq
<1>5. /\ req'[r].pc = "insert" /\ req'[r].seq = n
      /\ req'[r].actor = req[r].actor /\ req'[r].ch = c /\ OthersSame(r)
  <2> HIDE DEF n
  <2> QED BY <1>0, <1>1, <1>2, <1>3 DEF OthersSame, Request, n
<1>6. \A m \in InChannel(c) : messages[m].seq <= s
  BY <1>2, <1>3 DEF LatestSeqs, InChannel, Stored, Message
<1>7. channels[c].lastSeq <= s
  <2>1. CASE channels[c].lastSeq = 0
    BY <1>4, <2>1
  <2>2. CASE channels[c].lastSeq # 0
    BY <1>2, <1>6, <2>2 DEF HistoryInv, SummaryPointsAtStored
  <2> QED BY <2>1, <2>2
<1>8. n = s + 1
  <2>1. req[r].seq <= s
    BY <1>2, <1>4, <1>7 DEF Channel
  <2> QED BY <1>2, <1>4, <2>1 DEF NextSeq
<1>9. s = 0 \/ \E m \in InChannel(c) : messages[m].seq = s
  BY <1>3 DEF LatestSeqs
<1>10. ASSUME channels[c].active, NEW k \in 1..(n - 1) PROVE SeqStored(c, k)
  <2>1. k \in 1..s /\ s # 0
    BY <1>4, <1>8, <1>10
  <2>2. PICK m \in InChannel(c) : messages[m].seq = s
    BY <1>9, <2>1
  <2>3. k = s \/ k \in 1..(s - 1)
    BY <1>4, <2>1
  <2> QED BY <1>2, <1>10, <2>2, <2>3 DEF HistoryInv, NoGaps, SeqStored
<1>11. Chosen(r)'
  <2> HIDE DEF n
  <2>1. \A k : SeqStored(c, k)' <=> SeqStored(c, k)
    BY <1>1, SameStored
  <2>2. channels'[c].active = channels[c].active
    BY <1>1 DEF docs
  <2> QED BY <1>4, <1>5, <1>10, <2>1, <2>2 DEF Chosen
<1>12. Admitted(r)'
  BY <1>0, <1>1, <1>2, <1>5 DEF Admitted, UnderWay
<1> QED BY <1>1, <1>5, <1>11, <1>12, EarlyStep

LEMMA RelookupHistory ==
  ASSUME HistoryInv, TypeInv', NEW r \in MsgIds, Relookup(r)
  PROVE  HistoryInv'
<1>1. /\ r \in Reqs /\ TypeInv /\ UNCHANGED docs /\ SameHistory /\ UnderWay(r)
      /\ req[r].pc = "relookup" /\ req \in [Reqs -> Request] /\ Admitted(r)
  BY DocsSame
  DEF Reqs, HistoryInv, TypeInv, TypeOK, Relookup, docs, UnderWay, At, SendReqInv
<1>2. CASE \E m \in SameKey(r) : AnswerExisting(r, m)
  BY <1>1, <1>2, AnswerExistingHistory
<1>3. CASE req' = [req EXCEPT
             ![r].attempt = @ + 1,
             ![r].pc = IF req[r].attempt + 1 < MaxAttempts THEN "channel" ELSE "done",
             ![r].status = IF req[r].attempt + 1 < MaxAttempts THEN @ ELSE "exhausted"]
  <2> DEFINE pc     == IF req[r].attempt + 1 < MaxAttempts THEN "channel" ELSE "done"
             status == IF req[r].attempt + 1 < MaxAttempts THEN req[r].status
                                                           ELSE "exhausted"
             n      == req[r].attempt + 1
             q      == [req[r] EXCEPT !.attempt = n, !.pc = pc, !.status = status]
  <2>1. req' = [req EXCEPT ![r] = q]
    BY <1>3
  <2>2. pc \in {"channel", "done"}
    OBVIOUS
  <2>3. /\ q.pc = pc /\ q.actor = req[r].actor /\ q.ch = req[r].ch
        /\ q.seq = req[r].seq
    <3> HIDE DEF pc, status, n
    <3> QED BY <1>1 DEF Request
  <2>4. req'[r] = q /\ OthersSame(r)
    BY <1>1, <2>1 DEF OthersSame
  <2> HIDE DEF pc, q
  <2>5. Admitted(r)' /\ Chosen(r)'
    BY <1>1, <2>2, <2>3, <2>4 DEF Admitted, Chosen, UnderWay
  <2> QED BY <1>1, <2>2, <2>3, <2>4, <2>5, EarlyStep
<1> QED BY <1>2, <1>3 DEF Relookup
-----------------------------------------------------------------------------
(* Posting: the insert *)

\* A new message takes a sequence that nobody had in its channel, next to the
\* ones before it, and leaves the other messages as they are.
LEMMA InsertedMessage ==
  ASSUME HistoryInv, NEW r \in MsgIds, req[r].pc = "insert", ~SeqTaken(r),
         messages' = [messages EXCEPT ![r] = Candidate(r)]
  PROVE  /\ r \notin Stored /\ Stored' = Stored \cup {r}
         /\ messages'[r].seq = req[r].seq /\ messages'[r].ch = req[r].ch
         /\ \A m \in MsgIds : m # r => messages'[m] = messages[m]
         /\ \A c \in Channels : InChannel(c)' =
              IF c = req[r].ch THEN InChannel(c) \cup {r} ELSE InChannel(c)
<1>1. /\ messages \in [MsgIds -> Message] /\ Owned(r) /\ Chosen(r)
      /\ r \in Reqs /\ req[r].seq > 0
  BY DEF HistoryInv, SendReqInv, TypeInv, TypeOK, Chosen, Reqs
<1>2. r \notin Stored
  BY <1>1 DEF Owned
<1>3. messages'[r].seq = req[r].seq /\ messages'[r].ch = req[r].ch
  BY <1>1 DEF Candidate
<1>4. \A m \in MsgIds : m # r => messages'[m] = messages[m]
  BY <1>1
<1>5. Stored' = Stored \cup {r}
  BY <1>1, <1>3, <1>4 DEF Stored
<1>6. \A c \in Channels : InChannel(c)' =
        IF c = req[r].ch THEN InChannel(c) \cup {r} ELSE InChannel(c)
  BY <1>2, <1>3, <1>4, <1>5 DEF InChannel, Stored
<1> QED BY <1>2, <1>3, <1>4, <1>5, <1>6

LEMMA InsertedHistory ==
  ASSUME HistoryInv, TypeInv', NEW r \in MsgIds, req[r].pc = "insert", ~SeqTaken(r),
         messages' = [messages EXCEPT ![r] = Candidate(r)],
         req' = [req EXCEPT ![r].pc = "summary", ![r].doc = Candidate(r)],
         UNCHANGED <<channels, states>>
  PROVE  HistoryInv'
<1>1. /\ req \in [Reqs -> Request] /\ r \in Reqs /\ r \notin ReadReqs
      /\ req[r].ch \in Channels /\ SendReqInv(r) /\ UnderWay(r) /\ TypeInv
      /\ messages \in [MsgIds -> Message]
  BY RequestsAssumption
  DEF HistoryInv, TypeInv, TypeOK, Addressed, UnderWay, Reqs
<1>2. /\ r \notin Stored /\ Stored' = Stored \cup {r}
      /\ messages'[r].seq = req[r].seq /\ messages'[r].ch = req[r].ch
      /\ \A m \in MsgIds : m # r => messages'[m] = messages[m]
      /\ \A c \in Channels : InChannel(c)' =
           IF c = req[r].ch THEN InChannel(c) \cup {r} ELSE InChannel(c)
  BY InsertedMessage
<1>3. /\ req'[r].pc = "summary" /\ req'[r].seq = req[r].seq /\ req'[r].ch = req[r].ch
      /\ req'[r].actor = req[r].actor /\ OthersSame(r)
  <2> DEFINE d == Candidate(r)
             q == [req[r] EXCEPT !.pc = "summary", !.doc = d]
  <2>1. req' = [req EXCEPT ![r] = q]
    OBVIOUS
  <2>2. q.pc = "summary" /\ q.seq = req[r].seq /\ q.ch = req[r].ch /\ q.actor = req[r].actor
    <3> HIDE DEF d
    <3> QED BY <1>1 DEF Request
  <2> QED BY <1>1, <2>1, <2>2 DEF OthersSame
<1>4. \A c \in Channels : \A k : SeqStored(c, k) => SeqStored(c, k)'
  BY <1>2 DEF SeqStored, InChannel, Stored
<1>5. SendReqInv(r)'
  BY <1>1, <1>2, <1>3 DEF SendReqInv, Admitted, UnderWay, Owned, Unknown, Chosen, Withdrawn
<1>6. ASSUME NEW s \in MsgIds, s # r PROVE SendReqInv(s)'
  <2>1. SendReqInv(s) /\ s \in Reqs /\ req'[s] = req[s]
    BY <1>3, <1>6 DEF HistoryInv, OthersSame, Reqs
  <2>2. Admitted(s)' /\ Unknown(s)' /\ Withdrawn(s)'
    BY <2>1 DEF SendReqInv, Admitted, UnderWay, Unknown, Withdrawn
  <2>3. Owned(s)'
    BY <1>2, <1>6, <2>1 DEF SendReqInv, Owned
  <2>4. Chosen(s)'
    <3>1. req[s].pc = "insert" => req[s].ch \in Channels
      BY <2>1 DEF HistoryInv, TypeInv, Addressed, UnderWay
    <3> QED BY <1>4, <2>1, <3>1 DEF SendReqInv, Chosen
  <2> QED BY <2>2, <2>3, <2>4 DEF SendReqInv
<1>7. ASSUME NEW s \in ReadReqs PROVE ReadReqInv(s)'
  <2>1. ReadReqInv(s) /\ req'[s] = req[s]
    BY <1>1, <1>3, <1>7 DEF HistoryInv, OthersSame, Reqs
  <2> QED BY <2>1 DEF ReadReqInv, Admitted, UnderWay
<1>8. CursorInv'
  BY DEF HistoryInv, CursorInv
<1>9. SequencesDistinct'
  <2> SUFFICES ASSUME NEW c \in Channels, NEW m \in InChannel(c)', NEW n \in InChannel(c)',
                      messages'[m].seq = messages'[n].seq
               PROVE  m = n
    BY DEF SequencesDistinct
  <2>1. m \in MsgIds /\ n \in MsgIds
    BY DEF InChannel, Stored
  <2>2. CASE m # r /\ n # r
    BY <1>2, <2>1, <2>2 DEF HistoryInv, SequencesDistinct
  <2>3. CASE m = r /\ n # r
    BY <1>2, <2>1, <2>3 DEF SeqTaken, InChannel
  <2>4. CASE m # r /\ n = r
    BY <1>2, <2>1, <2>4 DEF SeqTaken, InChannel
  <2> QED BY <2>2, <2>3, <2>4
<1>10. NoGaps'
  <2> SUFFICES ASSUME NEW c \in Channels, channels[c].active, NEW m \in InChannel(c)',
                      NEW k \in 1..(messages'[m].seq - 1)
               PROVE  SeqStored(c, k)'
    BY DEF NoGaps, SeqStored
  <2>1. CASE m = r
    <3>1. c = req[r].ch /\ k \in 1..(req[r].seq - 1)
      BY <1>2, <2>1 DEF InChannel
    <3>2. SeqStored(c, k)
      BY <1>1, <3>1 DEF SendReqInv, Chosen
    <3> QED BY <1>4, <3>2
  <2>2. CASE m # r
    <3>1. m \in InChannel(c) /\ messages'[m] = messages[m]
      BY <1>2, <2>2 DEF InChannel, Stored
    <3>2. SeqStored(c, k)
      BY <3>1 DEF HistoryInv, NoGaps, SeqStored
    <3> QED BY <1>4, <3>2
  <2> QED BY <2>1, <2>2
<1>11. SummaryPointsAtStored'
  <2> SUFFICES ASSUME NEW c \in Channels, channels[c].lastSeq # 0
               PROVE  /\ channels[c].lastMsg \in InChannel(c)'
                      /\ messages'[channels[c].lastMsg].seq = channels[c].lastSeq
    BY DEF HistoryInv, SummaryPointsAtStored
  <2>1. /\ channels[c].lastMsg \in InChannel(c)
        /\ messages[channels[c].lastMsg].seq = channels[c].lastSeq
    BY DEF HistoryInv, SummaryPointsAtStored
  <2> QED BY <1>2, <2>1 DEF InChannel, Stored
<1> QED BY <1>5, <1>6, <1>7, <1>8, <1>9, <1>10, <1>11 DEF HistoryInv

LEMMA InsertHistory ==
  ASSUME HistoryInv, TypeInv', NEW r \in MsgIds, Insert(r)
  PROVE  HistoryInv'
<1>1. r \in Reqs /\ TypeInv /\ UnderWay(r) /\ req[r].pc = "insert"
  BY DEF Reqs, HistoryInv, Insert, UnderWay, At
<1>2. CASE Goto(r, "relookup") /\ UNCHANGED messages
  <2>1. UNCHANGED docs /\ req'[r].pc = "relookup" /\ OthersSame(r)
    BY <1>1, <1>2, GotoFields DEF Insert, docs
  <2>2. Admitted(r)' /\ Chosen(r)'
    BY <1>1, <1>2, <2>1, AdmittedGoto DEF Chosen
  <2> QED BY <1>1, <2>1, <2>2, EarlyStep
<1>3. CASE /\ ~SeqTaken(r)
           /\ messages' = [messages EXCEPT ![r] = Candidate(r)]
           /\ req' = [req EXCEPT ![r].pc = "summary", ![r].doc = Candidate(r)]
  BY <1>1, <1>3, InsertedHistory DEF Insert
<1> QED BY <1>2, <1>3 DEF Insert
-----------------------------------------------------------------------------
(* Posting: the summary, the withdrawal and the event *)

\* Channels only move on: they are closed and never opened, and a summary
\* that advances names the message of request r.
ChannelsMoveOn(r) ==
  \A c \in Channels :
    /\ channels'[c].active => channels[c].active
    /\ channels'[c].lastSeq >= channels[c].lastSeq
    /\ channels'[c].lastMsg \in {channels[c].lastMsg, r}

\* What a request relies on holds on in a channel that moves on.
LEMMA ReqInvMovesOn ==
  ASSUME HistoryInv, TypeInv', UNCHANGED messages, NEW r, ChannelsMoveOn(r),
         NEW s \in Reqs, s # r, req'[s] = req[s]
  PROVE  /\ s \in MsgIds => SendReqInv(s)'
         /\ s \in ReadReqs => ReadReqInv(s)'
<1>1. /\ UnderWay(s) => req[s].ch \in Channels
      /\ \A c \in Channels : channels[c].lastSeq \in Nat /\ channels'[c].lastSeq \in Nat
      /\ req[s].seq \in Nat
  BY DEF HistoryInv, TypeInv, TypeOK, Addressed, Channel, Request
<1>2. ASSUME s \in MsgIds PROVE SendReqInv(s)'
  <2>1. SendReqInv(s)
    BY <1>2 DEF HistoryInv
  <2>2. Admitted(s)' /\ Owned(s)'
    BY <2>1 DEF SendReqInv, Admitted, UnderWay, Owned, Stored
  <2>3. Unknown(s)'
    BY <2>1 DEF SendReqInv, Unknown, ChannelsMoveOn
  <2>4. Chosen(s)'
    BY <1>1, <2>1
    DEF SendReqInv, Chosen, ChannelsMoveOn, UnderWay, SeqStored, InChannel, Stored
  <2>5. Withdrawn(s)'
    BY <1>1, <2>1 DEF SendReqInv, Withdrawn, ChannelsMoveOn, UnderWay
  <2> QED BY <2>2, <2>3, <2>4, <2>5 DEF SendReqInv
<1>3. ASSUME s \in ReadReqs PROVE ReadReqInv(s)'
  <2>1. ReadReqInv(s)
    BY <1>3 DEF HistoryInv
  <2> QED BY <1>1, <2>1 DEF ReadReqInv, Admitted, UnderWay, ChannelsMoveOn
<1> QED BY <1>2, <1>3

\* The rest of the invariant does, when the summary still points at a message.
LEMMA HistoryMovesOn ==
  ASSUME HistoryInv, TypeInv', UNCHANGED <<messages, states>>,
         NEW r, ChannelsMoveOn(r), SummaryPointsAtStored'
  PROVE  CursorInv' /\ SequencesDistinct' /\ NoGaps'
<1>1. \A c \in Channels : channels[c].lastSeq \in Nat /\ channels'[c].lastSeq \in Nat
  BY DEF HistoryInv, TypeInv, TypeOK, Channel
<1>2. \A c \in Channels, u \in Users : states[c][u] \in Nat
  BY DEF HistoryInv, TypeInv, TypeOK
<1>3. CursorInv'
  BY <1>1, <1>2 DEF HistoryInv, CursorInv, ChannelsMoveOn
<1>4. SequencesDistinct' /\ NoGaps'
  BY DEF HistoryInv, SequencesDistinct, NoGaps, InChannel, Stored, ChannelsMoveOn
<1> QED BY <1>3, <1>4

LEMMA SummarizedHistory ==
  ASSUME HistoryInv, TypeInv', NEW r \in MsgIds, req[r].pc = "summary",
         TakeVersion(r, Summarized(channels[req[r].ch], r)),
         UNCHANGED <<messages, states>>
  PROVE  HistoryInv'
<1>0. PICK d \in Channels : d = req[r].ch
  BY DEF HistoryInv, TypeInv, Addressed, UnderWay, Reqs
<1>1. /\ r \in Reqs /\ r \notin ReadReqs /\ TypeInv /\ SendReqInv(r)
      /\ channels \in [Channels -> Channel] /\ req[r].seq \in Nat
      /\ channels[d] \in Channel /\ UnderWay(r)
  BY RequestsAssumption DEF HistoryInv, TypeInv, TypeOK, Request, Reqs, UnderWay
<1>2. r \in InChannel(d) /\ messages[r].seq = req[r].seq /\ req[r].seq > 0
  BY <1>0, <1>1 DEF SendReqInv, Owned, InChannel, Stored
<1>3. PICK ch \in Channel : ch = Summarized(channels[d], r)
  BY <1>1, SummarizedFields
<1>4. /\ ch.active = channels[d].active
      /\ channels[d].lastSeq < req[r].seq  => ch.lastSeq = req[r].seq /\ ch.lastMsg = r
      /\ ~(channels[d].lastSeq < req[r].seq) => /\ ch.lastSeq = channels[d].lastSeq
                                                /\ ch.lastMsg = channels[d].lastMsg
  BY <1>1, <1>3, SummarizedFields
<1>5. /\ req'[r].pc = "event" /\ req'[r].actor = req[r].actor /\ req'[r].ch = req[r].ch
      /\ req'[r].seq = req[r].seq /\ OthersSame(r)
      /\ channels' = [channels EXCEPT ![d] = ch]
  BY <1>0, <1>1, <1>3, TakeVersionFields
<1>6. channels[d].lastSeq \in Nat /\ ch.lastSeq \in Nat
  BY <1>1 DEF Channel
<1>7. ChannelsMoveOn(r)
  <2> SUFFICES ASSUME NEW c \in Channels
               PROVE  /\ channels'[c].active => channels[c].active
                      /\ channels'[c].lastSeq >= channels[c].lastSeq
                      /\ channels'[c].lastMsg \in {channels[c].lastMsg, r}
    BY DEF ChannelsMoveOn
  <2>1. CASE c = d
    BY <1>1, <1>4, <1>5, <1>6, <2>1
  <2>2. CASE c # d
    <3>1. channels'[c] = channels[c] /\ channels[c].lastSeq \in Nat
      BY <1>1, <1>5, <2>2 DEF Channel
    <3> QED BY <3>1
  <2> QED BY <2>1, <2>2
<1>8. SummaryPointsAtStored'
  <2>1. InChannel(d)' = InChannel(d) /\ \A c \in Channels : InChannel(c)' = InChannel(c)
    BY DEF InChannel, Stored
  <2> SUFFICES ASSUME NEW c \in Channels
               PROVE  IF channels'[c].lastSeq = 0
                      THEN channels'[c].lastMsg = None
                      ELSE /\ channels'[c].lastMsg \in InChannel(c)
                           /\ messages[channels'[c].lastMsg].seq = channels'[c].lastSeq
    BY <2>1 DEF SummaryPointsAtStored
  <2>2. CASE c = d /\ channels[d].lastSeq < req[r].seq
    BY <1>1, <1>2, <1>4, <1>5, <2>2
  <2>3. CASE ~(c = d /\ channels[d].lastSeq < req[r].seq)
    <3>1. /\ channels'[c].lastSeq = channels[c].lastSeq
          /\ channels'[c].lastMsg = channels[c].lastMsg
      BY <1>1, <1>4, <1>5, <2>3
    <3> QED BY <3>1 DEF HistoryInv, SummaryPointsAtStored
  <2> QED BY <2>2, <2>3
<1>9. SendReqInv(r)'
  BY <1>1, <1>5
  DEF SendReqInv, Admitted, UnderWay, Owned, Unknown, Chosen, Withdrawn, Stored
<1>10. (\A s \in MsgIds : SendReqInv(s)') /\ (\A s \in ReadReqs : ReadReqInv(s)')
  BY <1>1, <1>5, <1>7, <1>9, ReqInvMovesOn DEF OthersSame, Reqs
<1> QED BY <1>7, <1>8, <1>10, HistoryMovesOn DEF HistoryInv

LEMMA SummaryHistory ==
  ASSUME HistoryInv, TypeInv', NEW r \in MsgIds, Summary(r)
  PROVE  HistoryInv'
<1>1. /\ r \in Reqs /\ r \notin ReadReqs /\ TypeInv /\ UnderWay(r)
      /\ req[r].pc = "summary" /\ SendReqInv(r)
  BY RequestsAssumption DEF Reqs, HistoryInv, Summary, UnderWay, At
<1>2. CASE TakeVersion(r, Summarized(channels[req[r].ch], r))
  BY <1>1, <1>2, SummarizedHistory DEF Summary
<1>3. CASE ~CanAccess(req[r].actor, req[r].ch) /\ Goto(r, "undo") /\ UNCHANGED channels
  <2>1. ~channels[req[r].ch].active
    BY <1>1, <1>3 DEF CanAccess, SendReqInv, Admitted
  <2>2. /\ req'[r].pc = "undo" /\ req'[r].actor = req[r].actor /\ req'[r].ch = req[r].ch
        /\ req'[r].seq = req[r].seq /\ OthersSame(r)
    BY <1>1, <1>3, GotoFields
  <2>3. SameHistory /\ UNCHANGED <<messages, channels, states>>
    BY <1>3, DocsSame DEF Summary
  <2>4. SendReqInv(r)'
    BY <1>1, <2>1, <2>2, <2>3
    DEF SendReqInv, Admitted, UnderWay, Owned, Unknown, Chosen, Withdrawn, Stored
  <2> QED BY <1>1, <2>2, <2>3, <2>4, SameHistoryStep
<1> QED BY <1>2, <1>3 DEF Summary

\* A withdrawn message was in a closed channel, and no summary names it.
LEMMA WithdrawnHistory ==
  ASSUME HistoryInv, TypeInv', NEW r \in MsgIds, req[r].pc = "undo",
         messages' = [messages EXCEPT ![r] = NoDoc],
         Answer(r, "not_found"), UNCHANGED <<channels, states>>
  PROVE  HistoryInv'
<1>0. PICK d \in Channels : d = req[r].ch
  BY DEF HistoryInv, TypeInv, Addressed, UnderWay, Reqs
<1>1. /\ r \in Reqs /\ TypeInv /\ SendReqInv(r) /\ r \notin ReadReqs
      /\ messages \in [MsgIds -> Message] /\ UnderWay(r)
  BY RequestsAssumption DEF HistoryInv, TypeInv, TypeOK, Reqs, UnderWay
<1>2. /\ ~channels[d].active /\ messages[r].ch = d
      /\ \A c \in Channels : channels[c].lastMsg # r
  BY <1>0, <1>1 DEF SendReqInv, Withdrawn, Owned, Unknown
<1>3. /\ messages'[r].seq = 0
      /\ \A m \in MsgIds : m # r => messages'[m] = messages[m]
  BY <1>1 DEF NoDoc
<1>4. Stored' = Stored \ {r}
  BY <1>3 DEF Stored
<1>5. /\ \A c \in Channels : InChannel(c)' = InChannel(c) \ {r}
      /\ \A c \in Channels : c # d => InChannel(c)' = InChannel(c)
  BY <1>2, <1>3, <1>4 DEF InChannel, Stored
<1>6. req'[r].pc = "done" /\ req'[r].seq = req[r].seq /\ req'[r].ch = req[r].ch /\ OthersSame(r)
  BY <1>1, AnswerFields
<1>7. \A c \in Channels : channels[c].active =>
        \A k : SeqStored(c, k) => SeqStored(c, k)'
  BY <1>2, <1>3, <1>5 DEF SeqStored, InChannel, Stored
<1>8. SendReqInv(r)'
  BY <1>1, <1>4, <1>6
  DEF SendReqInv, Admitted, UnderWay, Owned, Unknown, Chosen, Withdrawn
<1>9. ASSUME NEW s \in MsgIds, s # r PROVE SendReqInv(s)'
  <2>1. SendReqInv(s) /\ s \in Reqs /\ req'[s] = req[s]
    BY <1>6, <1>9 DEF HistoryInv, OthersSame, Reqs
  <2>2. Admitted(s)' /\ Unknown(s)' /\ Withdrawn(s)'
    BY <2>1 DEF SendReqInv, Admitted, UnderWay, Unknown, Withdrawn
  <2>3. Owned(s)'
    BY <1>3, <1>4, <1>9, <2>1 DEF SendReqInv, Owned
  <2>4. Chosen(s)'
    <3>1. req[s].pc = "insert" => req[s].ch \in Channels
      BY <2>1 DEF HistoryInv, TypeInv, Addressed, UnderWay
    <3> QED BY <1>7, <2>1, <3>1 DEF SendReqInv, Chosen
  <2> QED BY <2>2, <2>3, <2>4 DEF SendReqInv
<1>10. ASSUME NEW s \in ReadReqs PROVE ReadReqInv(s)'
  <2>1. ReadReqInv(s) /\ req'[s] = req[s]
    BY <1>1, <1>6, <1>10 DEF HistoryInv, OthersSame, Reqs
  <2> QED BY <2>1 DEF ReadReqInv, Admitted, UnderWay
<1>11. CursorInv'
  BY DEF HistoryInv, CursorInv
<1>12. SequencesDistinct'
  BY <1>3, <1>5 DEF HistoryInv, SequencesDistinct, InChannel, Stored
<1>13. NoGaps'
  BY <1>2, <1>3, <1>5 DEF HistoryInv, NoGaps, InChannel, Stored
<1>14. SummaryPointsAtStored'
  BY <1>2, <1>3, <1>5 DEF HistoryInv, SummaryPointsAtStored, InChannel, Stored
<1> QED BY <1>8, <1>9, <1>10, <1>11, <1>12, <1>13, <1>14 DEF HistoryInv

LEMMA UndoHistory ==
  ASSUME HistoryInv, TypeInv', NEW r \in MsgIds, Undo(r)
  PROVE  HistoryInv'
<1>1. /\ r \in Reqs /\ TypeInv /\ UnderWay(r) /\ req[r].pc = "undo"
      /\ Answer(r, "not_found") /\ UNCHANGED <<channels, states>>
  BY DEF Reqs, HistoryInv, Undo, UnderWay, At
<1>2. CASE messages' = messages
  <2>1. SameHistory
    BY <1>1, <1>2, DocsSame
  <2> QED BY <1>1, <2>1, AnswerFields, DoneStep
<1>3. CASE messages' = [messages EXCEPT ![r] = NoDoc]
  BY <1>1, <1>3, WithdrawnHistory
<1> QED BY <1>2, <1>3 DEF Undo

LEMMA CreatedEventHistory ==
  ASSUME HistoryInv, TypeInv', NEW r \in MsgIds, CreatedEvent(r)
  PROVE  HistoryInv'
<1>1. /\ r \in Reqs /\ TypeInv /\ UnderWay(r) /\ SameHistory
      /\ req \in [Reqs -> Request]
  BY DocsSame DEF Reqs, HistoryInv, TypeInv, TypeOK, CreatedEvent, UnderWay, At
<1>2. /\ req'[r].pc = "done" /\ req'[r].seq = req[r].seq /\ req'[r].ch = req[r].ch
      /\ OthersSame(r)
  BY <1>1 DEF CreatedEvent, OthersSame, Request
<1> QED BY <1>1, <1>2, DoneStep

LEMMA SendHistory ==
  ASSUME HistoryInv, TypeInv', NEW r \in MsgIds, Send(r)
  PROVE  HistoryInv'
<1>1. CASE Lookup(r)
  <2>1. UnderWay(r) /\ UNCHANGED docs
    BY <1>1 DEF Lookup, UnderWay, At
  <2> QED BY <1>1, <2>1, AnswerExistingHistory, LookupsHistory DEF Lookup
<1> QED BY <1>1, CreateGetHistory, AIReplyGetHistory, LookupsHistory, FindChannelHistory,
           FindLatestHistory, InsertHistory, RelookupHistory, SummaryHistory,
           UndoHistory, CreatedEventHistory DEF Send
-----------------------------------------------------------------------------
(* Editing and recalling *)

\* A revision writes content, revision and flag only.
LEMMA ReviseHistory ==
  ASSUME HistoryInv, TypeInv', NEW r \in ReviseReqs, Revise(r)
  PROVE  HistoryInv'
<1>1. /\ r \in Reqs /\ r \notin MsgIds /\ r \notin ReadReqs /\ TypeInv
      /\ req \in [Reqs -> Request] /\ messages \in [MsgIds -> Message]
      /\ channels \in [Channels -> Channel]
  BY RequestsAssumption DEF Reqs, HistoryInv, TypeInv, TypeOK
<1>2. OthersSame(r)
  <2>1. CASE ReviseRefused(r) \/ Authorize(r) \/ RevisedEvent(r)
    BY <1>1, <2>1, AnswerFields, GotoFields DEF ReviseRefused, Authorize, RevisedEvent
  <2>2. CASE ReviseGet(r) \/ CompareAndSet(r)
    BY <1>1, <2>2, AnswerFields DEF ReviseGet, CompareAndSet, OthersSame
  <2>3. CASE ReviseBump(r)
    BY <1>1, <2>3, AnswerFields, TakeVersionFields DEF ReviseBump
  <2> QED BY <2>1, <2>2, <2>3 DEF Revise
<1>3. SameHistory
  <2>1. CASE ReviseRefused(r) \/ Authorize(r) \/ RevisedEvent(r) \/ ReviseGet(r)
    BY <2>1, DocsSame DEF ReviseRefused, Authorize, RevisedEvent, ReviseGet, docs
  <2>2. CASE CompareAndSet(r)
    <3> DEFINE m == req[r].msg
               new == Revised(r, messages[m])
    <3>1. CASE UNCHANGED messages
      BY <2>2, <3>1, DocsSame DEF CompareAndSet
    <3>2. CASE m \in Stored /\ messages' = [messages EXCEPT ![m] = new]
      <4>1. messages[m] \in Message /\ m \in MsgIds
        BY <1>1, <3>2 DEF Stored
      <4>2. new.seq = messages[m].seq /\ new.ch = messages[m].ch
        BY <4>1, RevisedFields
      <4>3. \A n \in MsgIds : messages'[n].seq = messages[n].seq
                              /\ messages'[n].ch = messages[n].ch
        <5> HIDE DEF new
        <5> QED BY <1>1, <3>2, <4>1, <4>2
      <4> QED BY <2>2, <4>3 DEF CompareAndSet, SameHistory
    <3> QED BY <2>2, <3>1, <3>2 DEF CompareAndSet, Unchanged
  <2>3. CASE ReviseBump(r)
    BY <1>1, <2>3, VersionBumped DEF ReviseBump
  <2> QED BY <2>1, <2>2, <2>3 DEF Revise
<1> QED BY <1>1, <1>2, <1>3, SameHistoryStep
-----------------------------------------------------------------------------
(* Marking as read *)

LEMMA ReadGetHistory ==
  ASSUME HistoryInv, TypeInv', NEW r \in ReadReqs, ReadGet(r)
  PROVE  HistoryInv'
<1>1. PICK u \in Users, c \in Channels, k \in ReadSeqs :
        Arrive(r, [req[r] EXCEPT !.actor = u, !.ch = c, !.seq = k],
               CASE ~CanAccess(u, c) -> "not_found"
                 [] ~Covered(c, k)   -> "invalid"
                 [] OTHER            -> "pending",
               "update")
  BY DEF ReadGet
<1>2. /\ r \in Reqs /\ r \notin MsgIds /\ req[r] \in Request /\ TypeInv
      /\ UNCHANGED docs /\ SameHistory /\ k \in Nat \ {0}
  BY RequestsAssumption, ReadSeqsAssumption, DocsSame
  DEF HistoryInv, TypeInv, TypeOK, Reqs, ReadGet, docs
<1> DEFINE in == [req[r] EXCEPT !.actor = u, !.ch = c, !.seq = k]
           v  == CASE ~CanAccess(u, c) -> "not_found"
                   [] ~Covered(c, k)   -> "invalid"
                   [] OTHER            -> "pending"
<1>3. in \in Request /\ in.actor = u /\ in.ch = c /\ in.seq = k
  BY <1>2 DEF Request
<1>4. v = "pending" => CanAccess(u, c) /\ Covered(c, k)
  OBVIOUS
<1>5. Arrive(r, in, v, "update")
  BY <1>1
<1> HIDE DEF in, v
<1>6. /\ req'[r].pc \in {"update", "done"} /\ (req'[r].pc # "done" => v = "pending")
      /\ req'[r].actor = u /\ req'[r].ch = c /\ req'[r].seq = k /\ OthersSame(r)
  BY <1>2, <1>3, <1>5, ArriveFields
<1>7. ReadReqInv(r)'
  BY <1>2, <1>4, <1>6 DEF ReadReqInv, Admitted, UnderWay, CanAccess, Covered, docs
<1> QED BY <1>2, <1>6, <1>7, SameHistoryStep

\* A cursor is set to what its request was admitted with, which the summary
\* covers since the request came.
LEMMA SetCursorHistory ==
  ASSUME HistoryInv, TypeInv', NEW r \in ReadReqs, req[r].pc \in {"update", "upsert"},
         SetCursor(r), Goto(r, "fetch"), UNCHANGED <<messages, channels>>
  PROVE  HistoryInv'
<1>1. /\ r \in Reqs /\ r \notin MsgIds /\ TypeInv /\ ReadReqInv(r) /\ UnderWay(r)
      /\ req[r].ch \in Channels /\ req[r].actor \in Users /\ req[r].seq \in Nat
      /\ states \in [Channels -> [Users -> Nat]]
  BY RequestsAssumption
  DEF HistoryInv, TypeInv, TypeOK, Addressed, UnderWay, Request, Reqs
<1>2. \A c \in Channels : \A u \in Users :
        states'[c][u] = IF c = req[r].ch /\ u = req[r].actor
                        THEN req[r].seq ELSE states[c][u]
  BY <1>1, SetCursorType
<1>3. CursorInv'
  BY <1>1, <1>2 DEF HistoryInv, CursorInv, ReadReqInv, Admitted
<1>4. ReadReqInv(r)'
  BY <1>1, GotoFields DEF ReadReqInv, Admitted, UnderWay
<1>5. ChannelsMoveOn(r) /\ OthersSame(r)
  BY <1>1, GotoFields DEF ChannelsMoveOn, HistoryInv, TypeInv, TypeOK, Channel
<1>6. (\A s \in MsgIds : SendReqInv(s)') /\ (\A s \in ReadReqs : ReadReqInv(s)')
  BY <1>1, <1>4, <1>5, ReqInvMovesOn DEF OthersSame, Reqs
<1>7. SequencesDistinct' /\ NoGaps' /\ SummaryPointsAtStored'
  BY DEF HistoryInv, SequencesDistinct, NoGaps, SummaryPointsAtStored, InChannel, Stored
<1> QED BY <1>3, <1>6, <1>7 DEF HistoryInv

LEMMA ReadGotoHistory ==
  ASSUME HistoryInv, TypeInv', NEW r \in ReadReqs, req[r].pc \in {"update", "upsert"},
         NEW p \in {"upsert", "peek"}, Goto(r, p), UNCHANGED docs
  PROVE  HistoryInv'
<1>1. /\ r \in Reqs /\ r \notin MsgIds /\ TypeInv /\ ReadReqInv(r) /\ SameHistory
  BY RequestsAssumption, DocsSame DEF HistoryInv, Reqs, docs
<1>2. ReadReqInv(r)' /\ OthersSame(r)
  BY <1>1, GotoFields DEF ReadReqInv, Admitted, UnderWay, docs
<1> QED BY <1>1, <1>2, SameHistoryStep

\* From the read-back of the cursor on the history does not matter any more.
LEMMA ReadRestHistory ==
  ASSUME HistoryInv, TypeInv', NEW r \in ReadReqs,
         FetchCursor(r) \/ PeekCursor(r) \/ ReadBump(r) \/ AdvancedEvent(r)
  PROVE  HistoryInv'
<1>1. /\ r \in Reqs /\ r \notin MsgIds /\ TypeInv /\ Admitted(r) /\ UnderWay(r)
      /\ req \in [Reqs -> Request]
  BY RequestsAssumption
  DEF HistoryInv, TypeInv, TypeOK, Reqs, ReadReqInv, UnderWay, At, FetchCursor,
      PeekCursor, ReadBump, AdvancedEvent
<1>2. SameHistory
  BY <1>1, DocsSame, VersionBumped DEF FetchCursor, PeekCursor, ReadBump, AdvancedEvent, docs
<1>3. /\ req'[r].pc \in {"bump", "event", "done"}
      /\ req'[r].actor = req[r].actor /\ req'[r].ch = req[r].ch /\ OthersSame(r)
  <2>1. CASE FetchCursor(r) \/ PeekCursor(r)
    <3> DEFINE s == Cursor(r)
    <3>1. \/ req' = [req EXCEPT ![r].pc = "bump", ![r].read = s]
          \/ req' = [req EXCEPT ![r].pc = "done", ![r].status = "unchanged", ![r].read = s]
      BY <2>1 DEF FetchCursor, PeekCursor
    <3> HIDE DEF s
    <3> QED BY <1>1, <3>1 DEF OthersSame, Request
  <2>2. CASE ReadBump(r)
    BY <1>1, <2>2, AnswerFields, TakeVersionFields DEF ReadBump
  <2>3. CASE AdvancedEvent(r)
    BY <1>1, <2>3, AnswerFields DEF AdvancedEvent
  <2> QED BY <2>1, <2>2, <2>3
<1>4. ReadReqInv(r)'
  BY <1>1, <1>3 DEF ReadReqInv, Admitted, UnderWay
<1> QED BY <1>1, <1>2, <1>3, <1>4, SameHistoryStep

LEMMA ReadHistory ==
  ASSUME HistoryInv, TypeInv', NEW r \in ReadReqs, Read(r)
  PROVE  HistoryInv'
<1>1. CASE UpdateCursor(r)
  BY <1>1, SetCursorHistory, ReadGotoHistory DEF UpdateCursor, At, docs
<1>2. CASE UpsertCursor(r)
  BY <1>2, SetCursorHistory, ReadGotoHistory DEF UpsertCursor, At, docs
<1> QED BY <1>1, <1>2, ReadGetHistory, ReadRestHistory DEF Read
-----------------------------------------------------------------------------
(* Requests that end early, and channels that are closed *)

LEMMA AbortHistory ==
  ASSUME HistoryInv, TypeInv', NEW r \in Reqs, Abort(r)
  PROVE  HistoryInv'
<1>1. TypeInv /\ UnderWay(r) /\ SameHistory
  BY DocsSame DEF HistoryInv, Abort, UnderWay, docs
<1> QED BY <1>1, AnswerFields, DoneStep DEF Abort

LEMMA DeactivateHistory ==
  ASSUME HistoryInv, TypeInv', NEW d \in Channels, Deactivate(d)
  PROVE  HistoryInv'
<1>1. /\ channels \in [Channels -> Channel] /\ None \notin Reqs
      /\ UNCHANGED <<messages, states, outbox, req>>
      /\ channels[d] \in Channel
  BY RequestsAssumption DEF HistoryInv, TypeInv, TypeOK, Deactivate
<1>2. \A c \in Channels : /\ channels'[c].lastSeq = channels[c].lastSeq
                          /\ channels'[c].lastMsg = channels[c].lastMsg
                          /\ channels'[c].active => channels[c].active
  BY <1>1 DEF Deactivate, Channel
<1>3. \A c \in Channels : channels[c].lastSeq \in Nat
  BY <1>1 DEF Channel
<1>4. ChannelsMoveOn(None)
  BY <1>2, <1>3 DEF ChannelsMoveOn
<1>5. (\A s \in MsgIds : SendReqInv(s)') /\ (\A s \in ReadReqs : ReadReqInv(s)')
  BY <1>1, <1>4, ReqInvMovesOn DEF Reqs
<1>6. SummaryPointsAtStored'
  BY <1>1, <1>2 DEF HistoryInv, SummaryPointsAtStored, InChannel, Stored
<1> QED BY <1>1, <1>4, <1>5, <1>6, HistoryMovesOn DEF HistoryInv
-----------------------------------------------------------------------------
(* The theorems *)

LEMMA InitHistory == Init => HistoryInv
<1> SUFFICES ASSUME Init PROVE HistoryInv OBVIOUS
<1>1. TypeInv
  BY InitTypeInv
<1>2. Stored = {}
  BY DEF Init, Stored, NoDoc
<1>3. \A r \in Reqs : req[r].pc = "idle"
  BY DEF Init, Idle
<1>4. \A c \in Channels : channels[c].lastSeq = 0 /\ channels[c].lastMsg = None
  BY DEF Init, NewChannel
<1>5. \A r \in MsgIds : SendReqInv(r)
  BY <1>2, <1>3, <1>4, RequestsAssumption
  DEF SendReqInv, Admitted, UnderWay, Owned, Unknown, Chosen, Withdrawn, Reqs
<1>6. \A r \in ReadReqs : ReadReqInv(r)
  BY <1>3 DEF ReadReqInv, Admitted, UnderWay, Reqs
<1>7. CursorInv
  BY DEF Init, CursorInv
<1>8. SequencesDistinct /\ NoGaps /\ SummaryPointsAtStored
  BY <1>2, <1>4 DEF SequencesDistinct, NoGaps, SummaryPointsAtStored, InChannel
<1> QED BY <1>1, <1>5, <1>6, <1>7, <1>8 DEF HistoryInv

LEMMA StepHistory == HistoryInv /\ [Next]_vars => HistoryInv'
<1> SUFFICES ASSUME HistoryInv, [Next]_vars PROVE HistoryInv' OBVIOUS
<1>1. TypeInv'
  BY StepTypeInv DEF HistoryInv
<1>2. CASE UNCHANGED vars
  <2>1. SameHistory /\ req' = req
    BY <1>2, DocsSame DEF vars
  <2>2. (\A s \in MsgIds : SendReqInv(s)') /\ (\A s \in ReadReqs : ReadReqInv(s)')
    BY <2>1, ReqInvKept DEF Reqs
  <2> QED BY <1>1, <1>2, <2>2
      DEF vars, HistoryInv, CursorInv, SequencesDistinct, NoGaps, SummaryPointsAtStored,
          InChannel, Stored
<1>3. CASE Next
  BY <1>1, <1>3, SendHistory, ReviseHistory, ReadHistory, AbortHistory,
     DeactivateHistory DEF Next
<1> QED BY <1>2, <1>3

\* What a request may rely on at each of its calls holds at all times.
THEOREM HistoryInvariant == Spec => []HistoryInv
BY InitHistory, StepHistory, PTL DEF Spec

\* Any number of concurrent posts, failing anywhere, leave a channel in use
\* with the sequences 1, 2, ... and no sequence twice.
THEOREM ContiguousSequences == Spec => []SequencesContiguous
<1>1. HistoryInv => SequencesContiguous
  BY DEF HistoryInv, SequencesContiguous
<1> QED BY <1>1, HistoryInvariant, PTL

\* The summary of a channel names a message that is there, with its sequence:
\* no order of the writers and no withdrawal leaves it dangling.
THEOREM TrueSummary == Spec => []SummaryPointsAtStored
<1>1. HistoryInv => SummaryPointsAtStored
  BY DEF HistoryInv
<1> QED BY <1>1, HistoryInvariant, PTL

\* A cursor stands within the summary and, in a channel in use, at a message:
\* the message the summary names, or one below it since there are no gaps.
THEOREM CursorsWithinHistory == Spec => []CursorWithinHistory
<1>1. HistoryInv => CursorWithinHistory
  <2> SUFFICES ASSUME HistoryInv, NEW c \in Channels, NEW u \in Users, states[c][u] > 0
               PROVE  /\ u \in Participants[c]
                      /\ states[c][u] <= channels[c].lastSeq
                      /\ channels[c].active =>
                           \E m \in InChannel(c) : messages[m].seq = states[c][u]
    BY DEF CursorWithinHistory
  <2>1. /\ states[c][u] \in Nat /\ channels[c].lastSeq \in Nat
        /\ u \in Participants[c] /\ states[c][u] <= channels[c].lastSeq
    BY DEF HistoryInv, TypeInv, TypeOK, CursorInv, Channel
  <2>2. /\ channels[c].lastMsg \in InChannel(c)
        /\ messages[channels[c].lastMsg].seq = channels[c].lastSeq
    BY <2>1 DEF HistoryInv, SummaryPointsAtStored
  <2>3. states[c][u] = channels[c].lastSeq \/ states[c][u] \in 1..(channels[c].lastSeq - 1)
    BY <2>1
  <2> QED BY <2>1, <2>2, <2>3 DEF HistoryInv, NoGaps
<1> QED BY <1>1, HistoryInvariant, PTL
=============================================================================

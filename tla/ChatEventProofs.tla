--------------------------- MODULE ChatEventProofs --------------------------
(***************************************************************************)
(* What the changes of a message, their versions and their events come to  *)
(* in ChatStore, from ChangeInv of ChatStoreInv: versions are handed out   *)
(* once, nothing moves back, an edit overwrites what its author saw, a     *)
(* recall is final and the events tell the history.                        *)
(***************************************************************************)
EXTENDS ChatStoreProofs

\* All of a request but its pc and its status.
Kept(r) ==
  /\ req'[r].actor = req[r].actor /\ req'[r].ch = req[r].ch
  /\ req'[r].msg = req[r].msg /\ req'[r].doc = req[r].doc
  /\ req'[r].seq = req[r].seq /\ req'[r].read = req[r].read
  /\ req'[r].key = req[r].key
-----------------------------------------------------------------------------
(* What the steps do to their request *)

LEMMA GotoKeeps ==
  ASSUME TypeInv, NEW r \in Reqs, NEW p, Goto(r, p)
  PROVE  /\ req'[r].pc = p /\ req'[r].status = req[r].status
         /\ req'[r].version = req[r].version /\ Kept(r) /\ OthersSame(r)
<1>1. req \in [Reqs -> Request]
  BY DEF TypeInv, TypeOK
<1> QED BY <1>1 DEF Goto, OthersSame, Request, Kept

LEMMA AnswerKeeps ==
  ASSUME TypeInv, NEW r \in Reqs, NEW t, Answer(r, t)
  PROVE  /\ req'[r].pc = "done" /\ req'[r].status = t
         /\ req'[r].version = req[r].version /\ Kept(r) /\ OthersSame(r)
<1>1. req \in [Reqs -> Request]
  BY DEF TypeInv, TypeOK
<1> QED BY <1>1 DEF Answer, OthersSame, Request, Kept

LEMMA TakeVersionKeeps ==
  ASSUME TypeInv, NEW r \in Reqs, NEW ch, TakeVersion(r, ch)
  PROVE  /\ req'[r].pc = "event" /\ req'[r].status = req[r].status
         /\ req'[r].version = ch.version /\ Kept(r) /\ OthersSame(r)
<1>1. req \in [Reqs -> Request]
  BY DEF TypeInv, TypeOK
<1> QED BY <1>1 DEF TakeVersion, OthersSame, Request, Kept

\* A post before its insert, and one that is turned away: nothing is written
\* and no version taken.
PostingRead(r) ==
  /\ UNCHANGED docs /\ OthersSame(r)
  /\ req[r].pc \notin {"summary", "undo", "event", "done"}
  /\ req'[r].pc \notin {"summary", "undo", "event"}
  /\ req'[r].version = req[r].version
  /\ req[r].pc # "idle" => req'[r].ch = req[r].ch /\ req'[r].key = req[r].key
  /\ req[r].pc = "idle" => req'[r].key \in Keys
  /\ req'[r].status \in {req[r].status, "pending", "invalid", "not_found", "conflict",
                         "existing", "exhausted"}

LEMMA ArrivalReads ==
  ASSUME TypeInv, NEW r \in Reqs, At(r, "idle"), UNCHANGED docs,
         NEW in \in Request, NEW v \in {"pending", "invalid", "not_found"},
         NEW p \in {"lookup", "reply", "source"},
         Arrive(r, in, v, p), in.version = req[r].version, in.key \in Keys
  PROVE  PostingRead(r)
<1>1. /\ req'[r].pc = IF v = "pending" THEN p ELSE "done"
      /\ req'[r].status = v /\ req'[r].version = in.version
      /\ req'[r].key = in.key /\ OthersSame(r)
  BY ArriveFields
<1> QED BY <1>1 DEF PostingRead, At

LEMMA PostingReads ==
  ASSUME TypeInv, NEW r \in MsgIds,
         \/ r \in CreateReqs /\ (CreateGet(r) \/ CheckReply(r))
         \/ r \in AIReqs /\ (AIReplyGet(r) \/ CheckSource(r))
         \/ Lookup(r) \/ FindChannel(r) \/ FindLatest(r) \/ Relookup(r)
         \/ Insert(r) /\ Goto(r, "relookup") /\ UNCHANGED messages
  PROVE  PostingRead(r)
<1>1. r \in Reqs /\ req \in [Reqs -> Request] /\ req[r] \in Request
  BY DEF Reqs, TypeInv, TypeOK
<1>2. CASE CreateGet(r)
  <2>1. PICK u \in Users, c \in Channels, k \in Keys, b \in Bodies, t \in ReplyTargets :
          Arrive(r, [req[r] EXCEPT !.actor = u, !.ch = c, !.key = k,
                                   !.body = b, !.reply = t],
                 CASE ~CanAccess(u, c) -> "not_found"
                   [] b = Malformed    -> "invalid"
                   [] OTHER            -> "pending",
                 IF t = None THEN "lookup" ELSE "reply")
    BY <1>2 DEF CreateGet
  <2> DEFINE in == [req[r] EXCEPT !.actor = u, !.ch = c, !.key = k,
                                  !.body = b, !.reply = t]
             v  == CASE ~CanAccess(u, c) -> "not_found"
                     [] b = Malformed    -> "invalid"
                     [] OTHER            -> "pending"
             p  == IF t = None THEN "lookup" ELSE "reply"
  <2>2. t \in MsgIds \cup {None}
    BY DEF ReplyTargets, Stored
  <2>3. in \in Request /\ in.version = req[r].version /\ in.key \in Keys
    BY <1>1, <2>2 DEF Request
  <2>4. v \in {"pending", "invalid", "not_found"} /\ p \in {"lookup", "reply", "source"}
    OBVIOUS
  <2>5. Arrive(r, in, v, p)
    BY <2>1
  <2> HIDE DEF in, v, p
  <2> QED BY <1>1, <1>2, <2>3, <2>4, <2>5, ArrivalReads DEF CreateGet
<1>3. CASE AIReplyGet(r)
  <2>1. PICK u \in Users, c \in Channels, k \in Keys, b \in Bodies, t \in Stored :
          Arrive(r, [req[r] EXCEPT !.actor = u, !.ch = c, !.key = k,
                                   !.body = b, !.reply = t],
                 CASE b = Malformed    -> "invalid"
                   [] ~CanAccess(u, c) -> "not_found"
                   [] OTHER            -> "pending",
                 "source")
    BY <1>3 DEF AIReplyGet
  <2> DEFINE in == [req[r] EXCEPT !.actor = u, !.ch = c, !.key = k,
                                  !.body = b, !.reply = t]
             v  == CASE b = Malformed    -> "invalid"
                     [] ~CanAccess(u, c) -> "not_found"
                     [] OTHER            -> "pending"
  <2>2. t \in MsgIds
    BY DEF Stored
  <2>3. in \in Request /\ in.version = req[r].version /\ in.key \in Keys
    BY <1>1, <2>2 DEF Request
  <2>4. v \in {"pending", "invalid", "not_found"}
    OBVIOUS
  <2>5. Arrive(r, in, v, "source")
    BY <2>1
  <2> HIDE DEF in, v
  <2> QED BY <1>1, <1>3, <2>3, <2>4, <2>5, ArrivalReads DEF AIReplyGet
<1>4. ASSUME UNCHANGED docs, req[r].pc \notin {"idle", "summary", "undo", "event", "done"},
             \/ \E p \in {"lookup", "channel", "latest", "insert", "relookup"} : Goto(r, p)
             \/ \E t \in {"invalid", "not_found", "conflict"} : Answer(r, t)
             \/ \E m \in MsgIds : AnswerExisting(r, m)
      PROVE  PostingRead(r)
  <2>1. ASSUME NEW p \in {"lookup", "channel", "latest", "insert", "relookup"}, Goto(r, p)
        PROVE  PostingRead(r)
    BY <1>1, <1>4, <2>1, GotoKeeps DEF PostingRead, Kept
  <2>2. ASSUME NEW t \in {"invalid", "not_found", "conflict"}, Answer(r, t)
        PROVE  PostingRead(r)
    BY <1>1, <1>4, <2>2, AnswerKeeps DEF PostingRead, Kept
  <2>3. ASSUME NEW m \in MsgIds, messages[m].hash = RequestHash(r), AnswerExisting(r, m)
        PROVE  PostingRead(r)
    <3>1. req' = [req EXCEPT ![r].pc = "done", ![r].status = "existing",
                             ![r].msg = m, ![r].doc = messages[m]]
      BY <2>3 DEF AnswerExisting
    <3>2. /\ req'[r].pc = "done" /\ req'[r].status = "existing"
          /\ req'[r].ch = req[r].ch /\ req'[r].key = req[r].key
          /\ req'[r].version = req[r].version /\ OthersSame(r)
      BY <1>1, <3>1 DEF OthersSame, Request
    <3> QED BY <1>4, <3>2 DEF PostingRead
  <2> QED BY <1>4, <2>1, <2>2, <2>3 DEF AnswerExisting
<1>5. CASE CheckReply(r) \/ CheckSource(r)
  BY <1>4, <1>5 DEF CheckReply, CheckSource, At
<1>6. CASE Lookup(r)
  BY <1>4, <1>6 DEF Lookup, At, SameKey, InChannel, Stored
<1>7. CASE FindChannel(r)
  <2>1. CASE Answer(r, "not_found")
    BY <1>4, <1>7, <2>1 DEF FindChannel, At
  <2>2. CASE req' = [req EXCEPT ![r].pc = "latest", ![r].seq = channels[req[r].ch].lastSeq]
    <3>1. /\ req'[r].pc = "latest" /\ req'[r].status = req[r].status
          /\ req'[r].ch = req[r].ch /\ req'[r].key = req[r].key
          /\ req'[r].version = req[r].version /\ OthersSame(r)
      BY <1>1, <2>2 DEF OthersSame, Request
    <3> QED BY <1>7, <3>1 DEF FindChannel, At, PostingRead
  <2> QED BY <1>7, <2>1, <2>2 DEF FindChannel
<1>8. CASE FindLatest(r)
  <2>1. PICK n, f : req' = [req EXCEPT ![r].pc = "insert", ![r].seq = n, ![r].first = f]
    <3>1. PICK s \in LatestSeqs(req[r].ch) :
            req' = [req EXCEPT ![r].pc = "insert", ![r].seq = NextSeq(req[r].seq, s),
                               ![r].first = IF req[r].attempt = 0
                                            THEN NextSeq(req[r].seq, s) ELSE @]
      BY <1>8 DEF FindLatest
    <3>2. req' = [req EXCEPT ![r].pc = "insert", ![r].seq = NextSeq(req[r].seq, s),
                             ![r].first = IF req[r].attempt = 0
                                          THEN NextSeq(req[r].seq, s) ELSE req[r].first]
      BY <1>1, <3>1
    <3> QED BY <3>2
  <2>2. /\ req'[r].pc = "insert" /\ req'[r].status = req[r].status
        /\ req'[r].ch = req[r].ch /\ req'[r].key = req[r].key
        /\ req'[r].version = req[r].version /\ OthersSame(r)
    BY <1>1, <2>1 DEF OthersSame, Request
  <2> QED BY <1>8, <2>2 DEF FindLatest, At, PostingRead
<1>9. CASE Relookup(r)
  <2>1. CASE \E m \in SameKey(r) : AnswerExisting(r, m)
    BY <1>4, <1>9, <2>1 DEF Relookup, At, SameKey, InChannel, Stored
  <2>2. CASE req' = [req EXCEPT
             ![r].attempt = @ + 1,
             ![r].pc = IF req[r].attempt + 1 < MaxAttempts THEN "channel" ELSE "done",
             ![r].status = IF req[r].attempt + 1 < MaxAttempts THEN @ ELSE "exhausted"]
    <3>1. /\ req'[r].pc \in {"channel", "done"}
          /\ req'[r].status \in {req[r].status, "exhausted"}
          /\ req'[r].ch = req[r].ch /\ req'[r].key = req[r].key
          /\ req'[r].version = req[r].version /\ OthersSame(r)
      BY <1>1, <2>2 DEF OthersSame, Request
    <3> QED BY <1>9, <3>1 DEF Relookup, At, PostingRead
  <2> QED BY <1>9, <2>1, <2>2 DEF Relookup
<1>10. CASE Insert(r) /\ Goto(r, "relookup") /\ UNCHANGED messages
  BY <1>4, <1>10 DEF Insert, At, docs
<1> QED BY <1>2, <1>3, <1>5, <1>6, <1>7, <1>8, <1>9, <1>10

\* A revision that is turned away or goes by what it has read.
LEMMA ReviseGetKeeps ==
  ASSUME TypeInv, NEW r \in ReviseReqs, ReviseGet(r)
  PROVE  /\ req[r].pc = "idle" /\ req'[r].pc = "authorize" /\ OthersSame(r)
         /\ req'[r].status = req[r].status /\ req'[r].version = req[r].version
         /\ \E m \in Stored : /\ req'[r].msg = m /\ req'[r].doc = messages[m]
                              /\ req'[r].ch = messages[m].ch
<1>1. r \in Reqs /\ req \in [Reqs -> Request] /\ req[r] \in Request
  BY DEF Reqs, TypeInv, TypeOK
<1>2. PICK u \in Users, m \in Stored :
        req' = [req EXCEPT ![r].pc = "authorize", ![r].actor = u,
                           ![r].ch = messages[m].ch, ![r].msg = m,
                           ![r].doc = messages[m]]
  BY DEF ReviseGet
<1> QED BY <1>1, <1>2 DEF ReviseGet, At, OthersSame, Request

LEMMA CompareAndSetKeeps ==
  ASSUME TypeInv, NEW r \in ReviseReqs, CompareAndSet(r), Unchanged(r)
  PROVE  LET m == req[r].msg
             new == Revised(r, messages[m])
         IN /\ req[r].pc = "cas" /\ req'[r].pc = "bump" /\ OthersSame(r)
            /\ req'[r].status = req[r].status /\ req'[r].version = req[r].version
            /\ req'[r].ch = req[r].ch /\ req'[r].msg = m /\ req'[r].doc = new
            /\ req'[r].actor = req[r].actor
            /\ messages' = [messages EXCEPT ![m] = new]
            /\ UNCHANGED <<channels, states, outbox>>
<1>1. r \in Reqs /\ req \in [Reqs -> Request] /\ req[r] \in Request
  BY DEF Reqs, TypeInv, TypeOK
<1> DEFINE m == req[r].msg
           new == Revised(r, messages[m])
<1>2. /\ messages' = [messages EXCEPT ![m] = new]
      /\ req' = [req EXCEPT ![r].pc = "bump", ![r].doc = new]
  BY DEF CompareAndSet
<1> HIDE DEF new
<1>3. /\ req'[r].pc = "bump" /\ req'[r].doc = new /\ req'[r].status = req[r].status
      /\ req'[r].version = req[r].version /\ req'[r].ch = req[r].ch
      /\ req'[r].msg = m /\ req'[r].actor = req[r].actor /\ OthersSame(r)
  BY <1>1, <1>2 DEF OthersSame, Request
<1> QED BY <1>2, <1>3 DEF CompareAndSet, At, new

LEMMA ReadGetKeeps ==
  ASSUME TypeInv, NEW r \in ReadReqs, ReadGet(r)
  PROVE  /\ req[r].pc = "idle" /\ req'[r].pc \in {"update", "done"} /\ OthersSame(r)
         /\ req'[r].version = req[r].version /\ UNCHANGED docs
<1>1. PICK u \in Users, c \in Channels, s \in ReadSeqs :
        Arrive(r, [req[r] EXCEPT !.actor = u, !.ch = c, !.seq = s],
               CASE ~CanAccess(u, c) -> "not_found"
                 [] ~Covered(c, s)   -> "invalid"
                 [] OTHER            -> "pending",
               "update")
  BY DEF ReadGet
<1> DEFINE in == [req[r] EXCEPT !.actor = u, !.ch = c, !.seq = s]
           v  == CASE ~CanAccess(u, c) -> "not_found"
                   [] ~Covered(c, s)   -> "invalid"
                   [] OTHER            -> "pending"
<1>2. r \in Reqs /\ s \in Nat
  BY ReadSeqsAssumption DEF Reqs
<1>3. in \in Request /\ in.version = req[r].version
  <2>1. req[r] \in Request
    BY <1>2 DEF TypeInv, TypeOK
  <2> HIDE DEF v
  <2> QED BY <1>2, <2>1 DEF Request
<1>4. Arrive(r, in, v, "update")
  BY <1>1
<1> HIDE DEF in, v
<1> QED BY <1>2, <1>3, <1>4, ArriveFields DEF ReadGet, At

LEMMA FetchKeeps ==
  ASSUME TypeInv, NEW r \in ReadReqs, FetchCursor(r) \/ PeekCursor(r)
  PROVE  /\ UNCHANGED docs /\ OthersSame(r)
         /\ FetchCursor(r) => req[r].pc = "fetch" /\ req'[r].pc = "bump"
         /\ PeekCursor(r) => req[r].pc = "peek" /\ req'[r].pc = "done"
         /\ req'[r].version = req[r].version /\ req'[r].ch = req[r].ch
         /\ req'[r].actor = req[r].actor /\ req'[r].seq = req[r].seq
         /\ req'[r].read = states[req[r].ch][req[r].actor]
<1>1. r \in Reqs /\ req \in [Reqs -> Request] /\ req[r] \in Request
  BY DEF Reqs, TypeInv, TypeOK
<1> QED BY <1>1 DEF FetchCursor, PeekCursor, Cursor, At, OthersSame, Request
-----------------------------------------------------------------------------
(* Versions *)

LEMMA InitVersions == Init => VersionsInv
<1> SUFFICES ASSUME Init PROVE VersionsInv
  OBVIOUS
<1>1. \A r \in Reqs : req[r].version = 0 /\ req[r].pc = "idle"
  BY DEF Init, Idle
<1>2. outbox = {}
  BY DEF Init
<1> QED BY <1>1, <1>2, InitTypeInv DEF VersionsInv, VersionInv, EventInv

\* A step that takes no version, whatever else its request does.
LEMMA VersionKept ==
  ASSUME VersionsInv, TypeInv', NEW r \in Reqs, OthersSame(r),
         req[r].pc # "done", req'[r].pc # "event",
         req[r].pc = "event" => req'[r].pc = "done",
         req'[r].version = req[r].version,
         req[r].pc # "idle" => req'[r].ch = req[r].ch,
         UNCHANGED outbox,
         \A c \in Channels : channels'[c].version >= channels[c].version
  PROVE  VersionsInv'
<1>1. /\ channels \in [Channels -> Channel] /\ channels' \in [Channels -> Channel]
      /\ req \in [Reqs -> Request] /\ req' \in [Reqs -> Request]
  BY DEF VersionsInv, TypeInv, TypeOK
<1>2. \A c \in Channels : channels[c].version \in Nat /\ channels'[c].version \in Nat
  BY <1>1 DEF Channel
<1>3. \A s \in Reqs : /\ req'[s].version = req[s].version /\ req[s].version \in Nat
                      /\ req[s].version > 0 => req'[s].ch = req[s].ch
  BY <1>1 DEF OthersSame, VersionsInv, VersionInv, Request
<1>4. VersionInv'
  <2>1. ASSUME NEW s \in Reqs
        PROVE  /\ req'[s].version > 0 => /\ req'[s].ch \in Channels
                                /\ req'[s].version <= channels'[req'[s].ch].version
               /\ req'[s].pc = "event" => req'[s].version > 0
               /\ req'[s].pc \notin {"event", "done"} => req'[s].version = 0
    BY <1>1, <1>2, <1>3 DEF VersionsInv, VersionInv, OthersSame
  <2>2. ASSUME NEW s \in Reqs, NEW t \in Reqs,
               req'[s].version > 0, req'[s].version = req'[t].version,
               req'[s].ch = req'[t].ch
        PROVE  s = t
    BY <1>3, <2>2 DEF VersionsInv, VersionInv
  <2> QED BY <2>1, <2>2 DEF VersionInv
<1>5. EventInv'
  <2>1. \A e \in outbox : e.id \in Reqs
    BY DEF VersionsInv, TypeInv, TypeOK, MessageEvent, CursorEvent, Reqs
  <2> QED BY <2>1 DEF VersionsInv, EventInv, OthersSame
<1> QED BY <1>4, <1>5 DEF VersionsInv

\* One that takes the next version of its channel.
LEMMA VersionTaken ==
  ASSUME VersionsInv, TypeInv', NEW r \in Reqs, req[r].pc \notin {"idle", "event", "done"},
         NEW ch, ch.version = channels[req[r].ch].version + 1, TakeVersion(r, ch),
         UNCHANGED outbox
  PROVE  VersionsInv'
<1>1. /\ channels \in [Channels -> Channel] /\ channels' \in [Channels -> Channel]
      /\ req \in [Reqs -> Request] /\ req' \in [Reqs -> Request]
      /\ req[r].ch \in Channels
  BY DEF VersionsInv, TypeInv, TypeOK, Addressed, UnderWay
<1>2. /\ req'[r].pc = "event" /\ req'[r].version = ch.version
      /\ req'[r].ch = req[r].ch /\ OthersSame(r)
  BY TakeVersionKeeps DEF VersionsInv, Kept
<1>3. /\ channels'[req[r].ch] = ch
      /\ \A c \in Channels : c # req[r].ch => channels'[c] = channels[c]
  BY <1>1 DEF TakeVersion
<1>4. \A c \in Channels : channels[c].version \in Nat
  BY <1>1 DEF Channel
<1>5. \A s \in Reqs : req[s].version \in Nat
  BY <1>1 DEF Request
<1>6. VersionInv'
  <2>1. ASSUME NEW s \in Reqs
        PROVE  /\ req'[s].version > 0 => /\ req'[s].ch \in Channels
                                /\ req'[s].version <= channels'[req'[s].ch].version
               /\ req'[s].pc = "event" => req'[s].version > 0
               /\ req'[s].pc \notin {"event", "done"} => req'[s].version = 0
    <3>1. CASE s = r
      BY <1>1, <1>2, <1>3, <1>4, <3>1
    <3>2. CASE s # r
      BY <1>1, <1>2, <1>3, <1>4, <1>5, <3>2 DEF VersionsInv, VersionInv, OthersSame
    <3> QED BY <3>1, <3>2
  <2>2. ASSUME NEW s \in Reqs, s # r, req'[s].version > 0, req'[s].ch = req[r].ch
        PROVE  req'[s].version # ch.version
    BY <1>1, <1>2, <1>4, <1>5, <2>2 DEF VersionsInv, VersionInv, OthersSame
  <2>3. ASSUME NEW s \in Reqs, NEW t \in Reqs,
               req'[s].version > 0, req'[s].version = req'[t].version,
               req'[s].ch = req'[t].ch
        PROVE  s = t
    BY <1>2, <2>2, <2>3 DEF VersionsInv, VersionInv, OthersSame
  <2> QED BY <2>1, <2>3 DEF VersionInv
<1>7. EventInv'
  <2>1. \A e \in outbox : e.id \in Reqs
    BY DEF VersionsInv, TypeInv, TypeOK, MessageEvent, CursorEvent, Reqs
  <2> QED BY <1>2, <2>1 DEF VersionsInv, EventInv, OthersSame
<1> QED BY <1>6, <1>7 DEF VersionsInv

\* One that writes the event.
LEMMA EventWritten ==
  ASSUME VersionsInv, TypeInv', NEW r \in Reqs, req[r].pc = "event", OthersSame(r),
         req'[r].pc = "done", req'[r].version = req[r].version, req'[r].ch = req[r].ch,
         NEW e, outbox' = outbox \cup {e},
         e.id = r, e.version = req[r].version, e.ch = req[r].ch,
         UNCHANGED channels
  PROVE  VersionsInv'
<1>1. VersionInv'
  BY DEF VersionsInv, VersionInv, OthersSame
<1>2. \A f \in outbox : f.id \in Reqs /\ f.id # r
  BY DEF VersionsInv, TypeInv, TypeOK, MessageEvent, CursorEvent, Reqs, EventInv
<1>3. e.version > 0
  BY DEF VersionsInv, VersionInv
<1>4. EventInv'
  BY <1>2, <1>3 DEF VersionsInv, EventInv, OthersSame
<1> QED BY <1>1, <1>4 DEF VersionsInv

LEMMA InsertKeeps ==
  ASSUME TypeInv, NEW r \in MsgIds, Insert(r), ~Goto(r, "relookup")
  PROVE  /\ req[r].pc = "insert" /\ req'[r].pc = "summary" /\ OthersSame(r)
         /\ req'[r].status = req[r].status /\ req'[r].version = req[r].version
         /\ req'[r].ch = req[r].ch /\ req'[r].seq = req[r].seq
         /\ req'[r].doc = Candidate(r) /\ req'[r].key = req[r].key
         /\ ~SeqTaken(r) /\ messages' = [messages EXCEPT ![r] = Candidate(r)]
         /\ UNCHANGED <<channels, states, outbox>>
<1>1. r \in Reqs /\ req \in [Reqs -> Request] /\ req[r] \in Request
  BY DEF Reqs, TypeInv, TypeOK
<1> DEFINE d == Candidate(r)
<1>2. /\ messages' = [messages EXCEPT ![r] = d]
      /\ req' = [req EXCEPT ![r].pc = "summary", ![r].doc = d]
      /\ ~SeqTaken(r)
  BY DEF Insert
<1> HIDE DEF d
<1>3. /\ req'[r].pc = "summary" /\ req'[r].doc = d /\ req'[r].status = req[r].status
      /\ req'[r].version = req[r].version /\ req'[r].ch = req[r].ch
      /\ req'[r].seq = req[r].seq /\ req'[r].key = req[r].key /\ OthersSame(r)
  BY <1>1, <1>2 DEF OthersSame, Request
<1> QED BY <1>2, <1>3 DEF Insert, At, d

LEMMA CreatedEventKeeps ==
  ASSUME TypeInv, NEW r \in MsgIds, CreatedEvent(r)
  PROVE  /\ req[r].pc = "event" /\ req'[r].pc = "done" /\ OthersSame(r)
         /\ req'[r].status = "created" /\ req'[r].version = req[r].version
         /\ req'[r].ch = req[r].ch /\ req'[r].seq = req[r].seq
         /\ req'[r].doc = req[r].doc /\ req'[r].key = req[r].key
<1>1. r \in Reqs /\ req \in [Reqs -> Request] /\ req[r] \in Request
  BY DEF Reqs, TypeInv, TypeOK
<1> QED BY <1>1 DEF CreatedEvent, At, OthersSame, Request

\* The three ways to take a version, each with the next one of the channel.
LEMMA BumpFields ==
  ASSUME TypeInv, NEW r \in Reqs, UnderWay(r)
  PROVE  LET ch == channels[req[r].ch] IN
         /\ ch \in Channel /\ ch.version \in Nat
         /\ [ch EXCEPT !.version = @ + 1].version = ch.version + 1
         /\ [ch EXCEPT !.version = @ + 1].lastSeq = ch.lastSeq
         /\ [ch EXCEPT !.version = @ + 1].lastMsg = ch.lastMsg
         /\ r \in MsgIds => Summarized(ch, r).version = ch.version + 1
<1>1. channels[req[r].ch] \in Channel
  BY DEF TypeInv, TypeOK, Addressed
<1>2. r \in MsgIds => Summarized(channels[req[r].ch], r).version
                        = channels[req[r].ch].version + 1
  BY <1>1, SummarizedFields DEF TypeInv, TypeOK, Request
<1> DEFINE ch == channels[req[r].ch]
           n == ch.version + 1
<1>3. ch.version \in Nat /\ [ch EXCEPT !.version = @ + 1] = [ch EXCEPT !.version = n]
  BY <1>1 DEF Channel
<1>4. /\ [ch EXCEPT !.version = n].version = n
      /\ [ch EXCEPT !.version = n].lastSeq = ch.lastSeq
      /\ [ch EXCEPT !.version = n].lastMsg = ch.lastMsg
  <2> HIDE DEF n
  <2> QED BY <1>1 DEF Channel
<1> QED BY <1>1, <1>2, <1>3, <1>4

LEMMA SendVersions ==
  ASSUME VersionsInv, TypeInv', NEW r \in MsgIds, Send(r)
  PROVE  VersionsInv'
<1>1. TypeInv /\ r \in Reqs /\ \A c \in Channels : channels[c].version \in Nat
  BY DEF VersionsInv, TypeInv, TypeOK, Channel, Reqs
<1>2. CASE PostingRead(r)
  BY <1>1, <1>2, VersionKept DEF PostingRead, docs
<1>3. CASE Insert(r) /\ ~Goto(r, "relookup")
  BY <1>1, <1>3, InsertKeeps, VersionKept
<1>4. CASE Summary(r)
  <2>1. CASE Goto(r, "undo") /\ UNCHANGED channels
    BY <1>1, <1>4, <2>1, GotoKeeps, VersionKept DEF Summary, At, Kept
  <2>2. CASE TakeVersion(r, Summarized(channels[req[r].ch], r))
    <3>1. UnderWay(r) /\ UNCHANGED outbox /\ req[r].pc \notin {"idle", "event", "done"}
      BY <1>4 DEF Summary, At, UnderWay
    <3>2. Summarized(channels[req[r].ch], r).version = channels[req[r].ch].version + 1
      BY <1>1, <3>1, BumpFields
    <3> QED BY <1>1, <2>2, <3>1, <3>2, VersionTaken
  <2> QED BY <1>4, <2>1, <2>2 DEF Summary
<1>5. CASE Undo(r)
  BY <1>1, <1>5, AnswerKeeps, VersionKept DEF Undo, At, Kept
<1>6. CASE CreatedEvent(r)
  <2>1. /\ outbox' = outbox \cup {MessagePayload(r, "created", r)}
        /\ UNCHANGED channels
    BY <1>6 DEF CreatedEvent
  <2>2. /\ MessagePayload(r, "created", r).id = r
        /\ MessagePayload(r, "created", r).version = req[r].version
        /\ MessagePayload(r, "created", r).ch = req[r].ch
    BY DEF MessagePayload
  <2> QED BY <1>1, <1>6, <2>1, <2>2, CreatedEventKeeps, EventWritten
<1>7. CASE Insert(r) /\ Goto(r, "relookup")
  <2>1. UNCHANGED messages
    <3>1. req'[r].pc = "relookup"
      BY <1>1, <1>7, GotoKeeps
    <3>2. CASE req' = [req EXCEPT ![r].pc = "summary", ![r].doc = Candidate(r)]
      <4>1. req'[r].pc = "summary"
        BY <1>1, <3>2 DEF TypeInv, TypeOK, Request
      <4> QED BY <3>1, <4>1
    <3> QED BY <1>7, <3>2 DEF Insert
  <2>2. PostingRead(r)
    BY <1>1, <1>7, <2>1, PostingReads
  <2> QED BY <1>2, <2>2
<1> QED BY <1>1, <1>2, <1>3, <1>4, <1>5, <1>6, <1>7, PostingReads DEF Send

LEMMA ReviseVersions ==
  ASSUME VersionsInv, TypeInv', NEW r \in ReviseReqs, Revise(r)
  PROVE  VersionsInv'
<1>1. TypeInv /\ r \in Reqs /\ \A c \in Channels : channels[c].version \in Nat
  BY DEF VersionsInv, TypeInv, TypeOK, Channel, Reqs
<1>2. CASE ReviseRefused(r)
  BY <1>1, <1>2, AnswerKeeps, VersionKept DEF ReviseRefused, At, Kept, docs
<1>3. CASE ReviseGet(r)
  <2>1. /\ req[r].pc = "idle" /\ req'[r].pc = "authorize" /\ OthersSame(r)
        /\ req'[r].version = req[r].version /\ UNCHANGED docs
    BY <1>1, <1>3, ReviseGetKeeps DEF ReviseGet
  <2> QED BY <1>1, <2>1, VersionKept DEF docs
<1>4. CASE Authorize(r)
  <2>1. UNCHANGED docs /\ req[r].pc = "authorize"
    BY <1>4 DEF Authorize, At
  <2>2. /\ req'[r].pc \in {"cas", "done"} /\ req'[r].version = req[r].version
        /\ req'[r].ch = req[r].ch /\ OthersSame(r)
    BY <1>1, <1>4, AnswerKeeps, GotoKeeps DEF Authorize, Kept
  <2> QED BY <1>1, <2>1, <2>2, VersionKept DEF docs
<1>5. CASE CompareAndSet(r) /\ Unchanged(r)
  BY <1>1, <1>5, CompareAndSetKeeps, VersionKept
<1>6. CASE CompareAndSet(r) /\ ~Unchanged(r)
  <2>1. Answer(r, "conflict") /\ UNCHANGED <<channels, outbox>> /\ req[r].pc = "cas"
    BY <1>6 DEF CompareAndSet, At
  <2> QED BY <1>1, <2>1, AnswerKeeps, VersionKept DEF Kept
<1>7. CASE ReviseBump(r)
  <2>1. CASE Answer(r, "not_found") /\ UNCHANGED channels
    BY <1>1, <1>7, <2>1, AnswerKeeps, VersionKept DEF ReviseBump, At, Kept
  <2>2. CASE TakeVersion(r, [channels[req[r].ch] EXCEPT !.version = @ + 1])
    <3>1. UnderWay(r) /\ UNCHANGED outbox /\ req[r].pc \notin {"idle", "event", "done"}
      BY <1>7 DEF ReviseBump, At, UnderWay
    <3> QED BY <1>1, <2>2, <3>1, BumpFields, VersionTaken
  <2> QED BY <1>7, <2>1, <2>2 DEF ReviseBump
<1>8. CASE RevisedEvent(r)
  <2>1. PICK t \in {"updated", "recalled"} :
          outbox' = outbox \cup {MessagePayload(r, t, req[r].msg)}
    BY <1>8 DEF RevisedEvent
  <2>2. Answer(r, "revised") /\ req[r].pc = "event" /\ UNCHANGED channels
    BY <1>8 DEF RevisedEvent, At
  <2>3. /\ MessagePayload(r, t, req[r].msg).id = r
        /\ MessagePayload(r, t, req[r].msg).version = req[r].version
        /\ MessagePayload(r, t, req[r].msg).ch = req[r].ch
    BY DEF MessagePayload
  <2> QED BY <1>1, <2>1, <2>2, <2>3, AnswerKeeps, EventWritten DEF Kept
<1> QED BY <1>2, <1>3, <1>4, <1>5, <1>6, <1>7, <1>8 DEF Revise

LEMMA ReadVersions ==
  ASSUME VersionsInv, TypeInv', NEW r \in ReadReqs, Read(r)
  PROVE  VersionsInv'
<1>1. TypeInv /\ r \in Reqs /\ \A c \in Channels : channels[c].version \in Nat
  BY DEF VersionsInv, TypeInv, TypeOK, Channel, Reqs
<1>2. CASE ReadGet(r)
  BY <1>1, <1>2, ReadGetKeeps, VersionKept DEF docs
<1>3. CASE UpdateCursor(r) \/ UpsertCursor(r)
  <2>1. /\ UNCHANGED <<channels, outbox>> /\ req[r].pc \in {"update", "upsert"}
        /\ \E p \in {"fetch", "upsert", "peek"} : Goto(r, p)
    BY <1>3 DEF UpdateCursor, UpsertCursor, At
  <2> QED BY <1>1, <2>1, GotoKeeps, VersionKept DEF Kept
<1>4. CASE FetchCursor(r) \/ PeekCursor(r)
  <2>1. /\ req[r].pc \in {"fetch", "peek"} /\ req'[r].pc \in {"bump", "done"}
        /\ UNCHANGED <<channels, outbox>>
        /\ req'[r].version = req[r].version /\ req'[r].ch = req[r].ch /\ OthersSame(r)
    BY <1>1, <1>4, FetchKeeps DEF docs
  <2> QED BY <1>1, <2>1, VersionKept
<1>5. CASE ReadBump(r)
  <2>1. CASE Answer(r, "not_found") /\ UNCHANGED channels
    BY <1>1, <1>5, <2>1, AnswerKeeps, VersionKept DEF ReadBump, At, Kept
  <2>2. CASE TakeVersion(r, [channels[req[r].ch] EXCEPT !.version = @ + 1])
    <3>1. UnderWay(r) /\ UNCHANGED outbox /\ req[r].pc \notin {"idle", "event", "done"}
      BY <1>5 DEF ReadBump, At, UnderWay
    <3> QED BY <1>1, <2>2, <3>1, BumpFields, VersionTaken
  <2> QED BY <1>5, <2>1, <2>2 DEF ReadBump
<1>6. CASE AdvancedEvent(r)
  <2> DEFINE e == [id |-> r, type |-> "read", ch |-> req[r].ch,
                   version |-> req[r].version, user |-> req[r].actor,
                   lastRead |-> req[r].read]
  <2>1. /\ outbox' = outbox \cup {e} /\ Answer(r, "advanced") /\ UNCHANGED channels
        /\ req[r].pc = "event"
    BY <1>6 DEF AdvancedEvent, At
  <2>2. e.id = r /\ e.version = req[r].version /\ e.ch = req[r].ch
    OBVIOUS
  <2> HIDE DEF e
  <2> QED BY <1>1, <2>1, <2>2, AnswerKeeps, EventWritten DEF Kept
<1> QED BY <1>2, <1>3, <1>4, <1>5, <1>6 DEF Read

LEMMA StepVersions == VersionsInv /\ [Next]_vars => VersionsInv'
<1> SUFFICES ASSUME VersionsInv, [Next]_vars PROVE VersionsInv'
  OBVIOUS
<1>1. TypeInv /\ TypeInv'
  BY StepTypeInv DEF VersionsInv
<1>2. CASE UNCHANGED vars
  BY <1>1, <1>2 DEF vars, VersionsInv, VersionInv, EventInv
<1>3. ASSUME NEW r \in Reqs, Abort(r) PROVE VersionsInv'
  <2>1. \A c \in Channels : channels[c].version \in Nat
    BY <1>1 DEF TypeInv, TypeOK, Channel
  <2> QED BY <1>1, <1>3, <2>1, AnswerKeeps, VersionKept DEF Abort, Kept, docs
<1>4. ASSUME NEW c \in Channels, Deactivate(c) PROVE VersionsInv'
  <2>1. \A d \in Channels : channels'[d].version = channels[d].version
    BY <1>1, <1>4 DEF Deactivate, TypeInv, TypeOK, Channel
  <2> QED BY <1>1, <1>4, <2>1 DEF Deactivate, VersionsInv, VersionInv, EventInv
<1> QED
  BY <1>1, <1>2, <1>3, <1>4, SendVersions, ReviseVersions, ReadVersions DEF Next

LEMMA VersionsInvariant == Spec => []VersionsInv
  BY InitVersions, StepVersions, PTL DEF Spec

\* However the requests interleave and fail, no two events of a channel have
\* one version and none is above the channel's (message.repo.go:120-137,
\* 256-270, 353-370).
THEOREM DistinctVersions == Spec => []VersionsDistinct
<1>1. VersionsInv => VersionsDistinct
  <2> SUFFICES ASSUME VersionsInv, NEW e \in outbox
               PROVE  /\ e.version \in 1..channels[e.ch].version
                      /\ \A f \in outbox : e.ch = f.ch /\ e.version = f.version => e = f
    BY DEF VersionsDistinct
  <2>1. \A f \in outbox : f.id \in Reqs /\ f.version \in Nat /\ f.ch \in Channels
    BY DEF VersionsInv, TypeInv, TypeOK, MessageEvent, CursorEvent, Reqs
  <2>2. channels[e.ch].version \in Nat
    BY <2>1 DEF VersionsInv, TypeInv, TypeOK, Channel
  <2>3. ASSUME NEW f \in outbox, e.ch = f.ch, e.version = f.version PROVE e = f
    <3>1. e.id = f.id
      BY <2>1, <2>3 DEF VersionsInv, EventInv, VersionInv
    <3> QED BY <3>1 DEF VersionsInv, EventInv
  <2>4. e.version > 0 /\ e.version <= channels[e.ch].version
    BY <2>1 DEF VersionsInv, EventInv, VersionInv
  <2> QED BY <2>1, <2>2, <2>3, <2>4
<1> QED BY <1>1, VersionsInvariant, PTL
-----------------------------------------------------------------------------
(* What a step does to the documents and to the other requests *)

\* A message is inserted by its own request, withdrawn by it, or revised while
\* it is not recalled.
MessageStep(m) ==
  \/ messages'[m] = messages[m]
  \/ m \notin Stored /\ req[m].pc = "insert"
  \/ /\ req[m].pc = "undo" /\ req'[m].pc = "done"
     /\ m \in Stored /\ messages'[m] = NoDoc
  \/ /\ m \in Stored /\ ~messages[m].recalled
     /\ messages'[m].seq = messages[m].seq /\ messages'[m].ch = messages[m].ch
     /\ messages'[m].rev = messages[m].rev + 1

ChannelStep(c) ==
  /\ channels'[c].lastSeq >= channels[c].lastSeq
  /\ channels'[c].version >= channels[c].version
  /\ channels'[c].lastMsg # channels[c].lastMsg
       => channels'[c].lastSeq > channels[c].lastSeq
  /\ channels'[c].active => channels[c].active

StateStep(c, u) == states'[c][u] >= states[c][u]

DocsStep ==
  /\ \A m \in MsgIds : MessageStep(m)
  /\ \A c \in Channels : ChannelStep(c)
  /\ \A c \in Channels : \A u \in Users : StateStep(c, u)

LEMMA SameMessagesStep ==
  UNCHANGED messages => \A m \in MsgIds : MessageStep(m)
  BY DEF MessageStep

LEMMA SameChannelsStep ==
  ASSUME TypeInv, UNCHANGED channels
  PROVE  \A c \in Channels : ChannelStep(c)
  BY DEF ChannelStep, TypeInv, TypeOK, Channel

LEMMA SameStatesStep ==
  ASSUME TypeInv, UNCHANGED states
  PROVE  \A c \in Channels : \A u \in Users : StateStep(c, u)
  BY DEF StateStep, TypeInv, TypeOK

LEMMA SameDocsStep ==
  ASSUME TypeInv, UNCHANGED docs
  PROVE  DocsStep
  BY SameMessagesStep, SameChannelsStep, SameStatesStep DEF DocsStep, docs

LEMMA InsertedStep ==
  ASSUME HistoryInv, NEW r \in MsgIds, Insert(r), ~Goto(r, "relookup")
  PROVE  DocsStep /\ r \notin Stored
<1>1. TypeInv /\ SendReqInv(r) /\ messages \in [MsgIds -> Message]
  BY DEF HistoryInv, TypeInv, TypeOK
<1>2. /\ req[r].pc = "insert" /\ messages' = [messages EXCEPT ![r] = Candidate(r)]
      /\ UNCHANGED <<channels, states>>
  BY <1>1, InsertKeeps
<1>3. r \notin Stored
  BY <1>1, <1>2 DEF SendReqInv, Owned
<1>4. \A m \in MsgIds : MessageStep(m)
  BY <1>1, <1>2, <1>3 DEF MessageStep
<1> QED BY <1>1, <1>2, <1>3, <1>4, SameChannelsStep, SameStatesStep DEF DocsStep

LEMMA WithdrawnStep ==
  ASSUME HistoryInv, NEW r \in MsgIds, Undo(r)
  PROVE  DocsStep
<1>1. TypeInv /\ SendReqInv(r) /\ messages \in [MsgIds -> Message] /\ r \in Reqs
  BY DEF HistoryInv, TypeInv, TypeOK, Reqs
<1>2. /\ req[r].pc = "undo" /\ messages' \in {messages, [messages EXCEPT ![r] = NoDoc]}
      /\ UNCHANGED <<channels, states>> /\ Answer(r, "not_found")
  BY DEF Undo, At
<1>3. r \in Stored /\ req'[r].pc = "done"
  BY <1>1, <1>2, AnswerKeeps DEF SendReqInv, Owned
<1>4. \A m \in MsgIds : MessageStep(m)
  BY <1>1, <1>2, <1>3 DEF MessageStep
<1> QED BY <1>1, <1>2, <1>4, SameChannelsStep, SameStatesStep DEF DocsStep

LEMMA RevisedStep ==
  ASSUME TypeInv, NEW r \in ReviseReqs, CompareAndSet(r), Unchanged(r)
  PROVE  DocsStep
<1> DEFINE m == req[r].msg
           new == Revised(r, messages[m])
<1>1. messages \in [MsgIds -> Message]
  BY DEF TypeInv, TypeOK
<1>2. /\ messages' = [messages EXCEPT ![m] = new]
      /\ UNCHANGED <<channels, states>>
  BY CompareAndSetKeeps
<1>3. m \in Stored /\ m \in MsgIds /\ ~messages[m].recalled
  BY DEF Unchanged, Stored
<1>4. /\ new.seq = messages[m].seq /\ new.ch = messages[m].ch
      /\ new.rev = messages[m].rev + 1
  BY <1>1, <1>3, RevisedFields
<1> HIDE DEF new
<1>5. \A n \in MsgIds : MessageStep(n)
  BY <1>1, <1>2, <1>3, <1>4 DEF MessageStep
<1> QED BY <1>2, <1>5, SameChannelsStep, SameStatesStep DEF DocsStep

\* The channel of a request is written with ch, which is not behind it.
LEMMA ChannelWritten ==
  ASSUME TypeInv, NEW r \in Reqs, UnderWay(r), UNCHANGED <<messages, states>>, NEW ch,
         channels' = [channels EXCEPT ![req[r].ch] = ch],
         LET old == channels[req[r].ch] IN
           /\ ch.lastSeq >= old.lastSeq /\ ch.version >= old.version
           /\ ch.lastMsg # old.lastMsg => ch.lastSeq > old.lastSeq
           /\ ch.active => old.active
  PROVE  DocsStep
<1>1. channels \in [Channels -> Channel] /\ req[r].ch \in Channels
  BY DEF TypeInv, TypeOK, Addressed
<1>2. \A c \in Channels : ChannelStep(c)
  <2>1. \A c \in Channels : channels'[c] = IF c = req[r].ch THEN ch ELSE channels[c]
    BY <1>1
  <2>2. \A c \in Channels : channels[c].lastSeq >= channels[c].lastSeq
                            /\ channels[c].version >= channels[c].version
    BY <1>1 DEF Channel
  <2> QED BY <2>1, <2>2 DEF ChannelStep
<1> QED BY <1>2, SameMessagesStep, SameStatesStep DEF DocsStep

LEMMA SummarizedStep ==
  ASSUME TypeInv, NEW r \in MsgIds, Summary(r)
  PROVE  DocsStep
<1>1. CASE UNCHANGED channels
  BY <1>1, SameDocsStep DEF Summary, docs
<1>2. CASE TakeVersion(r, Summarized(channels[req[r].ch], r))
  <2>1. r \in Reqs /\ UnderWay(r) /\ UNCHANGED <<messages, states>>
    BY DEF Summary, At, UnderWay, Reqs
  <2> DEFINE old == channels[req[r].ch]
             ch == Summarized(old, r)
  <2>2. old \in Channel /\ req[r].seq \in Nat
    BY <2>1 DEF TypeInv, TypeOK, Addressed, Request
  <2>3. /\ ch.active = old.active /\ ch.version = old.version + 1
        /\ old.lastSeq < req[r].seq  => ch.lastSeq = req[r].seq /\ ch.lastMsg = r
        /\ ~(old.lastSeq < req[r].seq) => /\ ch.lastSeq = old.lastSeq
                                          /\ ch.lastMsg = old.lastMsg
    BY <2>2, SummarizedFields
  <2>4. channels' = [channels EXCEPT ![req[r].ch] = ch]
    BY <1>2 DEF TakeVersion
  <2> HIDE DEF ch
  <2>5. /\ ch.lastSeq >= old.lastSeq /\ ch.version >= old.version
        /\ ch.lastMsg # old.lastMsg => ch.lastSeq > old.lastSeq
        /\ ch.active => old.active
    BY <2>2, <2>3 DEF Channel
  <2> HIDE DEF old
  <2> QED BY <2>1, <2>4, <2>5, ChannelWritten DEF old
<1> QED BY <1>1, <1>2 DEF Summary

LEMMA BumpedStep ==
  ASSUME TypeInv, NEW r \in Reqs, UnderWay(r), UNCHANGED <<messages, states>>,
         TakeVersion(r, [channels[req[r].ch] EXCEPT !.version = @ + 1])
  PROVE  DocsStep
<1> DEFINE old == channels[req[r].ch]
           ch == [old EXCEPT !.version = @ + 1]
<1>1. old \in Channel
  BY DEF TypeInv, TypeOK, Addressed
<1>2. /\ ch.lastSeq = old.lastSeq /\ ch.version = old.version + 1
      /\ ch.lastMsg = old.lastMsg /\ ch.active = old.active
  BY <1>1 DEF Channel
<1>3. channels' = [channels EXCEPT ![req[r].ch] = ch]
  BY DEF TakeVersion
<1> HIDE DEF ch
<1>4. /\ ch.lastSeq >= old.lastSeq /\ ch.version >= old.version
  BY <1>1, <1>2 DEF Channel
<1> QED BY <1>2, <1>3, <1>4, ChannelWritten

LEMMA CursorStep ==
  ASSUME TypeInv, NEW r \in ReadReqs, UpdateCursor(r) \/ UpsertCursor(r)
  PROVE  /\ DocsStep
         /\ req'[r].pc = "fetch" => states'[req[r].ch][req[r].actor] = req[r].seq
<1>1. /\ r \in Reqs /\ UnderWay(r) /\ UNCHANGED <<messages, channels, outbox>>
      /\ states \in [Channels -> [Users -> Nat]] /\ req[r].seq \in Nat
      /\ req[r].ch \in Channels /\ req[r].actor \in Users
  BY DEF UpdateCursor, UpsertCursor, At, UnderWay, Reqs, TypeInv, TypeOK, Addressed, Request
<1>2. CASE UNCHANGED states /\ req'[r].pc # "fetch"
  BY <1>1, <1>2, SameDocsStep DEF docs
<1>3. CASE SetCursor(r) /\ states[req[r].ch][req[r].actor] <= req[r].seq
  <2>1. \A c \in Channels : \A u \in Users :
          states'[c][u] = IF c = req[r].ch /\ u = req[r].actor
                          THEN req[r].seq ELSE states[c][u]
    BY <1>1, <1>3, SetCursorType
  <2>2. \A c \in Channels : \A u \in Users : states[c][u] \in Nat
    BY <1>1
  <2>3. \A c \in Channels : \A u \in Users : StateStep(c, u)
    BY <1>3, <2>1, <2>2 DEF StateStep
  <2> QED BY <1>1, <2>1, <2>3, SameMessagesStep, SameChannelsStep DEF DocsStep
<1>4. states[req[r].ch][req[r].actor] \in Nat
  BY <1>1
<1>5. CASE SetCursor(r) /\ (Behind(r) \/ Cursor(r) = 0)
  BY <1>1, <1>3, <1>4, <1>5 DEF Behind, Cursor
<1>6. CASE UNCHANGED states /\ (Goto(r, "upsert") \/ Goto(r, "peek"))
  <2>1. req'[r].pc # "fetch"
    BY <1>1, <1>6, GotoKeeps
  <2> QED BY <1>2, <1>6, <2>1
<1>7. \/ SetCursor(r) /\ (Behind(r) \/ Cursor(r) = 0)
      \/ UNCHANGED states /\ (Goto(r, "upsert") \/ Goto(r, "peek"))
  BY DEF UpdateCursor, UpsertCursor
<1> QED BY <1>5, <1>6, <1>7

\* Whatever a step does, the request that takes it was not done, and the
\* others stay as they are.
Steps(r) == OthersSame(r) /\ req[r].pc # "done" /\ DocsStep

LEMMA SendSteps ==
  ASSUME HistoryInv, NEW r \in MsgIds, Send(r)
  PROVE  Steps(r)
<1>1. TypeInv /\ r \in Reqs
  BY DEF HistoryInv, Reqs
<1>2. CASE PostingRead(r)
  BY <1>1, <1>2, SameDocsStep DEF PostingRead, Steps
<1>3. CASE Insert(r) /\ ~Goto(r, "relookup")
  <2>1. OthersSame(r) /\ req[r].pc = "insert"
    BY <1>1, <1>3, InsertKeeps
  <2> QED BY <1>1, <1>3, <2>1, InsertedStep DEF Steps
<1>4. CASE Summary(r)
  <2>1. CASE Goto(r, "undo")
    BY <1>1, <1>4, <2>1, SummarizedStep, GotoKeeps DEF Steps, Summary, At
  <2>2. CASE TakeVersion(r, Summarized(channels[req[r].ch], r))
    <3>1. OthersSame(r)
      BY <1>1, <2>2, TakeVersionKeeps
    <3> QED BY <1>1, <1>4, <3>1, SummarizedStep DEF Steps, Summary, At
  <2> QED BY <1>4, <2>1, <2>2 DEF Summary
<1>5. CASE Undo(r)
  BY <1>1, <1>5, WithdrawnStep, AnswerKeeps DEF Undo, At, Steps
<1>6. CASE CreatedEvent(r)
  <2>1. /\ OthersSame(r) /\ req[r].pc = "event"
        /\ UNCHANGED <<messages, channels, states>>
    BY <1>1, <1>6, CreatedEventKeeps DEF CreatedEvent
  <2> QED BY <1>1, <2>1, SameMessagesStep, SameChannelsStep, SameStatesStep
          DEF Steps, DocsStep
<1>7. CASE Insert(r) /\ Goto(r, "relookup")
  <2>1. UNCHANGED messages
    <3>1. req'[r].pc = "relookup"
      BY <1>1, <1>7, GotoKeeps
    <3>2. CASE req' = [req EXCEPT ![r].pc = "summary", ![r].doc = Candidate(r)]
      <4>1. req'[r].pc = "summary"
        BY <1>1, <3>2 DEF TypeInv, TypeOK, Request
      <4> QED BY <3>1, <4>1
    <3> QED BY <1>7, <3>2 DEF Insert
  <2>2. PostingRead(r)
    BY <1>1, <1>7, <2>1, PostingReads
  <2> QED BY <1>2, <2>2
<1> QED BY <1>1, <1>2, <1>3, <1>4, <1>5, <1>6, <1>7, PostingReads DEF Send

LEMMA ReviseSteps ==
  ASSUME HistoryInv, NEW r \in ReviseReqs, Revise(r)
  PROVE  Steps(r)
<1>1. TypeInv /\ r \in Reqs
  BY DEF HistoryInv, Reqs
<1>2. CASE ReviseRefused(r)
  <2>1. UNCHANGED docs /\ OthersSame(r) /\ req[r].pc = "idle"
    BY <1>1, <1>2, AnswerKeeps DEF ReviseRefused, At
  <2> QED BY <1>1, <2>1, SameDocsStep DEF Steps
<1>3. CASE ReviseGet(r)
  <2>1. UNCHANGED docs /\ OthersSame(r) /\ req[r].pc = "idle"
    BY <1>1, <1>3, ReviseGetKeeps DEF ReviseGet
  <2> QED BY <1>1, <2>1, SameDocsStep DEF Steps
<1>4. CASE Authorize(r)
  <2>1. UNCHANGED docs /\ OthersSame(r) /\ req[r].pc = "authorize"
    BY <1>1, <1>4, AnswerKeeps, GotoKeeps DEF Authorize, At
  <2> QED BY <1>1, <2>1, SameDocsStep DEF Steps
<1>5. CASE CompareAndSet(r) /\ Unchanged(r)
  <2>1. OthersSame(r) /\ req[r].pc = "cas"
    BY <1>1, <1>5, CompareAndSetKeeps
  <2> QED BY <1>1, <1>5, <2>1, RevisedStep DEF Steps
<1>6. CASE CompareAndSet(r) /\ ~Unchanged(r)
  <2>1. Answer(r, "conflict") /\ UNCHANGED <<messages, channels, states>> /\ req[r].pc = "cas"
    BY <1>6 DEF CompareAndSet, At
  <2>2. OthersSame(r)
    BY <1>1, <2>1, AnswerKeeps
  <2> QED BY <1>1, <2>1, <2>2, SameMessagesStep, SameChannelsStep, SameStatesStep
          DEF Steps, DocsStep
<1>7. CASE ReviseBump(r)
  <2>1. CASE Answer(r, "not_found") /\ UNCHANGED channels
    <3>1. UNCHANGED docs /\ OthersSame(r) /\ req[r].pc = "bump"
      BY <1>1, <1>7, <2>1, AnswerKeeps DEF ReviseBump, At, docs
    <3> QED BY <1>1, <3>1, SameDocsStep DEF Steps
  <2>2. CASE TakeVersion(r, [channels[req[r].ch] EXCEPT !.version = @ + 1])
    <3>1. UnderWay(r) /\ UNCHANGED <<messages, states>> /\ req[r].pc = "bump"
      BY <1>7 DEF ReviseBump, At, UnderWay
    <3>2. OthersSame(r)
      BY <1>1, <2>2, TakeVersionKeeps
    <3> QED BY <1>1, <2>2, <3>1, <3>2, BumpedStep DEF Steps
  <2> QED BY <1>7, <2>1, <2>2 DEF ReviseBump
<1>8. CASE RevisedEvent(r)
  <2>1. Answer(r, "revised") /\ UNCHANGED <<messages, channels, states>> /\ req[r].pc = "event"
    BY <1>8 DEF RevisedEvent, At
  <2>2. OthersSame(r)
    BY <1>1, <2>1, AnswerKeeps
  <2> QED BY <1>1, <2>1, <2>2, SameMessagesStep, SameChannelsStep, SameStatesStep
          DEF Steps, DocsStep
<1> QED BY <1>2, <1>3, <1>4, <1>5, <1>6, <1>7, <1>8 DEF Revise

LEMMA ReadSteps ==
  ASSUME HistoryInv, NEW r \in ReadReqs, Read(r)
  PROVE  Steps(r)
<1>1. TypeInv /\ r \in Reqs
  BY DEF HistoryInv, Reqs
<1>2. CASE ReadGet(r)
  <2>1. UNCHANGED docs /\ OthersSame(r) /\ req[r].pc = "idle"
    BY <1>1, <1>2, ReadGetKeeps
  <2> QED BY <1>1, <2>1, SameDocsStep DEF Steps
<1>3. CASE UpdateCursor(r) \/ UpsertCursor(r)
  <2>1. /\ req[r].pc # "done" /\ \E p \in {"fetch", "upsert", "peek"} : Goto(r, p)
    BY <1>3 DEF UpdateCursor, UpsertCursor, At
  <2>2. OthersSame(r)
    BY <1>1, <2>1, GotoKeeps
  <2> QED BY <1>1, <1>3, <2>1, <2>2, CursorStep DEF Steps
<1>4. CASE FetchCursor(r) \/ PeekCursor(r)
  <2>1. UNCHANGED docs /\ OthersSame(r) /\ req[r].pc # "done"
    BY <1>1, <1>4, FetchKeeps
  <2> QED BY <1>1, <2>1, SameDocsStep DEF Steps
<1>5. CASE ReadBump(r)
  <2>1. CASE Answer(r, "not_found") /\ UNCHANGED channels
    <3>1. UNCHANGED docs /\ OthersSame(r) /\ req[r].pc = "bump"
      BY <1>1, <1>5, <2>1, AnswerKeeps DEF ReadBump, At, docs
    <3> QED BY <1>1, <3>1, SameDocsStep DEF Steps
  <2>2. CASE TakeVersion(r, [channels[req[r].ch] EXCEPT !.version = @ + 1])
    <3>1. UnderWay(r) /\ UNCHANGED <<messages, states>> /\ req[r].pc = "bump"
      BY <1>5 DEF ReadBump, At, UnderWay
    <3>2. OthersSame(r)
      BY <1>1, <2>2, TakeVersionKeeps
    <3> QED BY <1>1, <2>2, <3>1, <3>2, BumpedStep DEF Steps
  <2> QED BY <1>5, <2>1, <2>2 DEF ReadBump
<1>6. CASE AdvancedEvent(r)
  <2>1. Answer(r, "advanced") /\ UNCHANGED <<messages, channels, states>> /\ req[r].pc = "event"
    BY <1>6 DEF AdvancedEvent, At
  <2>2. OthersSame(r)
    BY <1>1, <2>1, AnswerKeeps
  <2> QED BY <1>1, <2>1, <2>2, SameMessagesStep, SameChannelsStep, SameStatesStep
          DEF Steps, DocsStep
<1> QED BY <1>2, <1>3, <1>4, <1>5, <1>6 DEF Read

LEMMA DeactivateSteps ==
  ASSUME TypeInv, NEW c \in Channels, Deactivate(c)
  PROVE  DocsStep /\ UNCHANGED req
<1>1. channels \in [Channels -> Channel]
  BY DEF TypeInv, TypeOK
<1>2. \A d \in Channels : ChannelStep(d)
  BY <1>1 DEF Deactivate, ChannelStep, Channel
<1> QED BY <1>2, SameMessagesStep, SameStatesStep DEF DocsStep, Deactivate

\* Every step moves the documents forward, and a request that is done stays so.
LEMMA NextSteps ==
  ASSUME HistoryInv, [Next]_vars
  PROVE  /\ DocsStep
         /\ \A r \in Reqs : req[r].pc = "done" => req'[r] = req[r]
<1>1. TypeInv
  BY DEF HistoryInv
<1>2. CASE UNCHANGED vars
  BY <1>1, <1>2, SameDocsStep DEF vars, docs
<1>3. ASSUME NEW r \in Reqs, Steps(r)
      PROVE  DocsStep /\ \A s \in Reqs : req[s].pc = "done" => req'[s] = req[s]
  BY <1>3 DEF Steps, OthersSame
<1>4. ASSUME NEW r \in Reqs, Abort(r) PROVE Steps(r)
  <2>1. UNCHANGED docs /\ OthersSame(r) /\ req[r].pc # "done"
    BY <1>1, <1>4, AnswerKeeps DEF Abort
  <2> QED BY <1>1, <2>1, SameDocsStep DEF Steps
<1>5. MsgIds \cup ReviseReqs \cup ReadReqs \subseteq Reqs
  BY DEF Reqs
<1>6. CASE \E r \in Reqs : Steps(r)
  BY <1>3, <1>6
<1>7. CASE \E c \in Channels : Deactivate(c)
  BY <1>1, <1>7, DeactivateSteps
<1>8. Next => (\E r \in Reqs : Steps(r)) \/ (\E c \in Channels : Deactivate(c))
  BY <1>4, <1>5, SendSteps, ReviseSteps, ReadSteps DEF Next
<1> QED BY <1>2, <1>6, <1>7, <1>8

\* The summary of a channel and its version only move forward, in whatever
\* order the posts reach the channel (message.repo.go:111-137).
THEOREM ForwardSummary == Spec => SummaryNeverRegresses
<1>1. HistoryInv /\ [Next]_vars =>
        [\A c \in Channels :
           /\ channels'[c].lastSeq >= channels[c].lastSeq
           /\ channels'[c].version >= channels[c].version
           /\ channels'[c].lastMsg # channels[c].lastMsg
                => channels'[c].lastSeq > channels[c].lastSeq]_vars
  BY NextSteps DEF DocsStep, ChannelStep
<1> QED BY <1>1, HistoryInvariant, PTL DEF Spec, SummaryNeverRegresses

\* A cursor only moves forward, however many devices of its user move it at
\* once (message.repo.go:301-343).
THEOREM ForwardCursors == Spec => CursorNeverRegresses
<1>1. HistoryInv /\ [Next]_vars =>
        [\A c \in Channels : \A u \in Users : states'[c][u] >= states[c][u]]_vars
  BY NextSteps DEF DocsStep, StateStep
<1> QED BY <1>1, HistoryInvariant, PTL DEF Spec, CursorNeverRegresses
-----------------------------------------------------------------------------
(* ChangeInv: the requests *)

Intact == /\ HistoryInv /\ VersionsInv /\ \A r \in Reqs : ReqGood(r)
          /\ \A m \in MsgIds : MessageGood(m)
Forward == [Next]_vars /\ Intact /\ HistoryInv' /\ VersionsInv' /\ DocsStep
           /\ \A r \in Reqs : req[r].pc = "done" => req'[r] = req[r]

\* What the disjointness of the kinds of requests comes to.
LEMMA Kinds ==
  /\ \A r \in MsgIds : r \in Reqs /\ r \notin ReviseReqs /\ r \notin ReadReqs
  /\ \A r \in ReviseReqs : r \in Reqs /\ r \notin MsgIds /\ r \notin ReadReqs
  /\ \A r \in ReadReqs : r \in Reqs /\ r \notin MsgIds /\ r \notin ReviseReqs
  BY RequestsAssumption DEF Reqs

\* A copy stays faithful while its request keeps it.
LEMMA StaysFaithful ==
  ASSUME Forward, NEW r \in Reqs, Faithful(r),
         Subject(r)' = Subject(r), req'[r].doc = req[r].doc, req'[r].ch = req[r].ch
  PROVE  Faithful(r)'
<1> DEFINE m == Subject(r)
           d == req[r].doc
<1>1. /\ m \in MsgIds /\ m \in Reqs /\ d.seq > 0 /\ d.rev > 0 /\ d.ch = req[r].ch
      /\ d.ch \in Channels
      /\ m \in Stored => /\ d.seq = messages[m].seq /\ d.ch = messages[m].ch
                         /\ d.rev <= messages[m].rev
                         /\ d.rev = messages[m].rev => d = messages[m]
      /\ m \notin Stored => req[m].pc = "done" /\ ~channels[d.ch].active
      /\ d.recalled => d.content = Blank /\ messages[m] \in {d, NoDoc}
  BY Kinds DEF Faithful
<1>2. /\ messages \in [MsgIds -> Message] /\ messages' \in [MsgIds -> Message]
      /\ req \in [Reqs -> Request] /\ messages[m].rev \in Nat /\ d.rev \in Nat
  BY <1>1 DEF Forward, Intact, HistoryInv, TypeInv, TypeOK, Message, Request
<1>3. MessageStep(m) /\ (req[m].pc = "done" => req'[m] = req[m])
  BY <1>1 DEF Forward, DocsStep
<1>4. /\ m \in Stored => messages[m].seq > 0
      /\ m \notin Stored => ~(messages[m].seq > 0)
      /\ m \in Stored' <=> messages'[m].seq > 0
  BY <1>1 DEF Stored
<1>5. SUFFICES
        /\ m \in Stored' => /\ d.seq = messages'[m].seq /\ d.ch = messages'[m].ch
                            /\ d.rev <= messages'[m].rev
                            /\ d.rev = messages'[m].rev => d = messages'[m]
        /\ m \notin Stored' => req'[m].pc = "done" /\ ~channels'[d.ch].active
        /\ d.recalled => messages'[m] \in {d, NoDoc}
  BY <1>1 DEF Faithful
<1>6. ~channels[d.ch].active => ~channels'[d.ch].active
  BY <1>1 DEF Forward, DocsStep, ChannelStep
<1>7. CASE messages'[m] = messages[m]
  BY <1>1, <1>3, <1>4, <1>6, <1>7
<1>8. CASE m \notin Stored /\ req[m].pc = "insert"
  BY <1>1, <1>8
<1>9. CASE /\ req[m].pc = "undo" /\ req'[m].pc = "done"
           /\ m \in Stored /\ messages'[m] = NoDoc
  <2>1. m \notin Stored'
    BY <1>4, <1>9 DEF NoDoc
  <2>2. ~channels[d.ch].active
    BY <1>1, <1>9 DEF Forward, Intact, HistoryInv, SendReqInv, Withdrawn, Owned
  <2> QED BY <1>6, <1>9, <2>1, <2>2
<1>10. CASE /\ m \in Stored /\ ~messages[m].recalled
            /\ messages'[m].seq = messages[m].seq /\ messages'[m].ch = messages[m].ch
            /\ messages'[m].rev = messages[m].rev + 1
  <2>1. ~d.recalled
    <3>1. messages[m] # NoDoc
      BY <1>4, <1>10 DEF NoDoc
    <3> QED BY <1>1, <1>10, <3>1
  <2>2. m \in Stored'
    BY <1>4, <1>10
  <2> QED BY <1>1, <1>2, <1>10, <2>1, <2>2
<1> QED BY <1>3, <1>7, <1>8, <1>9, <1>10 DEF MessageStep

LEMMA OthersStayGood ==
  ASSUME Forward, NEW s \in Reqs, req'[s] = req[s]
  PROVE  ReqGood(s)'
<1>1. ReqGood(s)
  BY DEF Forward, Intact
<1>2. /\ Subject(s)' = Subject(s) /\ req'[s].doc = req[s].doc /\ req'[s].ch = req[s].ch
      /\ (Changed(s)' <=> Changed(s)) /\ (Holds(s)' <=> Holds(s))
  BY DEF Subject, Changed, Holds
<1>3. Holds(s)' => Faithful(s)'
  BY <1>1, <1>2, StaysFaithful DEF ReqGood
<1>4. ASSUME s \in MsgIds PROVE PostGood(s)'
  <2>1. PostGood(s)
    BY <1>1, <1>4 DEF ReqGood
  <2>2. ASSUME req[s].version > 0
        PROVE  s \in Stored' /\ req[s].doc.seq <= channels'[req[s].ch].lastSeq
    <3>1. req[s].ch \in Channels /\ req[s].pc \in {"event", "done"}
      BY <2>2, Kinds DEF Forward, Intact, VersionsInv, VersionInv
    <3>2. /\ channels'[req[s].ch].lastSeq >= channels[req[s].ch].lastSeq
          /\ channels'[req[s].ch].lastSeq \in Nat /\ channels[req[s].ch].lastSeq \in Nat
          /\ req[s].doc.seq \in Nat
      BY <1>4, <3>1, Kinds DEF Forward, Intact, DocsStep, ChannelStep, HistoryInv, TypeInv,
                             TypeOK, Channel, Request, Message
    <3>3. s \in Stored /\ req[s].doc.seq <= channels[req[s].ch].lastSeq
      BY <2>1, <2>2 DEF PostGood
    <3>4. MessageStep(s)
      BY <1>4 DEF Forward, DocsStep
    <3>5. s \in Stored'
      BY <1>4, <3>1, <3>3, <3>4 DEF MessageStep, Stored
    <3> QED BY <3>2, <3>3, <3>5
  <2> QED BY <1>4, <2>1, <2>2 DEF PostGood
<1>5. ASSUME s \in ReviseReqs PROVE ReviseGood(s)'
  BY <1>1, <1>5 DEF ReqGood, ReviseGood
<1>6. ASSUME s \in ReadReqs PROVE ReadGood(s)'
  <2>1. ReadGood(s)
    BY <1>1, <1>6 DEF ReqGood
  <2>2. CASE req[s].pc \in {"fetch", "bump", "event"}
    <3>1. req[s].ch \in Channels /\ req[s].actor \in Users
      BY <2>2 DEF Forward, Intact, HistoryInv, TypeInv, Addressed, UnderWay
    <3>2. /\ states'[req[s].ch][req[s].actor] >= states[req[s].ch][req[s].actor]
          /\ states'[req[s].ch][req[s].actor] \in Nat
          /\ states[req[s].ch][req[s].actor] \in Nat
          /\ req[s].seq \in Nat /\ req[s].read \in Nat
      BY <3>1 DEF Forward, Intact, DocsStep, StateStep, HistoryInv, TypeInv, TypeOK, Request
    <3> QED BY <2>1, <3>2 DEF ReadGood
  <2> QED BY <2>2 DEF ReadGood
<1> QED BY <1>3, <1>4, <1>5, <1>6 DEF ReqGood

\* A request writes no revision in its step, or one that nobody else has written.
NoTwin(r) ==
  Changed(r)' =>
    \/ Changed(r) /\ Subject(r)' = Subject(r) /\ req'[r].doc = req[r].doc
    \/ \A s \in Reqs : s # r /\ Changed(s) /\ Subject(s) = Subject(r)'
                        => req[s].doc.rev # req'[r].doc.rev

StaysGood(r) == ReqGood(r)' /\ NoTwin(r)

\* A request that is turned away or fails.
LEMMA FailsGood ==
  ASSUME Forward, NEW r \in Reqs, req[r].pc # "done", Kept(r), UNCHANGED <<messages, channels>>,
         req'[r].pc = "done", req'[r].version = req[r].version,
         req'[r].status \notin {"created", "revised", "unchanged"}
  PROVE  StaysGood(r)
<1>1. ReqGood(r) /\ (Changed(r)' => Changed(r)) /\ (Holds(r)' => Holds(r))
  BY DEF Forward, Intact, Changed, Holds, Kept
<1>2. Holds(r)' => Faithful(r)'
  BY <1>1, StaysFaithful DEF ReqGood, Subject, Kept
<1>3. ASSUME r \in MsgIds PROVE PostGood(r)'
  BY <1>1, <1>3 DEF ReqGood, PostGood, Kept, Stored
<1>4. ASSUME r \in ReviseReqs PROVE ReviseGood(r)'
  BY <1>1, <1>4 DEF ReqGood, ReviseGood, Kept
<1>5. ASSUME r \in ReadReqs PROVE ReadGood(r)'
  BY DEF ReadGood
<1>6. NoTwin(r)
  BY <1>1 DEF NoTwin, Subject, Kept
<1> QED BY <1>1, <1>2, <1>3, <1>4, <1>5, <1>6 DEF ReqGood, StaysGood

LEMMA PostingGood ==
  ASSUME Forward, NEW r \in MsgIds, PostingRead(r)
  PROVE  StaysGood(r)
<1>1. req[r].version = 0 /\ PostGood(r) /\ r \in Reqs
  BY Kinds DEF Forward, Intact, VersionsInv, VersionInv, PostingRead, ReqGood
<1>2. ~Changed(r)' /\ ~Holds(r)'
  BY <1>1, Kinds DEF PostingRead, Changed, Holds
<1>3. PostGood(r)'
  BY <1>1 DEF PostingRead, PostGood
<1> QED BY <1>2, <1>3, Kinds DEF ReqGood, StaysGood, NoTwin

LEMMA InsertedGood ==
  ASSUME Forward, NEW r \in MsgIds, Insert(r), ~Goto(r, "relookup")
  PROVE  StaysGood(r)
<1> DEFINE d == Candidate(r)
<1>1. /\ TypeInv /\ HistoryInv /\ r \in Reqs /\ SendReqInv(r) /\ PostGood(r)
      /\ req[r] \in Request /\ messages \in [MsgIds -> Message]
  BY Kinds DEF Forward, Intact, HistoryInv, TypeInv, TypeOK, ReqGood
<1>2. /\ req[r].pc = "insert" /\ req'[r].pc = "summary" /\ req'[r].doc = d
      /\ req'[r].version = req[r].version /\ req'[r].ch = req[r].ch
      /\ req'[r].seq = req[r].seq /\ req'[r].status = req[r].status
      /\ messages' = [messages EXCEPT ![r] = d]
  BY <1>1, InsertKeeps
<1>3. r \notin Stored /\ req[r].seq > 0 /\ req[r].ch \in Channels
  BY <1>1, <1>2 DEF SendReqInv, Owned, Chosen, TypeInv, Addressed, UnderWay
<1>4. /\ d.rev = 1 /\ d.ch = req[r].ch /\ d.seq = req[r].seq /\ d.recalled = FALSE
      /\ messages'[r] = d
  BY <1>1, <1>2 DEF Candidate
<1> HIDE DEF d
<1>5. Faithful(r)'
  <2>1. r \in Stored' /\ Subject(r)' = r
    BY <1>3, <1>4 DEF Stored, Subject
  <2> QED BY <1>2, <1>3, <1>4, <2>1 DEF Faithful
<1>6. PostGood(r)'
  <2>1. req'[r].version = 0
    BY <1>1, <1>2 DEF Forward, Intact, VersionsInv, VersionInv
  <2>2. req'[r].status # "created"
    BY <1>1, <1>2 DEF PostGood
  <2> QED BY <1>2, <1>4, <2>1, <2>2 DEF PostGood
<1>7. NoTwin(r)
  <2>1. ASSUME NEW s \in Reqs, s # r, Changed(s), Subject(s) = r PROVE FALSE
    <3>1. Faithful(s)
      BY <2>1 DEF Forward, Intact, ReqGood, Holds
    <3> QED BY <1>2, <1>3, <2>1, <3>1 DEF Faithful
  <2>2. Subject(r)' = r
    BY DEF Subject
  <2> QED BY <2>1, <2>2 DEF NoTwin
<1> QED BY <1>5, <1>6, <1>7, Kinds DEF ReqGood, StaysGood

LEMMA SummaryGood ==
  ASSUME Forward, NEW r \in MsgIds, Summary(r)
  PROVE  StaysGood(r)
<1>1. /\ TypeInv /\ r \in Reqs /\ SendReqInv(r) /\ PostGood(r) /\ req[r].pc = "summary"
      /\ UNCHANGED messages /\ ReqGood(r)
  BY Kinds DEF Forward, Intact, HistoryInv, ReqGood, Summary, At
<1>2. Faithful(r)
  BY <1>1 DEF ReqGood, Holds, Changed
<1>3. /\ Kept(r) /\ req'[r].status = req[r].status /\ req'[r].pc \in {"undo", "event"}
      /\ req'[r].pc = "undo" => req'[r].version = req[r].version
      /\ req'[r].pc = "event" => TakeVersion(r, Summarized(channels[req[r].ch], r))
  BY <1>1, GotoKeeps, TakeVersionKeeps DEF Summary
<1>4. /\ Subject(r)' = Subject(r) /\ req'[r].doc = req[r].doc /\ req'[r].ch = req[r].ch
      /\ Changed(r) /\ r \in Stored /\ r \in Stored'
  BY <1>1, <1>3 DEF Kept, Subject, Changed, SendReqInv, Owned, Stored
<1>5. Faithful(r)'
  BY <1>1, <1>2, <1>4, StaysFaithful
<1>6. req'[r].pc = "event" => req[r].seq <= channels'[req[r].ch].lastSeq
  <2> DEFINE ch == Summarized(channels[req[r].ch], r)
  <2>1. SUFFICES ASSUME TakeVersion(r, ch)
                 PROVE  req[r].seq <= channels'[req[r].ch].lastSeq
    BY <1>3
  <2>2. req[r].ch \in Channels /\ req[r].seq \in Nat /\ channels[req[r].ch] \in Channel
    BY <1>1 DEF TypeInv, TypeOK, Addressed, UnderWay, Request
  <2>3. channels' = [channels EXCEPT ![req[r].ch] = ch] /\ channels \in [Channels -> Channel]
    BY <1>1, <2>1 DEF TakeVersion, TypeInv, TypeOK
  <2>4. /\ channels[req[r].ch].lastSeq < req[r].seq => ch.lastSeq = req[r].seq
        /\ ~(channels[req[r].ch].lastSeq < req[r].seq)
             => ch.lastSeq = channels[req[r].ch].lastSeq
    BY <2>2, SummarizedFields
  <2> HIDE DEF ch
  <2>5. channels'[req[r].ch] = ch /\ channels[req[r].ch].lastSeq \in Nat
    BY <2>2, <2>3 DEF Channel
  <2> QED BY <2>2, <2>4, <2>5
<1>7. PostGood(r)'
  <2>1. req[r].version = 0
    BY <1>1 DEF Forward, Intact, VersionsInv, VersionInv
  <2> QED BY <1>1, <1>3, <1>4, <1>6, <2>1 DEF PostGood, Kept
<1> QED BY <1>4, <1>5, <1>7, Kinds DEF ReqGood, StaysGood, NoTwin

LEMMA CreatedGood ==
  ASSUME Forward, NEW r \in MsgIds, CreatedEvent(r)
  PROVE  StaysGood(r)
<1>1. /\ TypeInv /\ r \in Reqs /\ PostGood(r) /\ req[r].pc = "event"
      /\ UNCHANGED <<messages, channels>> /\ ReqGood(r) /\ req[r].version > 0
  BY Kinds DEF Forward, Intact, HistoryInv, ReqGood, CreatedEvent, At, VersionsInv, VersionInv
<1>2. Faithful(r) /\ Changed(r)
  BY <1>1 DEF ReqGood, Holds, Changed
<1>3. /\ req'[r].pc = "done" /\ req'[r].version = req[r].version
      /\ req'[r].ch = req[r].ch /\ req'[r].doc = req[r].doc /\ Subject(r)' = Subject(r)
  BY <1>1, CreatedEventKeeps DEF Subject
<1>4. Faithful(r)'
  BY <1>1, <1>2, <1>3, StaysFaithful
<1>5. PostGood(r)'
  BY <1>1, <1>3 DEF PostGood, Stored
<1> QED BY <1>2, <1>3, <1>4, <1>5, Kinds DEF ReqGood, StaysGood, NoTwin

LEMMA SendGood ==
  ASSUME Forward, NEW r \in MsgIds, Send(r)
  PROVE  StaysGood(r)
<1>1. TypeInv /\ r \in Reqs
  BY Kinds DEF Forward, Intact, HistoryInv
<1>2. CASE Insert(r) /\ Goto(r, "relookup")
  <2>1. UNCHANGED messages
    <3>1. req'[r].pc = "relookup"
      BY <1>1, <1>2, GotoKeeps
    <3>2. CASE req' = [req EXCEPT ![r].pc = "summary", ![r].doc = Candidate(r)]
      <4>1. req'[r].pc = "summary"
        BY <1>1, <3>2 DEF TypeInv, TypeOK, Request
      <4> QED BY <3>1, <4>1
    <3> QED BY <1>2, <3>2 DEF Insert
  <2> QED BY <1>1, <1>2, <2>1, PostingReads, PostingGood
<1>3. CASE Undo(r)
  <2>1. /\ req[r].pc = "undo" /\ req'[r].pc = "done" /\ req'[r].version = req[r].version
        /\ req'[r].status = "not_found" /\ req[r].version = 0
    BY <1>1, <1>3, AnswerKeeps DEF Undo, At, Forward, Intact, VersionsInv, VersionInv
  <2>2. ~Changed(r)' /\ ~Holds(r)' /\ PostGood(r)'
    BY <2>1, Kinds DEF Changed, Holds, PostGood
  <2> QED BY <2>2, Kinds DEF ReqGood, StaysGood, NoTwin
<1> QED BY <1>1, <1>2, <1>3, PostingReads, PostingGood, InsertedGood, SummaryGood,
           CreatedGood DEF Send

\* A revision that keeps its copy, on the way to its version and its event.
LEMMA RevisingGood ==
  ASSUME Forward, NEW r \in ReviseReqs, req[r].pc \in {"authorize", "bump", "event"}, Kept(r),
         req'[r].pc \in {"cas", "event", "done"}, req'[r].pc = "cas" => req[r].pc = "authorize",
         req'[r].pc = "event" => req[r].pc = "bump",
         req[r].pc = "authorize" => req'[r].version = req[r].version,
         req'[r].pc = "cas" => req[r].doc.sender = req[r].actor,
         req'[r].status \in {"revised", "unchanged"} =>
            \/ req'[r].status = req[r].status
            \/ req[r].pc = "event" /\ req'[r].pc = "done"
            \/ req[r].doc.recalled /\ req'[r].pc = "done"
  PROVE  StaysGood(r)
<1>1. /\ r \in Reqs /\ ReqGood(r) /\ ReviseGood(r) /\ req[r].msg \in MsgIds /\ req[r].msg # None
      /\ req[r].pc # "event" => req[r].version = 0
  BY Kinds, RequestsAssumption DEF Forward, Intact, HistoryInv, TypeInv, Addressed, UnderWay,
     ReqGood, VersionsInv, VersionInv
<1>2. Faithful(r) /\ Subject(r)' = Subject(r) /\ req'[r].doc = req[r].doc /\ req'[r].ch = req[r].ch
  BY <1>1 DEF ReqGood, Holds, Kept, Subject
<1>3. Faithful(r)'
  BY <1>1, <1>2, StaysFaithful
<1>4. ReviseGood(r)'
  BY <1>1 DEF ReviseGood, Kept
<1>5. Changed(r)' => Changed(r)
  BY <1>1, Kinds DEF Changed
<1> QED BY <1>2, <1>3, <1>4, <1>5, Kinds DEF ReqGood, StaysGood, NoTwin

LEMMA ReviseGetGood ==
  ASSUME Forward, NEW r \in ReviseReqs, ReviseGet(r)
  PROVE  StaysGood(r)
<1>1. TypeInv /\ r \in Reqs /\ ReviseGood(r) /\ UNCHANGED <<messages, channels>>
  BY Kinds DEF Forward, Intact, HistoryInv, ReqGood, ReviseGet, docs
<1>2. /\ req[r].pc = "idle" /\ req'[r].pc = "authorize"
      /\ req'[r].status = req[r].status /\ req'[r].version = req[r].version
  BY <1>1, ReviseGetKeeps
<1>3. PICK m \in Stored : /\ req'[r].msg = m /\ req'[r].doc = messages[m]
                          /\ req'[r].ch = messages[m].ch
  BY <1>1, ReviseGetKeeps
<1>4. m \in MsgIds /\ MessageGood(m) /\ messages[m].ch \in Channels /\ messages[m].rev \in Nat
      /\ messages[m].seq > 0
  BY <1>1 DEF Stored, Forward, Intact, TypeInv, TypeOK, Message
<1>5. Faithful(r)'
  <2>1. Subject(r)' = m /\ m \in Stored'
    BY <1>1, <1>3, Kinds DEF Subject, Stored
  <2> QED BY <1>1, <1>3, <1>4, <2>1 DEF Faithful, MessageGood
<1>6. req'[r].version = 0
  BY <1>1, <1>2 DEF Forward, Intact, VersionsInv, VersionInv
<1>7. ReviseGood(r)' /\ ~Changed(r)'
  BY <1>1, <1>2, <1>6, Kinds DEF ReviseGood, Changed
<1> QED BY <1>5, <1>7, Kinds DEF ReqGood, StaysGood, NoTwin

\* The revision that wins gives the message a revision above all the copies.
LEMMA RevisedGood ==
  ASSUME Forward, NEW r \in ReviseReqs, CompareAndSet(r), Unchanged(r)
  PROVE  StaysGood(r)
<1> DEFINE m == req[r].msg
           new == Revised(r, messages[m])
<1>1. /\ TypeInv /\ r \in Reqs /\ ReqGood(r) /\ ReviseGood(r)
      /\ messages \in [MsgIds -> Message] /\ req \in [Reqs -> Request]
  BY Kinds DEF Forward, Intact, HistoryInv, TypeInv, TypeOK, ReqGood
<1>2. /\ req[r].pc = "cas" /\ req'[r].pc = "bump" /\ req'[r].status = req[r].status
      /\ req'[r].version = req[r].version /\ req'[r].ch = req[r].ch
      /\ req'[r].msg = m /\ req'[r].doc = new
      /\ messages' = [messages EXCEPT ![m] = new]
  BY <1>1, CompareAndSetKeeps
<1>3. m \in Stored /\ m \in MsgIds /\ m # None
  BY RequestsAssumption DEF Unchanged, Stored, Reqs
<1>4. Faithful(r) /\ Subject(r) = m /\ Subject(r)' = m
  BY <1>1, <1>2, <1>3, Kinds DEF ReqGood, Holds, Subject
<1>5. /\ new.seq = messages[m].seq /\ new.ch = messages[m].ch
      /\ new.rev = messages[m].rev + 1 /\ messages[m].rev \in Nat
      /\ new.recalled <=> r \in RecallReqs
      /\ r \in RecallReqs => new.content = Blank
  <2>1. messages[m] \in Message
    BY <1>1, <1>3
  <2>2. new = [messages[m] EXCEPT !.content = IF r \in EditReqs THEN r ELSE Blank,
                                  !.rev = messages[m].rev + 1,
                                  !.recalled = r \in RecallReqs]
    BY <2>1 DEF Revised
  <2>3. new.recalled = (r \in RecallReqs) /\ new.content = IF r \in EditReqs THEN r ELSE Blank
    BY <2>1, <2>2 DEF Message
  <2>4. messages[m].rev \in Nat
    BY <2>1 DEF Message
  <2> QED BY <2>1, <2>3, <2>4, RevisedFields, RequestsAssumption
<1> HIDE DEF new
<1>6. messages'[m] = new /\ m \in Stored'
  BY <1>1, <1>2, <1>3, <1>5 DEF Stored
<1>7. Faithful(r)'
  <2>1. new.ch = req[r].ch /\ new.ch \in Channels /\ new.rev > 0 /\ new.seq > 0
    BY <1>3, <1>4, <1>5 DEF Faithful, Stored
  <2>2. new.rev \in Nat /\ (new.recalled => new.content = Blank)
    BY <1>5
  <2> QED BY <1>2, <1>3, <1>4, <1>6, <2>1, <2>2 DEF Faithful
<1>8. ReviseGood(r)'
  <2>1. r \in RecallReqs => new.recalled
    BY <1>5
  <2> QED BY <1>1, <1>2, <2>1 DEF ReviseGood
<1>9. NoTwin(r)
  <2>1. ASSUME NEW s \in Reqs, s # r, Changed(s), Subject(s) = m
        PROVE  req[s].doc.rev # new.rev
    <3>1. Faithful(s)
      BY <2>1 DEF Forward, Intact, ReqGood, Holds
    <3>2. req[s].doc.rev <= messages[m].rev /\ req[s].doc.rev \in Nat
      BY <1>1, <1>3, <2>1, <3>1 DEF Faithful, Request, Message
    <3> QED BY <1>5, <3>2
  <2> QED BY <1>2, <1>4, <2>1 DEF NoTwin
<1> QED BY <1>7, <1>8, <1>9, Kinds DEF ReqGood, StaysGood

LEMMA ReviseReqGood ==
  ASSUME Forward, NEW r \in ReviseReqs, Revise(r)
  PROVE  StaysGood(r)
<1>1. TypeInv /\ r \in Reqs
  BY Kinds DEF Forward, Intact, HistoryInv
<1>2. CASE ReviseRefused(r)
  <2>1. PICK t \in {"invalid", "not_found"} : Answer(r, t)
    BY <1>2 DEF ReviseRefused
  <2>2. UNCHANGED <<messages, channels>> /\ req[r].pc = "idle"
    BY <1>2 DEF ReviseRefused, docs, At
  <2> QED BY <1>1, <2>1, <2>2, AnswerKeeps, FailsGood
<1>3. CASE Authorize(r)
  <2>1. req[r].pc = "authorize" /\ UNCHANGED <<messages, channels>>
    BY <1>3 DEF Authorize, At, docs
  <2>2. CASE \E t \in {"not_found", "forbidden", "conflict"} : Answer(r, t)
    BY <1>1, <2>1, <2>2, AnswerKeeps, FailsGood
  <2>3. CASE Answer(r, "unchanged") /\ req[r].doc.recalled
    <3>1. /\ req'[r].pc = "done" /\ req'[r].status = "unchanged"
          /\ req'[r].version = req[r].version /\ Kept(r)
      BY <1>1, <2>3, AnswerKeeps
    <3> QED BY <2>1, <2>3, <3>1, RevisingGood
  <2>4. CASE Goto(r, "cas") /\ req[r].doc.sender = req[r].actor
    <3>1. /\ req'[r].pc = "cas" /\ req'[r].status = req[r].status
          /\ req'[r].version = req[r].version /\ Kept(r)
      BY <1>1, <2>4, GotoKeeps
    <3> QED BY <2>1, <2>4, <3>1, RevisingGood
  <2> QED BY <1>3, <2>2, <2>3, <2>4 DEF Authorize
<1>4. CASE CompareAndSet(r) /\ ~Unchanged(r)
  <2>1. Answer(r, "conflict") /\ UNCHANGED <<messages, channels>> /\ req[r].pc = "cas"
    BY <1>4 DEF CompareAndSet, At
  <2> QED BY <1>1, <2>1, AnswerKeeps, FailsGood
<1>5. CASE ReviseBump(r)
  <2>1. req[r].pc = "bump" /\ UNCHANGED messages
    BY <1>5 DEF ReviseBump, At
  <2>2. CASE Answer(r, "not_found") /\ UNCHANGED channels
    BY <1>1, <2>1, <2>2, AnswerKeeps, FailsGood
  <2>3. CASE TakeVersion(r, [channels[req[r].ch] EXCEPT !.version = @ + 1])
    <3>1. req'[r].pc = "event" /\ req'[r].status = req[r].status /\ Kept(r)
      BY <1>1, <2>3, TakeVersionKeeps
    <3> QED BY <2>1, <3>1, RevisingGood
  <2> QED BY <1>5, <2>2, <2>3 DEF ReviseBump
<1>6. CASE RevisedEvent(r)
  <2>1. Answer(r, "revised") /\ req[r].pc = "event"
    BY <1>6 DEF RevisedEvent, At
  <2>2. req'[r].pc = "done" /\ req'[r].status = "revised" /\ Kept(r)
    BY <1>1, <2>1, AnswerKeeps
  <2> QED BY <2>1, <2>2, RevisingGood
<1> QED BY <1>2, <1>3, <1>4, <1>5, <1>6, ReviseGetGood, RevisedGood DEF Revise

LEMMA ReadReqGood ==
  ASSUME Forward, NEW r \in ReadReqs, Read(r)
  PROVE  StaysGood(r)
<1>1. TypeInv /\ r \in Reqs /\ ReadGood(r)
  BY Kinds DEF Forward, Intact, HistoryInv, ReqGood
<1>2. ~Changed(r)' /\ ~Holds(r)'
  BY Kinds DEF Changed, Holds
<1>3. SUFFICES ReadGood(r)'
  BY <1>2, Kinds DEF ReqGood, StaysGood, NoTwin
<1>4. CASE ReadGet(r)
  BY <1>1, <1>4, ReadGetKeeps DEF ReadGood
<1>5. CASE UpdateCursor(r) \/ UpsertCursor(r)
  <2>1. PICK p \in {"fetch", "upsert", "peek"} : Goto(r, p)
    BY <1>5 DEF UpdateCursor, UpsertCursor
  <2>2. req'[r].pc = p /\ Kept(r)
    BY <1>1, <2>1, GotoKeeps
  <2>3. req'[r].pc = "fetch" => states'[req[r].ch][req[r].actor] = req[r].seq
    BY <1>1, <1>5, CursorStep
  <2>4. req[r].seq \in Nat
    BY <1>1 DEF TypeInv, TypeOK, Request
  <2> QED BY <2>2, <2>3, <2>4 DEF ReadGood, Kept
<1>6. CASE FetchCursor(r)
  <2>1. /\ req[r].pc = "fetch" /\ req'[r].pc = "bump" /\ UNCHANGED states
        /\ req'[r].ch = req[r].ch /\ req'[r].actor = req[r].actor
        /\ req'[r].seq = req[r].seq /\ req'[r].read = states[req[r].ch][req[r].actor]
    BY <1>1, <1>6, FetchKeeps DEF docs
  <2>2. states[req[r].ch][req[r].actor] \in Nat
    BY <1>1, <2>1 DEF TypeInv, TypeOK, Addressed, UnderWay
  <2> QED BY <1>1, <2>1, <2>2 DEF ReadGood
<1>7. CASE PeekCursor(r)
  BY <1>1, <1>7, FetchKeeps DEF ReadGood
<1>8. CASE ReadBump(r)
  <2>1. CASE Answer(r, "not_found")
    BY <1>1, <2>1, AnswerKeeps DEF ReadGood
  <2>2. CASE TakeVersion(r, [channels[req[r].ch] EXCEPT !.version = @ + 1])
    <3>1. Kept(r) /\ req'[r].pc = "event" /\ req[r].pc = "bump" /\ UNCHANGED states
      BY <1>1, <1>8, <2>2, TakeVersionKeeps DEF ReadBump, At
    <3> QED BY <1>1, <3>1 DEF ReadGood, Kept
  <2> QED BY <1>8, <2>1, <2>2 DEF ReadBump
<1>9. CASE AdvancedEvent(r)
  BY <1>1, <1>9, AnswerKeeps DEF ReadGood, AdvancedEvent
<1> QED BY <1>4, <1>5, <1>6, <1>7, <1>8, <1>9 DEF Read

LEMMA AbortGood ==
  ASSUME Forward, NEW r \in Reqs, Abort(r)
  PROVE  StaysGood(r)
<1>1. TypeInv
  BY DEF Forward, Intact, HistoryInv
<1> QED BY <1>1, AnswerKeeps, FailsGood DEF Abort, docs
-----------------------------------------------------------------------------
(* ChangeInv: the messages and the events *)

\* At most one request moves in a step, and what it writes to the outbox is
\* its own event.
EventStep ==
  \/ UNCHANGED outbox
  \/ \E r \in Reqs : \E e :
       /\ outbox' = outbox \cup {e} /\ req[r].pc = "event" /\ req'[r].pc = "done"
       /\ UNCHANGED <<messages, states>>
       /\ req'[r].ch = req[r].ch /\ req'[r].doc = req[r].doc
       /\ req'[r].actor = req[r].actor /\ req'[r].seq = req[r].seq
       /\ req'[r].read = req[r].read /\ Subject(r)' = Subject(r)
       /\ \/ /\ r \in MsgIds \cup ReviseReqs
             /\ \E t \in {"created", "updated", "recalled"} :
                  /\ e = MessagePayload(r, t, Subject(r))
                  /\ t = "created" <=> r \in MsgIds
          \/ /\ r \in ReadReqs
             /\ e = [id |-> r, type |-> "read", ch |-> req[r].ch,
                     version |-> req[r].version, user |-> req[r].actor,
                     lastRead |-> req[r].read]

LEMMA NextMessages ==
  ASSUME Forward, NEW m \in MsgIds
  PROVE  MessageGood(m)'
<1>1. /\ HistoryInv /\ TypeInv /\ MessageGood(m) /\ messages \in [MsgIds -> Message]
      /\ m \in Stored <=> messages[m].seq > 0
      /\ m \in Stored' <=> messages'[m].seq > 0
  BY DEF Forward, Intact, HistoryInv, TypeInv, TypeOK, Stored
<1>2. CASE messages'[m] = messages[m]
  BY <1>1, <1>2 DEF MessageGood
<1>3. ASSUME NEW r \in MsgIds, Insert(r), ~Goto(r, "relookup") PROVE MessageGood(m)'
  <2>1. messages' = [messages EXCEPT ![r] = Candidate(r)]
    BY <1>1, <1>3, InsertKeeps
  <2>2. CASE r = m
    <3>1. messages'[m] = Candidate(m) /\ req[r].pc = "insert"
      BY <1>1, <1>3, <2>1, <2>2, InsertKeeps
    <3>2. req[m].seq > 0
      BY <2>2, <3>1 DEF Forward, Intact, HistoryInv, SendReqInv, Chosen
    <3>3. Candidate(m).rev = 1 /\ Candidate(m).recalled = FALSE /\ Candidate(m).seq = req[m].seq
      BY DEF Candidate
    <3> QED BY <1>1, <3>1, <3>2, <3>3 DEF MessageGood
  <2>3. CASE r # m
    BY <1>1, <1>2, <2>1, <2>3
  <2> QED BY <2>2, <2>3
<1>4. ASSUME NEW r \in MsgIds, Undo(r) PROVE MessageGood(m)'
  <2>1. messages'[m] \in {messages[m], NoDoc}
    BY <1>1, <1>4 DEF Undo
  <2>2. CASE messages'[m] = NoDoc
    <3>1. m \notin Stored'
      BY <1>1, <2>2 DEF NoDoc
    <3> QED BY <2>2, <3>1 DEF MessageGood
  <2> QED BY <1>2, <2>1, <2>2
<1>5. ASSUME NEW r \in ReviseReqs, CompareAndSet(r), Unchanged(r) PROVE MessageGood(m)'
  <2> DEFINE n == req[r].msg
             new == Revised(r, messages[n])
  <2>1. messages' = [messages EXCEPT ![n] = new]
    BY <1>1, <1>5, CompareAndSetKeeps
  <2>2. CASE n = m
    <3>1. messages[m] \in Message /\ messages'[m] = new
      BY <1>1, <2>1, <2>2
    <3>2. new = [messages[m] EXCEPT !.content = IF r \in EditReqs THEN r ELSE Blank,
                                    !.rev = messages[m].rev + 1,
                                    !.recalled = r \in RecallReqs]
      BY <2>2, <3>1 DEF Revised
    <3>3. /\ new.recalled <=> r \in RecallReqs
          /\ new.content = IF r \in EditReqs THEN r ELSE Blank
      BY <3>1, <3>2 DEF Message
    <3>4. new.rev = messages[m].rev + 1 /\ messages[m].rev \in Nat /\ new.seq = messages[m].seq
      BY <2>2, <3>1, RevisedFields DEF Message
    <3>5. m \in Stored
      BY <1>5, <2>2 DEF Unchanged
    <3>6. new.recalled => new.content = Blank
      BY <3>3, RequestsAssumption
    <3> HIDE DEF new
    <3>7. messages'[m] = new /\ new.rev > 0 /\ m \in Stored'
      BY <1>1, <3>1, <3>4, <3>5
    <3> QED BY <3>6, <3>7 DEF MessageGood
  <2>3. CASE n # m
    BY <1>1, <1>2, <2>1, <2>3
  <2> QED BY <2>2, <2>3
<1>6. CASE UNCHANGED messages
  BY <1>2, <1>6
<1>7. Next => \/ UNCHANGED messages
              \/ \E r \in MsgIds : Undo(r) \/ (Insert(r) /\ ~Goto(r, "relookup"))
              \/ \E r \in ReviseReqs : CompareAndSet(r) /\ Unchanged(r)
  <2>1. ASSUME NEW r \in MsgIds, Send(r)
        PROVE  UNCHANGED messages \/ Undo(r) \/ (Insert(r) /\ ~Goto(r, "relookup"))
    <3>1. CASE Insert(r) /\ Goto(r, "relookup")
      <4>1. r \in Reqs /\ req'[r].pc = "relookup"
        BY <1>1, <3>1, GotoKeeps, Kinds
      <4>2. CASE req' = [req EXCEPT ![r].pc = "summary", ![r].doc = Candidate(r)]
        <5>1. req'[r].pc = "summary"
          BY <1>1, <4>1, <4>2 DEF TypeInv, TypeOK, Request
        <5> QED BY <4>1, <5>1
      <4> QED BY <3>1, <4>2 DEF Insert
    <3> QED BY <2>1, <3>1 DEF Send, CreateGet, CheckReply, AIReplyGet, CheckSource, Lookup,
               FindChannel, FindLatest, Relookup, Summary, CreatedEvent, docs
  <2>2. ASSUME NEW r \in ReviseReqs, Revise(r)
        PROVE  UNCHANGED messages \/ (CompareAndSet(r) /\ Unchanged(r))
    BY <2>2 DEF Revise, ReviseRefused, ReviseGet, Authorize, CompareAndSet, ReviseBump,
            RevisedEvent, docs
  <2>3. ASSUME NEW r \in ReadReqs, Read(r) PROVE UNCHANGED messages
    BY <2>3 DEF Read, ReadGet, UpdateCursor, UpsertCursor, FetchCursor, PeekCursor, ReadBump,
            AdvancedEvent, docs
  <2> QED BY <2>1, <2>2, <2>3 DEF Next, Abort, Deactivate, docs
<1> QED BY <1>3, <1>4, <1>5, <1>6, <1>7 DEF Forward, vars

LEMMA NextEvents ==
  ASSUME Forward
  PROVE  EventStep
<1>1. TypeInv
  BY DEF Forward, Intact, HistoryInv
<1>2. ASSUME NEW r \in MsgIds, CreatedEvent(r) PROVE EventStep
  <2>1. /\ outbox' = outbox \cup {MessagePayload(r, "created", r)} /\ r \in Reqs
        /\ UNCHANGED <<messages, states>> /\ req[r] \in Request /\ req \in [Reqs -> Request]
        /\ req' = [req EXCEPT ![r].pc = "done", ![r].status = "created", ![r].msg = r]
    BY <1>1, <1>2, Kinds DEF CreatedEvent, TypeInv, TypeOK
  <2>2. /\ req[r].pc = "event" /\ req'[r].pc = "done"
        /\ req'[r].ch = req[r].ch /\ req'[r].doc = req[r].doc
        /\ req'[r].actor = req[r].actor /\ req'[r].seq = req[r].seq
        /\ req'[r].read = req[r].read
    BY <1>2, <2>1 DEF CreatedEvent, At, Request
  <2>3. Subject(r) = r /\ Subject(r)' = r
    BY DEF Subject
  <2> QED BY <2>1, <2>2, <2>3 DEF EventStep
<1>3. ASSUME NEW r \in ReviseReqs, RevisedEvent(r) PROVE EventStep
  <2>1. PICK t \in {"updated", "recalled"} :
          outbox' = outbox \cup {MessagePayload(r, t, req[r].msg)}
    BY <1>3 DEF RevisedEvent
  <2>2. r \in Reqs /\ UNCHANGED <<messages, states>> /\ req[r].pc = "event"
    BY <1>3, Kinds DEF RevisedEvent, At
  <2>3. req'[r].pc = "done" /\ Kept(r)
    BY <1>1, <1>3, <2>2, AnswerKeeps DEF RevisedEvent
  <2>4. Subject(r) = req[r].msg /\ Subject(r)' = Subject(r)
    BY <2>3, Kinds DEF Subject, Kept
  <2> QED BY <2>1, <2>2, <2>3, <2>4, Kinds DEF EventStep, Kept
<1>4. ASSUME NEW r \in ReadReqs, AdvancedEvent(r) PROVE EventStep
  <2> DEFINE e == [id |-> r, type |-> "read", ch |-> req[r].ch,
                   version |-> req[r].version, user |-> req[r].actor,
                   lastRead |-> req[r].read]
  <2>1. /\ r \in Reqs /\ UNCHANGED <<messages, states>> /\ req[r].pc = "event"
        /\ outbox' = outbox \cup {e}
    BY <1>4, Kinds DEF AdvancedEvent, At
  <2>2. req'[r].pc = "done" /\ Kept(r)
    BY <1>1, <1>4, <2>1, AnswerKeeps DEF AdvancedEvent
  <2>3. Subject(r)' = Subject(r)
    BY <2>2, Kinds DEF Subject, Kept
  <2> QED BY <2>1, <2>2, <2>3 DEF EventStep, Kept
<1>5. CASE UNCHANGED outbox
  BY <1>5 DEF EventStep
<1>6. Next => \/ UNCHANGED outbox
              \/ \E r \in MsgIds : CreatedEvent(r)
              \/ \E r \in ReviseReqs : RevisedEvent(r)
              \/ \E r \in ReadReqs : AdvancedEvent(r)
  <2>1. ASSUME NEW r \in MsgIds, Send(r) PROVE UNCHANGED outbox \/ CreatedEvent(r)
    BY <2>1 DEF Send, CreateGet, CheckReply, AIReplyGet, CheckSource, Lookup,
            FindChannel, FindLatest, Insert, Relookup, Summary, Undo, docs
  <2>2. ASSUME NEW r \in ReviseReqs, Revise(r) PROVE UNCHANGED outbox \/ RevisedEvent(r)
    BY <2>2 DEF Revise, ReviseRefused, ReviseGet, Authorize, CompareAndSet, ReviseBump, docs
  <2>3. ASSUME NEW r \in ReadReqs, Read(r) PROVE UNCHANGED outbox \/ AdvancedEvent(r)
    BY <2>3 DEF Read, ReadGet, UpdateCursor, UpsertCursor, FetchCursor, PeekCursor, ReadBump,
            docs
  <2> QED BY <2>1, <2>2, <2>3 DEF Next, Abort, Deactivate, docs
<1> QED BY <1>2, <1>3, <1>4, <1>5, <1>6 DEF Forward, vars

LEMMA OldEventsGood ==
  ASSUME Forward, NEW e \in outbox, EventGood(e)
  PROVE  EventGood(e)'
<1>1. e.id \in Reqs /\ req'[e.id] = req[e.id]
  BY DEF Forward, Intact, HistoryInv, TypeInv, TypeOK, MessageEvent, CursorEvent, Reqs,
         VersionsInv, EventInv
<1>2. CASE e.type = "read"
  <2>1. e \in CursorEvent
    BY <1>2 DEF Forward, Intact, HistoryInv, TypeInv, TypeOK, MessageEvent
  <2>2. e.ch \in Channels /\ e.user \in Users /\ e.lastRead \in Nat
    BY <2>1 DEF CursorEvent
  <2>3. /\ states'[e.ch][e.user] >= states[e.ch][e.user]
        /\ states'[e.ch][e.user] \in Nat /\ states[e.ch][e.user] \in Nat
    BY <2>2 DEF Forward, DocsStep, StateStep, Intact, HistoryInv, TypeInv, TypeOK
  <2> QED BY <1>1, <1>2, <2>2, <2>3 DEF EventGood
<1>3. CASE e.type # "read"
  <2>1. Subject(e.id)' = Subject(e.id)
    BY <1>1 DEF Subject
  <2> QED BY <1>1, <1>3, <2>1 DEF EventGood
<1> QED BY <1>2, <1>3

LEMMA NewEventGood ==
  ASSUME Forward, EventStep, NEW e \in outbox', e \notin outbox
  PROVE  EventGood(e)'
<1>1. PICK r \in Reqs :
       /\ req[r].pc = "event" /\ req'[r].pc = "done"
       /\ UNCHANGED <<messages, states>>
       /\ req'[r].ch = req[r].ch /\ req'[r].doc = req[r].doc
       /\ req'[r].actor = req[r].actor /\ req'[r].seq = req[r].seq
       /\ req'[r].read = req[r].read /\ Subject(r)' = Subject(r)
       /\ \/ /\ r \in MsgIds \cup ReviseReqs
             /\ \E t \in {"created", "updated", "recalled"} :
                  /\ e = MessagePayload(r, t, Subject(r))
                  /\ t = "created" <=> r \in MsgIds
          \/ /\ r \in ReadReqs
             /\ e = [id |-> r, type |-> "read", ch |-> req[r].ch,
                     version |-> req[r].version, user |-> req[r].actor,
                     lastRead |-> req[r].read]
  BY DEF EventStep
<1>2. ReqGood(r)
  BY DEF Forward, Intact
<1>3. CASE /\ r \in MsgIds \cup ReviseReqs
           /\ \E t \in {"created", "updated", "recalled"} :
                  /\ e = MessagePayload(r, t, Subject(r))
                  /\ t = "created" <=> r \in MsgIds
  BY <1>1, <1>3 DEF MessagePayload, EventGood
<1>4. CASE /\ r \in ReadReqs
           /\ e = [id |-> r, type |-> "read", ch |-> req[r].ch,
                     version |-> req[r].version, user |-> req[r].actor,
                     lastRead |-> req[r].read]
  BY <1>1, <1>2, <1>4 DEF ReqGood, ReadGood, EventGood
<1> QED BY <1>1, <1>3, <1>4

LEMMA NextRequests ==
  ASSUME Forward, RevisionsDistinct
  PROVE  (\A r \in Reqs : ReqGood(r)') /\ RevisionsDistinct'
<1>1. TypeInv /\ HistoryInv
  BY DEF Forward, Intact, HistoryInv
<1>2. ASSUME NEW r \in Reqs, OthersSame(r), StaysGood(r)
      PROVE  (\A s \in Reqs : ReqGood(s)') /\ RevisionsDistinct'
  <2>1. \A s \in Reqs : ReqGood(s)'
    BY <1>2, OthersStayGood DEF StaysGood, OthersSame
  <2>2. \A s \in Reqs : s # r => /\ Changed(s)' <=> Changed(s)
                                 /\ Subject(s)' = Subject(s) /\ req'[s].doc = req[s].doc
    BY <1>2 DEF OthersSame, Changed, Subject
  <2>3. ASSUME NEW s \in MsgIds \cup ReviseReqs, NEW t \in MsgIds \cup ReviseReqs,
               Changed(s)', Changed(t)', Subject(s)' = Subject(t)',
               req'[s].doc.rev = req'[t].doc.rev, s # t
        PROVE  FALSE
    <3>1. s \in Reqs /\ t \in Reqs
      BY DEF Reqs
    <3>2. CASE s # r /\ t # r
      BY <2>2, <2>3, <3>1, <3>2 DEF RevisionsDistinct
    <3>3. CASE s = r
      BY <1>2, <2>2, <2>3, <3>1, <3>3 DEF RevisionsDistinct, StaysGood, NoTwin
    <3>4. CASE t = r
      BY <1>2, <2>2, <2>3, <3>1, <3>4 DEF RevisionsDistinct, StaysGood, NoTwin
    <3> QED BY <3>2, <3>3, <3>4
  <2>4. RevisionsDistinct'
    BY <2>3 DEF RevisionsDistinct
  <2> QED BY <2>1, <2>4
<1>3. CASE UNCHANGED req
  <2>1. \A s \in Reqs : ReqGood(s)'
    BY <1>3, OthersStayGood
  <2>2. \A s \in Reqs : /\ Changed(s)' <=> Changed(s)
                        /\ Subject(s)' = Subject(s) /\ req'[s].doc = req[s].doc
    BY <1>3 DEF Changed, Subject
  <2>3. RevisionsDistinct'
    BY <2>2 DEF RevisionsDistinct, Reqs
  <2> QED BY <2>1, <2>3
<1>4. ASSUME NEW r \in MsgIds, Send(r) PROVE r \in Reqs /\ OthersSame(r) /\ StaysGood(r)
  BY <1>1, <1>4, SendSteps, SendGood, Kinds DEF Steps
<1>5. ASSUME NEW r \in ReviseReqs, Revise(r) PROVE r \in Reqs /\ OthersSame(r) /\ StaysGood(r)
  BY <1>1, <1>5, ReviseSteps, ReviseReqGood, Kinds DEF Steps
<1>6. ASSUME NEW r \in ReadReqs, Read(r) PROVE r \in Reqs /\ OthersSame(r) /\ StaysGood(r)
  BY <1>1, <1>6, ReadSteps, ReadReqGood, Kinds DEF Steps
<1>7. ASSUME NEW r \in Reqs, Abort(r) PROVE OthersSame(r) /\ StaysGood(r)
  BY <1>1, <1>7, AbortGood, AnswerKeeps DEF Abort
<1>8. ASSUME NEW c \in Channels, Deactivate(c) PROVE UNCHANGED req
  BY <1>8 DEF Deactivate
<1>9. \/ UNCHANGED req
      \/ \E r \in Reqs : OthersSame(r) /\ StaysGood(r)
  BY <1>4, <1>5, <1>6, <1>7, <1>8 DEF Forward, Next, vars
<1> QED BY <1>2, <1>3, <1>9

LEMMA InitChange == Init => ChangeInv
<1> SUFFICES ASSUME Init PROVE ChangeInv
  OBVIOUS
<1>1. HistoryInv /\ VersionsInv
  BY InitHistory, InitVersions
<1>2. \A r \in Reqs : /\ req[r].pc = "idle" /\ req[r].status = "pending"
                      /\ req[r].msg = None /\ req[r].version = 0
  BY DEF Init, Idle
<1>3. \A r \in Reqs : ~Changed(r) /\ ~Holds(r)
  BY <1>2 DEF Changed, Holds
<1>4. \A r \in Reqs : ReqGood(r)
  BY <1>2, <1>3, Kinds DEF ReqGood, PostGood, ReviseGood, ReadGood
<1>5. \A m \in MsgIds : messages[m] = NoDoc /\ m \notin Stored
  BY DEF Init, Stored, NoDoc
<1>6. RevisionsDistinct
  BY <1>3 DEF RevisionsDistinct, Reqs
<1>7. outbox = {}
  BY DEF Init
<1> QED BY <1>1, <1>4, <1>5, <1>6, <1>7 DEF ChangeInv, MessageGood

LEMMA StepChange == ChangeInv /\ [Next]_vars => ChangeInv'
<1> SUFFICES ASSUME ChangeInv, [Next]_vars PROVE ChangeInv'
  OBVIOUS
<1>1. HistoryInv /\ VersionsInv /\ HistoryInv' /\ VersionsInv'
  BY StepHistory, StepVersions DEF ChangeInv
<1>2. Forward /\ RevisionsDistinct
  BY <1>1, NextSteps DEF Forward, Intact, ChangeInv
<1>3. (\A r \in Reqs : ReqGood(r)') /\ RevisionsDistinct'
  BY <1>2, NextRequests
<1>4. \A m \in MsgIds : MessageGood(m)'
  BY <1>2, NextMessages
<1>5. EventStep
  BY <1>2, NextEvents
<1>6. \A e \in outbox' : EventGood(e)'
  BY <1>2, <1>5, OldEventsGood, NewEventGood DEF ChangeInv
<1> QED BY <1>1, <1>3, <1>4, <1>6 DEF ChangeInv

LEMMA ChangeInvariant == Spec => []ChangeInv
  BY InitChange, StepChange, PTL DEF Spec
-----------------------------------------------------------------------------
(* What follows from it *)

\* A message answered 201 is covered by the summary of its channel, in
\* whatever order the posts get there (message.repo.go:111-137).
THEOREM CoveredWhenCreated == Spec => []SummaryCoversCreated
<1>1. ChangeInv => SummaryCoversCreated
  BY Kinds DEF ChangeInv, ReqGood, PostGood, SummaryCoversCreated
<1> QED BY <1>1, ChangeInvariant, PTL

\* An edit or a recall changes the very document it was authorised on,
\* although the read and the write are calls of their own
\* (message.service.go:169-237, message.repo.go:219-254).
THEOREM AuthorisedOnWhatIsChanged == Spec => FirstCommitterWins
<1>1. ASSUME ChangeInv, [Next]_vars
      PROVE  [\A r \in ReviseReqs :
                At(r, "cas") /\ req'[r].pc = "bump" =>
                  /\ messages[req[r].msg] = req[r].doc
                  /\ req[r].doc.sender = req[r].actor]_vars
  <2>1. SUFFICES ASSUME NEW r \in ReviseReqs, At(r, "cas"), req'[r].pc = "bump"
                 PROVE  messages[req[r].msg] = req[r].doc /\ req[r].doc.sender = req[r].actor
    OBVIOUS
  <2>2. /\ HistoryInv /\ TypeInv /\ r \in Reqs /\ ReqGood(r) /\ req[r].pc = "cas"
    BY <1>1, <2>1, Kinds DEF ChangeInv, HistoryInv, At
  <2>3. CompareAndSet(r) /\ Unchanged(r)
    <3>1. ASSUME NEW s \in Reqs, OthersSame(s) PROVE s = r
      BY <2>1, <2>2, <3>1 DEF OthersSame
    <3>2. ~UNCHANGED req
      BY <2>1, <2>2
    <3>3. \A s \in MsgIds : ~Send(s)
      BY <2>2, <3>1, SendSteps, Kinds DEF Steps
    <3>4. \A s \in ReadReqs : ~Read(s)
      BY <2>2, <3>1, ReadSteps, Kinds DEF Steps
    <3>5. \A s \in Reqs : ~Abort(s)
      BY <2>1, <2>2, <3>1, AnswerKeeps DEF Abort
    <3>6. Revise(r)
      <4>1. \A s \in ReviseReqs : Revise(s) => s = r
        BY <2>2, <3>1, ReviseSteps, Kinds DEF Steps
      <4> QED BY <1>1, <3>2, <3>3, <3>4, <3>5, <4>1 DEF Next, Deactivate, vars
    <3>7. CompareAndSet(r)
      BY <2>2, <3>6 DEF Revise, ReviseRefused, ReviseGet, Authorize, ReviseBump,
         RevisedEvent, At
    <3>8. ~Answer(r, "conflict")
      BY <2>1, <2>2, AnswerKeeps
    <3> QED BY <3>7, <3>8 DEF CompareAndSet
  <2>4. req[r].msg \in Stored /\ messages[req[r].msg].rev = req[r].doc.rev
    BY <2>3 DEF Unchanged
  <2>5. req[r].msg # None
    BY <2>4, RequestsAssumption DEF Stored, Reqs
  <2>6. Faithful(r) /\ Subject(r) = req[r].msg /\ ReviseGood(r)
    BY <2>2, <2>5, Kinds DEF ReqGood, Holds, Subject
  <2> QED BY <2>2, <2>4, <2>6 DEF Faithful, ReviseGood
<1> QED BY <1>1, ChangeInvariant, PTL DEF Spec, FirstCommitterWins

\* A recall answered 200 is final: no edit under way brings content back
\* (message.repo.go:219-254).
THEOREM RecallsAreFinal == Spec => []RecallIsFinal
<1>1. ChangeInv => RecallIsFinal
  <2> SUFFICES ASSUME ChangeInv, NEW r \in RecallReqs,
                      req[r].status \in {"revised", "unchanged"}
               PROVE  /\ req[r].doc.recalled /\ req[r].doc.content = Blank
                      /\ messages[req[r].msg] \in {req[r].doc, NoDoc}
    BY DEF RecallIsFinal
  <2>1. r \in ReviseReqs /\ r \in Reqs /\ ReqGood(r)
    BY DEF ReviseReqs, Reqs, ChangeInv
  <2>2. req[r].msg # None /\ req[r].doc.recalled
    BY <2>1 DEF ReqGood, ReviseGood
  <2>3. Faithful(r) /\ Subject(r) = req[r].msg
    BY <2>1, <2>2, Kinds DEF ReqGood, Holds, Subject
  <2> QED BY <2>2, <2>3 DEF Faithful
<1> QED BY <1>1, ChangeInvariant, PTL

\* Events tell the history of their messages, however late they are written
\* (message.repo.go:120-172, 256-299).
THEOREM TrueEvents == Spec => []EventsTellHistory
<1>1. ChangeInv => EventsTellHistory
  <2> SUFFICES ASSUME ChangeInv, NEW e \in outbox, e.type # "read"
               PROVE  /\ channels[e.ch].active \/ e.type = "created"
                           => e.msg \in InChannel(e.ch)
                      /\ e.msg \in Stored =>
                           /\ messages[e.msg].seq = e.seq
                           /\ messages[e.msg].rev >= e.rev
                           /\ messages[e.msg].rev = e.rev =>
                                /\ messages[e.msg].content = e.content
                                /\ messages[e.msg].recalled = e.recalled
                      /\ \A f \in outbox :
                           f.type # "read" /\ f.msg = e.msg /\ f.rev = e.rev => f = e
    BY DEF EventsTellHistory
  <2>1. \A f \in outbox : f.type # "read" =>
          /\ f.id \in MsgIds \cup ReviseReqs /\ f.id \in Reqs
          /\ EventGood(f) /\ req[f.id].ch = f.ch /\ req[f.id].version > 0
          /\ Changed(f.id) /\ Holds(f.id) /\ Faithful(f.id)
    <3>1. ASSUME NEW f \in outbox, f.type # "read"
          PROVE  /\ f.id \in MsgIds \cup ReviseReqs /\ EventGood(f)
                 /\ req[f.id].ch = f.ch /\ req[f.id].version > 0
      BY <3>1 DEF ChangeInv, EventGood, VersionsInv, EventInv
    <3>2. ASSUME NEW f \in outbox, f.type # "read" PROVE Changed(f.id) /\ f.id \in Reqs
      BY <3>1, <3>2, Kinds DEF Changed
    <3> QED BY <3>1, <3>2 DEF Holds, ChangeInv, ReqGood
  <2> DEFINE r == e.id
             d == req[r].doc
  <2>2. /\ r \in MsgIds \cup ReviseReqs /\ r \in Reqs /\ Faithful(r) /\ EventGood(e)
        /\ req[r].ch = e.ch /\ req[r].version > 0 /\ Changed(r)
    BY <2>1
  <2>3. /\ e.msg = Subject(r) /\ e.seq = d.seq /\ e.rev = d.rev
        /\ e.recalled = d.recalled /\ e.content = d.content
        /\ e.type = "created" => r \in MsgIds
    BY <2>2 DEF EventGood
  <2>4. e.msg \in MsgIds /\ d.rev \in Nat /\ messages[e.msg].rev \in Nat
    BY <2>2, <2>3 DEF Faithful, ChangeInv, HistoryInv, TypeInv, TypeOK, Request, Message
  <2>5. channels[e.ch].active \/ e.type = "created" => e.msg \in InChannel(e.ch)
    <3>1. ASSUME r \in MsgIds PROVE e.msg \in Stored
      BY <2>2, <2>3, <3>1 DEF ChangeInv, ReqGood, PostGood, Subject
    <3>2. channels[e.ch].active => e.msg \in Stored
      BY <2>2, <2>3 DEF Faithful
    <3> QED BY <2>2, <2>3, <3>1, <3>2 DEF Faithful, InChannel
  <2>6. e.msg \in Stored =>
                           /\ messages[e.msg].seq = e.seq
                           /\ messages[e.msg].rev >= e.rev
                           /\ messages[e.msg].rev = e.rev =>
                                /\ messages[e.msg].content = e.content
                                /\ messages[e.msg].recalled = e.recalled
    BY <2>2, <2>3, <2>4 DEF Faithful
  <2>7. ASSUME NEW f \in outbox, f.type # "read", f.msg = e.msg, f.rev = e.rev
        PROVE  f = e
    <3>1. Subject(f.id) = Subject(r) /\ req[f.id].doc.rev = d.rev
      BY <2>1, <2>3, <2>7 DEF EventGood
    <3>2. f.id = r
      BY <2>1, <2>2, <2>7, <3>1 DEF ChangeInv, RevisionsDistinct
    <3> QED BY <3>2 DEF ChangeInv, VersionsInv, EventInv
  <2> QED BY <2>5, <2>6, <2>7
<1> QED BY <1>1, ChangeInvariant, PTL

\* The event of a cursor tells of no less than its request asked for, and of
\* nothing the cursor has not reached (message.repo.go:301-370).
THEOREM TrueCursorEvents == Spec => []CursorEventsCoverRequest
<1>1. ChangeInv => CursorEventsCoverRequest
  BY DEF ChangeInv, EventGood, CursorEventsCoverRequest
<1> QED BY <1>1, ChangeInvariant, PTL
-----------------------------------------------------------------------------
(* The history of ChatHistory *)

\* A version is either kept, with all its request says, or the next one of the
\* channel.
VersionStep(r) ==
  \/ /\ req'[r].version = req[r].version
     /\ req[r].version > 0 =>
          /\ req'[r].ch = req[r].ch /\ req'[r].doc = req[r].doc
          /\ Subject(r)' = Subject(r)
  \/ /\ req[r].version = 0 /\ req'[r].ch = req[r].ch
     /\ req'[r].version = channels[req[r].ch].version + 1

LEMMA KeepsVersion ==
  ASSUME NEW r \in Reqs, req'[r].version = req[r].version, Kept(r)
  PROVE  VersionStep(r)
  BY DEF VersionStep, Kept, Subject

LEMMA NoVersionYet ==
  ASSUME VersionsInv, NEW r \in Reqs, req[r].pc \notin {"event", "done"},
         req'[r].version = req[r].version
  PROVE  VersionStep(r)
  BY DEF VersionStep, VersionsInv, VersionInv

LEMMA SendVersion ==
  ASSUME TypeInv, VersionsInv, NEW r \in MsgIds, Send(r)
  PROVE  VersionStep(r)
<1>1. r \in Reqs
  BY Kinds
<1>2. CASE PostingRead(r)
  BY <1>1, <1>2, NoVersionYet DEF PostingRead
<1>3. CASE Insert(r) /\ ~Goto(r, "relookup")
  BY <1>1, <1>3, InsertKeeps, NoVersionYet
<1>4. CASE Insert(r) /\ Goto(r, "relookup")
  BY <1>1, <1>4, GotoKeeps, KeepsVersion
<1>5. CASE Summary(r)
  <2>1. CASE Goto(r, "undo")
    BY <1>1, <2>1, GotoKeeps, KeepsVersion
  <2>2. CASE TakeVersion(r, Summarized(channels[req[r].ch], r))
    <3>1. UnderWay(r) /\ req[r].version = 0
      BY <1>1, <1>5 DEF Summary, At, UnderWay, VersionsInv, VersionInv
    <3>2. Summarized(channels[req[r].ch], r).version = channels[req[r].ch].version + 1
      BY <1>1, <3>1, BumpFields
    <3> QED BY <1>1, <2>2, <3>1, <3>2, TakeVersionKeeps DEF VersionStep, Kept
  <2> QED BY <1>5, <2>1, <2>2 DEF Summary
<1>6. CASE Undo(r)
  BY <1>1, <1>6, AnswerKeeps, KeepsVersion DEF Undo
<1>7. CASE CreatedEvent(r)
  BY <1>1, <1>7, CreatedEventKeeps DEF VersionStep, Subject
<1> QED BY <1>1, <1>2, <1>3, <1>4, <1>5, <1>6, <1>7, PostingReads DEF Send

LEMMA ReviseVersion ==
  ASSUME TypeInv, VersionsInv, NEW r \in ReviseReqs, Revise(r)
  PROVE  VersionStep(r)
<1>1. r \in Reqs
  BY Kinds
<1>2. ASSUME NEW t, Answer(r, t) PROVE VersionStep(r)
  BY <1>1, <1>2, AnswerKeeps, KeepsVersion
<1>3. ASSUME NEW p, Goto(r, p) PROVE VersionStep(r)
  BY <1>1, <1>3, GotoKeeps, KeepsVersion
<1>4. CASE ReviseGet(r)
  BY <1>1, <1>4, ReviseGetKeeps, NoVersionYet
<1>5. CASE CompareAndSet(r) /\ Unchanged(r)
  BY <1>1, <1>5, CompareAndSetKeeps, NoVersionYet
<1>6. CASE ReviseBump(r)
  <2>1. CASE TakeVersion(r, [channels[req[r].ch] EXCEPT !.version = @ + 1])
    <3>1. UnderWay(r) /\ req[r].version = 0
      BY <1>1, <1>6 DEF ReviseBump, At, UnderWay, VersionsInv, VersionInv
    <3>2. [channels[req[r].ch] EXCEPT !.version = @ + 1].version
            = channels[req[r].ch].version + 1
      BY <1>1, <3>1, BumpFields
    <3> QED BY <1>1, <2>1, <3>1, <3>2, TakeVersionKeeps DEF VersionStep, Kept
  <2> QED BY <1>2, <1>6, <2>1 DEF ReviseBump
<1>7. CASE ReviseRefused(r)
  BY <1>2, <1>7 DEF ReviseRefused
<1>8. CASE Authorize(r)
  BY <1>2, <1>3, <1>8 DEF Authorize
<1>9. CASE CompareAndSet(r) /\ ~Unchanged(r)
  BY <1>2, <1>9 DEF CompareAndSet
<1>10. CASE RevisedEvent(r)
  BY <1>2, <1>10 DEF RevisedEvent
<1> QED BY <1>4, <1>5, <1>6, <1>7, <1>8, <1>9, <1>10 DEF Revise

LEMMA NextVersions ==
  ASSUME ChangeInv, [Next]_vars, NEW r \in MsgIds \cup ReviseReqs
  PROVE  VersionStep(r)
<1>1. HistoryInv /\ TypeInv /\ VersionsInv /\ r \in Reqs
  BY Kinds DEF ChangeInv, HistoryInv
<1>2. CASE req'[r] = req[r]
  BY <1>2 DEF VersionStep, Subject
<1>3. ASSUME NEW s \in Reqs, s # r, OthersSame(s) PROVE VersionStep(r)
  BY <1>1, <1>2, <1>3 DEF OthersSame
<1>4. ASSUME NEW s \in MsgIds, Send(s) PROVE VersionStep(r)
  BY <1>1, <1>3, <1>4, SendSteps, SendVersion, Kinds DEF Steps
<1>5. ASSUME NEW s \in ReviseReqs, Revise(s) PROVE VersionStep(r)
  BY <1>1, <1>3, <1>5, ReviseSteps, ReviseVersion, Kinds DEF Steps
<1>6. ASSUME NEW s \in ReadReqs, Read(s) PROVE VersionStep(r)
  BY <1>1, <1>3, <1>6, ReadSteps, Kinds DEF Steps
<1>7. ASSUME NEW s \in Reqs, Abort(s) PROVE VersionStep(r)
  BY <1>1, <1>3, <1>7, AnswerKeeps, KeepsVersion DEF Abort
<1>8. CASE UNCHANGED req
  BY <1>2, <1>8
<1>9. (\E c \in Channels : Deactivate(c)) => UNCHANGED req
  BY DEF Deactivate
<1> QED BY <1>4, <1>5, <1>6, <1>7, <1>8, <1>9 DEF Next, vars

\* A step is one of the history's or does not show in it, and a channel is
\* told of a message that is announced by then.
Told(c) ==
  \/ channels'[c].lastMsg = channels[c].lastMsg
  \/ /\ channels'[c].lastMsg \in MsgIds
     /\ req'[channels'[c].lastMsg].version > 0

Mapped ==
  /\ [History!HNext]_History!hvars
  /\ \A c \in Channels : Told(c)

LEMMA QuietMapped ==
  ASSUME SameHistory, UNCHANGED messages, NEW r \in Reqs, OthersSame(r),
         r \in MsgIds => req'[r].version = req[r].version
  PROVE  Mapped
<1>1. \A m \in MsgIds : req'[m].version = req[m].version
  BY Kinds DEF OthersSame
<1>2. UNCHANGED History!hvars
  BY <1>1 DEF History!hvars, SameHistory
<1>3. \A c \in Channels : Told(c)
  BY DEF Told, SameHistory
<1> QED BY <1>2, <1>3 DEF Mapped

LEMMA InsertMapped ==
  ASSUME AnnounceInv, NEW r \in MsgIds, Insert(r), ~Goto(r, "relookup")
  PROVE  Mapped
<1>1. /\ HistoryInv /\ TypeInv /\ r \in Reqs /\ messages \in [MsgIds -> Message]
      /\ \A m \in MsgIds : MessageGood(m)
      /\ r \notin Stored => messages[r] = NoDoc
  BY Kinds DEF AnnounceInv, ChangeInv, HistoryInv, TypeInv, TypeOK, MessageGood
<1>2. /\ req[r].pc = "insert" /\ OthersSame(r) /\ req'[r].version = req[r].version
      /\ ~SeqTaken(r) /\ messages' = [messages EXCEPT ![r] = Candidate(r)]
      /\ UNCHANGED <<channels, states, outbox>>
  BY <1>1, InsertKeeps
<1>3. ~KeyTaken(r) /\ Chosen(r) /\ UnderWay(r) /\ req[r].key \in Keys
  BY <1>1, <1>2
  DEF Insert, HistoryInv, SendReqInv, UnderWay, AnnounceInv, KeyKnown
<1>4. req[r].ch \in Channels /\ req[r].actor \in Users /\ req[r].body \in Bodies
  BY <1>1, <1>3 DEF TypeInv, Addressed
<1>5. r \notin Stored
  BY <1>1, <1>2, InsertedMessage
<1> DEFINE c == req[r].ch
           s == req[r].seq
           taken == {messages[n].seq : n \in InChannel(c)}
<1>6. s \in Nat /\ s > 0 /\ s \notin taken
  BY <1>1, <1>2, <1>3 DEF TypeInv, TypeOK, Request, Chosen, SeqTaken
<1>7. ASSUME channels[c].active PROVE taken = 1..(s - 1)
  <2>1. \A n \in InChannel(c) : messages[n].seq \in Nat /\ messages[n].seq > 0
    BY <1>1 DEF InChannel, Stored, Message
  <2>2. ASSUME NEW n \in InChannel(c) PROVE messages[n].seq < s
    <3>1. CASE s < messages[n].seq
      <4>1. s \in 1..(messages[n].seq - 1)
        BY <1>6, <2>1, <3>1
      <4>2. \E o \in InChannel(c) : messages[o].seq = s
        BY <1>1, <1>4, <1>7, <4>1 DEF HistoryInv, NoGaps
      <4> QED BY <1>6, <4>2
    <3> QED BY <1>6, <2>1, <3>1
  <2>3. \A k \in 1..(s - 1) : k \in taken
    BY <1>2, <1>3, <1>7 DEF Chosen, SeqStored
  <2> QED BY <1>6, <2>1, <2>2, <2>3
<1>8. History!Posts(c) = InChannel(c) /\ History!SeqsOf(c) = taken
  BY DEF History!Posts, History!SeqsOf, InChannel, Stored
<1>9. \A m \in MsgIds : messages'[m] = IF m = r THEN Candidate(r) ELSE messages[m]
  BY <1>1, <1>2
<1>10. \A j \in InChannel(c) : ~(messages[j].sender = req[r].actor /\ messages[j].key = req[r].key)
  BY <1>3 DEF KeyTaken, SameKey
<1>11. History!PostMessage(r)
  <2> DEFINE Post(m) == [ch |-> messages[m].ch, sender |-> messages[m].sender,
                         key |-> messages[m].key, seq |-> messages[m].seq]
             Text(m) == [rev |-> messages[m].rev, recalled |-> messages[m].recalled,
                         content |-> messages[m].content]
             post == [m \in MsgIds |-> Post(m)]
             text == [m \in MsgIds |-> Text(m)]
             new  == [ch |-> c, sender |-> req[r].actor, key |-> req[r].key, seq |-> s]
             said == [rev |-> 1, recalled |-> FALSE, content |-> req[r].body]
  <2>1. post[r] = History!Unposted
    BY <1>1, <1>5 DEF NoDoc, History!Unposted
  <2>2. /\ post' = [post EXCEPT ![r] = new] /\ post'[r].seq = s
        /\ text' = [text EXCEPT ![r] = said]
    <3>1. Post(r)' = new /\ Text(r)' = said
      <4>1. messages'[r] = Candidate(r)
        BY <1>9
      <4>2. /\ messages'[r].ch = c /\ messages'[r].sender = req[r].actor
            /\ messages'[r].key = req[r].key /\ messages'[r].seq = s
            /\ messages'[r].rev = 1 /\ messages'[r].recalled = FALSE
            /\ messages'[r].content = req[r].body
        BY <4>1 DEF Candidate
      <4> QED BY <4>2
    <3>2. \A m \in MsgIds : m # r => Post(m)' = Post(m) /\ Text(m)' = Text(m)
      BY <1>9
    <3>3. post' = [m \in MsgIds |-> Post(m)'] /\ text' = [m \in MsgIds |-> Text(m)']
      OBVIOUS
    <3>4. new.seq = s
      OBVIOUS
    <3> HIDE DEF Post, Text, new, said
    <3> QED BY <3>1, <3>2, <3>3, <3>4
  <2>4. \A j \in InChannel(c) : ~(post[j].sender = req[r].actor /\ post[j].key = req[r].key)
    BY <1>10 DEF InChannel, Stored
  <2>5. {m \in MsgIds : req'[m].version > 0} = {m \in MsgIds : req[m].version > 0}
    BY <1>2, Kinds DEF OthersSame
  <2>6. [d \in Channels |-> channels[d].active][c] = channels[c].active
    BY <1>4
  <2> DEFINE Joins(d, u, k, b) ==
               LET q == post'[r].seq IN
                 /\ q \in Nat \ History!SeqsOf(d) /\ q > 0
                 /\ [e \in Channels |-> channels[e].active][d]
                      => History!SeqsOf(d) = 1..(q - 1)
                 /\ \A j \in History!Posts(d) : ~(post[j].sender = u /\ post[j].key = k)
                 /\ post' = [post EXCEPT ![r] =
                               [ch |-> d, sender |-> u, key |-> k, seq |-> q]]
                 /\ text' = [text EXCEPT ![r] =
                               [rev |-> 1, recalled |-> FALSE, content |-> b]]
  <2>7. Joins(c, req[r].actor, req[r].key, req[r].body)
    <3> HIDE DEF post, text
    <3> QED BY <1>6, <1>7, <1>8, <2>2, <2>4, <2>6
  <2>8. \E d \in Channels, u \in Users, k \in Keys, b \in Bodies \cup EditReqs :
          Joins(d, u, k, b)
    <3>1. /\ c \in Channels /\ req[r].actor \in Users /\ req[r].key \in Keys
          /\ req[r].body \in Bodies \cup EditReqs
      BY <1>3, <1>4
    <3>2. PICK d \in Channels, u \in Users, k \in Keys, b \in Bodies \cup EditReqs :
            d = c /\ u = req[r].actor /\ k = req[r].key /\ b = req[r].body
      BY <3>1
    <3>3. Joins(d, u, k, b)
      <4> HIDE DEF post, text
      <4> QED BY <2>7, <3>2
    <3> HIDE DEF Joins
    <3> QED BY <3>3
  <2> QED BY <1>2, <2>1, <2>5, <2>8 DEF History!PostMessage
<1>12. \A d \in Channels : Told(d)
  BY <1>2 DEF Told
<1> QED BY <1>11, <1>12 DEF Mapped, History!HNext

LEMMA SummaryMapped ==
  ASSUME AnnounceInv, NEW r \in MsgIds, Summary(r),
         TakeVersion(r, Summarized(channels[req[r].ch], r))
  PROVE  Mapped
<1>1. /\ HistoryInv /\ TypeInv /\ VersionsInv /\ r \in Reqs /\ Owned(r)
      /\ channels \in [Channels -> Channel]
  BY Kinds
  DEF AnnounceInv, ChangeInv, HistoryInv, TypeInv, TypeOK, SendReqInv
<1> DEFINE c   == req[r].ch
           new == Summarized(channels[c], r)
<1>2. /\ req'[r].pc = "event" /\ req'[r].version = new.version /\ OthersSame(r)
      /\ channels' = [channels EXCEPT ![c] = new]
  BY <1>1, TakeVersionFields
<1>3. req[r].pc = "summary" /\ UNCHANGED <<messages, states>> /\ ~Goto(r, "undo")
  BY <1>1, <1>2, GotoFields DEF Summary, At
<1>4. channels[c].active /\ c \in Channels /\ req[r].seq \in Nat /\ req[r].version = 0
  BY <1>1, <1>3
  DEF Summary, CanAccess, TypeInv, TypeOK, Addressed, UnderWay, Request, VersionsInv,
      VersionInv
<1>5. /\ new.active = channels[c].active /\ new.version = channels[c].version + 1
      /\ new.lastMsg \in {channels[c].lastMsg, r} /\ channels[c].version \in Nat
  <2>1. channels[c] \in Channel
    BY <1>1, <1>4
  <2> QED BY <1>4, <2>1, SummarizedFields DEF Channel
<1> HIDE DEF new
<1>6. /\ \A d \in Channels : channels'[d].active = channels[d].active
      /\ \A d \in Channels : channels'[d].lastMsg \in {channels[d].lastMsg, r}
      /\ req'[r].version > 0
  BY <1>1, <1>2, <1>5
<1>7. \A d \in Channels : Told(d)
  BY <1>6 DEF Told
<1>8. r \in Stored /\ messages[r].ch = c /\ messages[r].seq > 0
  BY <1>1, <1>3 DEF Owned, Stored
<1>9. History!Announce(r)
  <2>1. {m \in MsgIds : req'[m].version > 0} = {m \in MsgIds : req[m].version > 0} \cup {r}
    BY <1>2, <1>6, Kinds DEF OthersSame
  <2>2. [d \in Channels |-> channels'[d].active] = [d \in Channels |-> channels[d].active]
    BY <1>6
  <2> QED BY <1>3, <1>4, <1>8, <2>1, <2>2 DEF History!Announce, History!Unposted
<1> QED BY <1>7, <1>9 DEF Mapped, History!HNext

LEMMA WithdrawnMapped ==
  ASSUME AnnounceInv, NEW r \in MsgIds, Undo(r), messages' = [messages EXCEPT ![r] = NoDoc]
  PROVE  Mapped
<1>1. /\ HistoryInv /\ TypeInv /\ VersionsInv /\ r \in Reqs /\ SendReqInv(r)
      /\ messages \in [MsgIds -> Message] /\ req[r].pc = "undo"
  BY Kinds
  DEF AnnounceInv, ChangeInv, HistoryInv, TypeInv, TypeOK, Undo, At
<1>2. /\ req'[r].version = req[r].version /\ OthersSame(r)
      /\ UNCHANGED <<channels, states>>
  BY <1>1, AnswerFields DEF Undo
<1>3. /\ r \in Stored /\ messages[r].seq > 0 /\ req[r].version = 0
      /\ messages[r].ch \in Channels /\ ~channels[messages[r].ch].active
  BY <1>1
  DEF SendReqInv, Owned, Withdrawn, Stored, VersionsInv, VersionInv, TypeInv
<1>4. \A m \in MsgIds : messages'[m] = IF m = r THEN NoDoc ELSE messages[m]
  BY <1>1
<1>5. History!Withdraw(r)
  <2> DEFINE Post(m) == [ch |-> messages[m].ch, sender |-> messages[m].sender,
                         key |-> messages[m].key, seq |-> messages[m].seq]
             Text(m) == [rev |-> messages[m].rev, recalled |-> messages[m].recalled,
                         content |-> messages[m].content]
             post == [m \in MsgIds |-> Post(m)]
             text == [m \in MsgIds |-> Text(m)]
  <2>1. {m \in MsgIds : req'[m].version > 0} = {m \in MsgIds : req[m].version > 0}
    BY <1>2, Kinds DEF OthersSame
  <2>2. /\ post' = [post EXCEPT ![r] = History!Unposted]
        /\ text' = [text EXCEPT ![r] = History!Unsaid]
    <3>1. Post(r)' = History!Unposted /\ Text(r)' = History!Unsaid
      <4>1. messages'[r] = NoDoc
        BY <1>4
      <4>2. /\ messages'[r].ch = None /\ messages'[r].sender = None
            /\ messages'[r].key = None /\ messages'[r].seq = 0
            /\ messages'[r].rev = 0 /\ messages'[r].recalled = FALSE
            /\ messages'[r].content = Blank
        BY <4>1 DEF NoDoc
      <4> QED BY <4>2 DEF History!Unposted, History!Unsaid
    <3>2. \A m \in MsgIds : m # r => Post(m)' = Post(m) /\ Text(m)' = Text(m)
      BY <1>4
    <3>3. post' = [m \in MsgIds |-> Post(m)'] /\ text' = [m \in MsgIds |-> Text(m)']
      OBVIOUS
    <3> HIDE DEF Post, Text
    <3> QED BY <3>1, <3>2, <3>3
  <2>3. post[r].seq # 0 /\ post[r].ch = messages[r].ch
    BY <1>3
  <2>4. post[r] # History!Unposted
    BY <2>3 DEF History!Unposted
  <2>5. ~[d \in Channels |-> channels[d].active][post[r].ch]
    BY <1>3, <2>3
  <2>6. r \notin {m \in MsgIds : req[m].version > 0}
    BY <1>3
  <2> QED BY <1>2, <2>1, <2>2, <2>4, <2>5, <2>6 DEF History!Withdraw
<1>6. \A d \in Channels : Told(d)
  BY <1>2 DEF Told
<1> QED BY <1>5, <1>6 DEF Mapped, History!HNext

LEMMA RevisedMapped ==
  ASSUME AnnounceInv, NEW r \in ReviseReqs, CompareAndSet(r), Unchanged(r)
  PROVE  Mapped
<1>1. /\ HistoryInv /\ TypeInv /\ r \in Reqs /\ messages \in [MsgIds -> Message]
  BY Kinds DEF AnnounceInv, ChangeInv, HistoryInv, TypeInv, TypeOK
<1>0. PICK m \in MsgIds : m = req[r].msg
  BY DEF Unchanged, Stored
<1> DEFINE new == Revised(r, messages[m])
<1>2. /\ OthersSame(r) /\ req'[r].version = req[r].version
      /\ messages' = [messages EXCEPT ![m] = new] /\ UNCHANGED <<channels, states>>
  BY <1>0, <1>1, CompareAndSetKeeps
<1>3. messages[m].seq > 0 /\ ~messages[m].recalled
  BY <1>0 DEF Unchanged, Stored
<1>4. /\ new.ch = messages[m].ch /\ new.sender = messages[m].sender
      /\ new.key = messages[m].key /\ new.seq = messages[m].seq
      /\ new.rev = messages[m].rev + 1 /\ new.recalled = (r \in RecallReqs)
      /\ new.content = IF r \in EditReqs THEN r ELSE Blank
  <2> DEFINE t == IF r \in EditReqs THEN r ELSE Blank
             n == messages[m].rev + 1
             g == r \in RecallReqs
  <2>1. new = [messages[m] EXCEPT !.content = t, !.rev = n, !.recalled = g]
    BY DEF Revised
  <2> HIDE DEF t, n, g, new
  <2>2. /\ new.ch = messages[m].ch /\ new.sender = messages[m].sender
        /\ new.key = messages[m].key /\ new.seq = messages[m].seq
        /\ new.rev = n /\ new.recalled = g /\ new.content = t
    BY <1>1, <1>3, <2>1 DEF Message
  <2> QED BY <2>2 DEF t, n, g
<1> HIDE DEF new
<1>5. \A i \in MsgIds : messages'[i] = IF i = m THEN new ELSE messages[i]
  BY <1>1, <1>2, <1>3
<1>6. History!ReviseText(m)
  <2> DEFINE Post(i) == [ch |-> messages[i].ch, sender |-> messages[i].sender,
                         key |-> messages[i].key, seq |-> messages[i].seq]
             Text(i) == [rev |-> messages[i].rev, recalled |-> messages[i].recalled,
                         content |-> messages[i].content]
             post == [i \in MsgIds |-> Post(i)]
             text == [i \in MsgIds |-> Text(i)]
             gone == r \in RecallReqs
             said == IF r \in EditReqs THEN r ELSE Blank
             Says(g, b) ==
               text' = [text EXCEPT ![m] =
                          [rev |-> text[m].rev + 1, recalled |-> g, content |-> b]]
  <2>1. {i \in MsgIds : req'[i].version > 0} = {i \in MsgIds : req[i].version > 0}
    BY <1>2, Kinds DEF OthersSame
  <2>2. post' = post
    BY <1>3, <1>4, <1>5
  <2>3. Says(gone, said)
    <3>1. Text(m)' = [rev |-> messages[m].rev + 1, recalled |-> gone, content |-> said]
      <4>1. messages'[m] = new
        BY <1>5
      <4>2. /\ messages'[m].rev = messages[m].rev + 1
            /\ messages'[m].recalled = gone /\ messages'[m].content = said
        BY <1>4, <4>1
      <4> HIDE DEF gone, said
      <4> QED BY <4>2
    <3>2. \A i \in MsgIds : i # m => Text(i)' = Text(i)
      BY <1>5
    <3>3. text' = [i \in MsgIds |-> Text(i)'] /\ text[m].rev = messages[m].rev
      OBVIOUS
    <3> HIDE DEF Text, gone, said
    <3>4. text' = [text EXCEPT ![m] = Text(m)']
      BY <3>2, <3>3
    <3> QED BY <3>1, <3>3, <3>4
  <2>4. \E g \in BOOLEAN : \E b \in IF g THEN {Blank} ELSE Bodies \cup EditReqs : Says(g, b)
    <3>1. CASE r \in EditReqs
      <4>1. gone = FALSE /\ said = r
        BY <3>1, RequestsAssumption
      <4> QED BY <2>3, <3>1, <4>1
    <3>2. CASE r \in RecallReqs
      <4>1. gone = TRUE /\ said = Blank
        BY <3>2, RequestsAssumption
      <4> QED BY <2>3, <3>2, <4>1
    <3> QED BY <3>1, <3>2 DEF ReviseReqs
  <2>5. post[m].seq # 0 /\ ~text[m].recalled
    BY <1>3
  <2>6. post[m] # History!Unposted
    BY <2>5 DEF History!Unposted
  <2> QED BY <1>2, <2>1, <2>2, <2>4, <2>5, <2>6 DEF History!ReviseText
<1>7. \A d \in Channels : Told(d)
  BY <1>2 DEF Told
<1> QED BY <1>3, <1>6, <1>7 DEF Mapped, History!HNext

\* The message a cursor is moved up to, or beyond, is the one the summary
\* names.
LEMMA CursorMapped ==
  ASSUME AnnounceInv, NEW r \in ReadReqs, UpdateCursor(r) \/ UpsertCursor(r),
         SetCursor(r), Behind(r) \/ Cursor(r) = 0
  PROVE  Mapped
<1>1. /\ HistoryInv /\ TypeInv /\ r \in Reqs /\ ReadReqInv(r)
      /\ states \in [Channels -> [Users -> Nat]] /\ messages \in [MsgIds -> Message]
      /\ channels \in [Channels -> Channel]
  BY Kinds DEF AnnounceInv, ChangeInv, HistoryInv, TypeInv, TypeOK
<1>2. /\ req[r].pc \in {"update", "upsert"} /\ UNCHANGED <<messages, channels>>
      /\ \E p \in {"fetch", "upsert", "peek"} : Goto(r, p)
  BY DEF UpdateCursor, UpsertCursor, At
<1>3. OthersSame(r)
  BY <1>1, <1>2, GotoFields
<1>4. PICK c \in Channels, u \in Users, s \in Nat :
        c = req[r].ch /\ u = req[r].actor /\ s = req[r].seq
  BY <1>1, <1>2 DEF TypeInv, TypeOK, Addressed, UnderWay, Request
<1>5. s > 0 /\ s <= channels[c].lastSeq /\ states[c][u] < s
  BY <1>1, <1>2, <1>4 DEF ReadReqInv, Behind, Cursor
<1>6. PICK i \in MsgIds : /\ i = channels[c].lastMsg
                          /\ messages[i].ch = c /\ messages[i].seq = channels[c].lastSeq
                          /\ req[i].version > 0
  <2>1. /\ channels[c].lastMsg \in InChannel(c)
        /\ messages[channels[c].lastMsg].seq = channels[c].lastSeq
    BY <1>1, <1>4, <1>5 DEF HistoryInv, SummaryPointsAtStored
  <2>2. channels[c].lastMsg \in MsgIds /\ channels[c].lastMsg # None
    BY <2>1, RequestsAssumption DEF InChannel, Stored, Reqs
  <2> QED BY <2>1, <2>2 DEF InChannel, AnnounceInv, LastAnnounced
<1>7. states' = [states EXCEPT ![c][u] = s]
  BY <1>4 DEF SetCursor
<1>8. {m \in MsgIds : req'[m].version > 0} = {m \in MsgIds : req[m].version > 0}
  BY <1>3, Kinds DEF OthersSame
<1>9. s \in (states[c][u] + 1)..messages[i].seq
  BY <1>1, <1>4, <1>5, <1>6 DEF Channel
<1>10. History!MarkRead(c, u)
  BY <1>2, <1>6, <1>7, <1>8, <1>9 DEF History!MarkRead
<1>11. \A d \in Channels : Told(d)
  BY <1>2 DEF Told
<1> QED BY <1>10, <1>11 DEF Mapped, History!HNext

LEMMA DeactivateMapped ==
  ASSUME TypeInv, NEW c \in Channels, Deactivate(c)
  PROVE  Mapped
<1>1. channels \in [Channels -> Channel]
  BY DEF TypeInv, TypeOK
<1>2. /\ \A d \in Channels : channels'[d].active = IF d = c THEN FALSE ELSE channels[d].active
      /\ \A d \in Channels : channels'[d].lastMsg = channels[d].lastMsg
      /\ channels[c].active /\ UNCHANGED <<messages, states, req>>
  BY <1>1 DEF Deactivate, Channel
<1>3. History!Close(c)
  BY <1>2 DEF History!Close
<1>4. \A d \in Channels : Told(d)
  BY <1>2 DEF Told
<1> QED BY <1>3, <1>4 DEF Mapped, History!HNext

LEMMA SendMapped ==
  ASSUME AnnounceInv, NEW r \in MsgIds, Send(r)
  PROVE  Mapped
<1>1. TypeInv /\ r \in Reqs
  BY Kinds DEF AnnounceInv, ChangeInv, HistoryInv
<1>2. CASE PostingRead(r)
  BY <1>1, <1>2, DocsSame, QuietMapped DEF PostingRead, docs
<1>3. CASE Insert(r) /\ ~Goto(r, "relookup")
  BY <1>3, InsertMapped
<1>4. CASE Insert(r) /\ Goto(r, "relookup")
  <2>1. req'[r].pc # "summary"
    BY <1>1, <1>4, GotoFields
  <2>2. UNCHANGED messages
    <3>1. CASE req' = [req EXCEPT ![r].pc = "summary", ![r].doc = Candidate(r)]
      <4>1. req'[r].pc = "summary"
        BY <1>1, <3>1 DEF TypeInv, TypeOK, Request
      <4> QED BY <2>1, <4>1
    <3> QED BY <1>4, <3>1 DEF Insert
  <2>3. PostingRead(r)
    BY <1>1, <1>4, <2>2, PostingReads
  <2> QED BY <1>2, <2>3
<1>5. CASE Summary(r)
  <2>1. CASE Goto(r, "undo") /\ UNCHANGED channels
    BY <1>1, <1>5, <2>1, GotoFields, DocsSame, QuietMapped DEF Summary
  <2>2. CASE TakeVersion(r, Summarized(channels[req[r].ch], r))
    BY <1>5, <2>2, SummaryMapped
  <2> QED BY <1>5, <2>1, <2>2 DEF Summary
<1>6. CASE Undo(r)
  <2>1. CASE UNCHANGED messages
    BY <1>1, <1>6, <2>1, AnswerFields, DocsSame, QuietMapped DEF Undo
  <2> QED BY <1>6, <2>1, WithdrawnMapped DEF Undo
<1>7. CASE CreatedEvent(r)
  BY <1>1, <1>7, CreatedEventKeeps, DocsSame, QuietMapped DEF CreatedEvent
<1> QED BY <1>1, <1>2, <1>3, <1>4, <1>5, <1>6, <1>7, PostingReads DEF Send

LEMMA ReviseMapped ==
  ASSUME AnnounceInv, NEW r \in ReviseReqs, Revise(r)
  PROVE  Mapped
<1>1. TypeInv /\ r \in Reqs /\ r \notin MsgIds
  BY Kinds, RequestsAssumption DEF AnnounceInv, ChangeInv, HistoryInv
<1>2. CASE CompareAndSet(r) /\ Unchanged(r)
  BY <1>2, RevisedMapped
<1>3. OthersSame(r)
  BY <1>1, ReviseSteps DEF AnnounceInv, ChangeInv, Steps
<1>4. CASE ~(CompareAndSet(r) /\ Unchanged(r))
  <2>1. /\ UNCHANGED <<messages, states>>
        /\ \/ UNCHANGED channels
           \/ TakeVersion(r, [channels[req[r].ch] EXCEPT !.version = @ + 1])
    BY <1>4
    DEF Revise, ReviseRefused, ReviseGet, Authorize, CompareAndSet, ReviseBump,
        RevisedEvent, docs
  <2> QED BY <1>1, <1>3, <2>1, VersionBumped, QuietMapped
<1> QED BY <1>2, <1>4

LEMMA ReadMapped ==
  ASSUME AnnounceInv, NEW r \in ReadReqs, Read(r)
  PROVE  Mapped
<1>1. TypeInv /\ r \in Reqs /\ r \notin MsgIds
  BY Kinds, RequestsAssumption DEF AnnounceInv, ChangeInv, HistoryInv
<1>2. CASE (UpdateCursor(r) \/ UpsertCursor(r)) /\ ~UNCHANGED states
  BY <1>2, CursorMapped DEF UpdateCursor, UpsertCursor
<1>3. OthersSame(r)
  BY <1>1, ReadSteps DEF AnnounceInv, ChangeInv, Steps
<1>4. CASE ~((UpdateCursor(r) \/ UpsertCursor(r)) /\ ~UNCHANGED states)
  <2>1. /\ UNCHANGED <<messages, states>>
        /\ \/ UNCHANGED channels
           \/ TakeVersion(r, [channels[req[r].ch] EXCEPT !.version = @ + 1])
    BY <1>4
    DEF Read, ReadGet, UpdateCursor, UpsertCursor, FetchCursor, PeekCursor, ReadBump,
        AdvancedEvent, docs
  <2> QED BY <1>1, <1>3, <2>1, VersionBumped, QuietMapped
<1> QED BY <1>2, <1>4

LEMMA NextMapped ==
  ASSUME AnnounceInv, [Next]_vars
  PROVE  Mapped
<1>1. TypeInv
  BY DEF AnnounceInv, ChangeInv, HistoryInv
<1>2. CASE UNCHANGED vars
  BY <1>2 DEF Mapped, Told, vars, History!hvars
<1>3. ASSUME NEW r \in Reqs, Abort(r) PROVE Mapped
  BY <1>1, <1>3, AnswerFields, DocsSame, QuietMapped DEF Abort, docs
<1> QED BY <1>1, <1>2, <1>3, SendMapped, ReviseMapped, ReadMapped, DeactivateMapped DEF Next

\* A post keeps the key it has come with.
LEMMA KeyStep ==
  ASSUME AnnounceInv, [Next]_vars, NEW r \in MsgIds
  PROVE  KeyKnown(r)'
<1>1. /\ HistoryInv /\ TypeInv /\ r \in Reqs /\ KeyKnown(r)
      /\ r \notin ReviseReqs /\ r \notin ReadReqs
  BY Kinds, RequestsAssumption DEF AnnounceInv, ChangeInv, HistoryInv
<1>2. CASE req'[r] = req[r]
  BY <1>1, <1>2 DEF KeyKnown
<1>3. ASSUME NEW s \in Reqs, s # r, OthersSame(s) PROVE KeyKnown(r)'
  BY <1>1, <1>2, <1>3 DEF OthersSame
<1>4. ASSUME req[r].pc # "idle", Kept(r) PROVE KeyKnown(r)'
  BY <1>1, <1>4 DEF KeyKnown, Kept
<1>5. ASSUME Send(r) PROVE KeyKnown(r)'
  <2>1. CASE PostingRead(r)
    BY <1>1, <2>1 DEF PostingRead, KeyKnown
  <2>2. CASE Insert(r) /\ ~Goto(r, "relookup")
    BY <1>1, <2>2, InsertKeeps DEF KeyKnown
  <2>3. CASE Insert(r) /\ Goto(r, "relookup")
    BY <1>1, <1>4, <2>3, GotoKeeps DEF Insert, At
  <2>4. CASE Summary(r)
    BY <1>1, <1>4, <2>4, GotoKeeps, TakeVersionKeeps DEF Summary, At
  <2>5. CASE Undo(r)
    BY <1>1, <1>4, <2>5, AnswerKeeps DEF Undo, At
  <2>6. CASE CreatedEvent(r)
    BY <1>1, <2>6, CreatedEventKeeps DEF KeyKnown
  <2> QED BY <1>1, <1>5, <2>1, <2>2, <2>3, <2>4, <2>5, <2>6, PostingReads DEF Send
<1>6. ASSUME NEW s \in MsgIds, Send(s) PROVE KeyKnown(r)'
  BY <1>1, <1>3, <1>5, <1>6, SendSteps, Kinds DEF Steps
<1>7. ASSUME NEW s \in ReviseReqs, Revise(s) PROVE KeyKnown(r)'
  BY <1>1, <1>3, <1>7, ReviseSteps, Kinds DEF Steps
<1>8. ASSUME NEW s \in ReadReqs, Read(s) PROVE KeyKnown(r)'
  BY <1>1, <1>3, <1>8, ReadSteps, Kinds DEF Steps
<1>9. ASSUME NEW s \in Reqs, Abort(s) PROVE KeyKnown(r)'
  BY <1>1, <1>3, <1>4, <1>9, AnswerKeeps DEF Abort
<1>10. (\E c \in Channels : Deactivate(c)) => UNCHANGED req
  BY DEF Deactivate
<1> QED BY <1>2, <1>6, <1>7, <1>8, <1>9, <1>10 DEF Next, vars

LEMMA InitAnnounce == Init => AnnounceInv
<1> SUFFICES ASSUME Init PROVE AnnounceInv
  OBVIOUS
<1>1. \A r \in MsgIds : KeyKnown(r)
  BY Kinds DEF Init, Idle, KeyKnown
<1>2. LastAnnounced
  BY DEF Init, NewChannel, LastAnnounced
<1> QED BY <1>1, <1>2, InitChange DEF AnnounceInv

LEMMA StepAnnounce == AnnounceInv /\ [Next]_vars => AnnounceInv'
<1> SUFFICES ASSUME AnnounceInv, [Next]_vars PROVE AnnounceInv'
  OBVIOUS
<1>1. ChangeInv /\ TypeInv /\ ChangeInv'
  BY StepChange DEF AnnounceInv, ChangeInv, HistoryInv
<1>2. \A r \in MsgIds : KeyKnown(r)'
  BY KeyStep
<1>3. \A r \in MsgIds : req[r].version > 0 => req'[r].version > 0
  <2> TAKE r \in MsgIds
  <2>1. VersionStep(r)
    BY <1>1, NextVersions
  <2>2. req[r].version \in Nat
    BY <1>1, Kinds DEF TypeInv, TypeOK, Request
  <2> QED BY <2>1, <2>2 DEF VersionStep
<1>4. LastAnnounced'
  <2> SUFFICES ASSUME NEW c \in Channels, channels'[c].lastMsg # None
               PROVE  req'[channels'[c].lastMsg].version > 0
    BY DEF LastAnnounced
  <2>1. Told(c)
    BY NextMapped DEF Mapped
  <2>2. channels[c].lastMsg \in MsgIds \cup {None}
    BY <1>1 DEF TypeInv, TypeOK, Channel
  <2> QED BY <1>3, <2>1, <2>2 DEF Told, AnnounceInv, LastAnnounced
<1> QED BY <1>1, <1>2, <1>4 DEF AnnounceInv

\* The requests implement the history of ChatHistory, whatever their number
\* and however their calls interleave, fail or are cut off: a post, a revision,
\* a mark is there at one of its calls, and all the others do not show
\* (message.repo.go:44-370).
THEOREM HistoryImplemented == Spec => ImplementsHistory
<1>1. Init => History!HInit
  BY Kinds
  DEF Init, Idle, NoDoc, NewChannel, History!HInit, History!Unposted, History!Unsaid
<1>2. AnnounceInv /\ [Next]_vars => [History!HNext]_History!hvars
  BY NextMapped DEF Mapped
<1> QED BY <1>1, <1>2, InitAnnounce, StepAnnounce, PTL
        DEF Spec, ImplementsHistory, History!HSpec
=============================================================================

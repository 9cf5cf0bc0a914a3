---------------------------- MODULE ChatStoreInv ----------------------------
(***************************************************************************)
(* The inductive invariant of ChatStore: what a request at each of its     *)
(* calls may rely on although it reads the documents in calls of their own *)
(* and others write in between.  ChatStoreProofs proves it, and from it    *)
(* the properties of ChatStore.                                            *)
(***************************************************************************)
EXTENDS ChatStore

UnderWay(r) == req[r].pc \notin {"idle", "done"}

\* A request under way has the inputs its handler goes by, and a stored
\* message is in some channel.
Addressed(r) ==
  UnderWay(r) =>
    /\ req[r].actor \in Users /\ req[r].ch \in Channels
    /\ r \in MsgIds => req[r].body \in Bodies
    /\ r \in ReviseReqs => req[r].msg \in MsgIds

TypeInv ==
  /\ TypeOK
  /\ \A r \in Reqs : Addressed(r)
  /\ \A m \in Stored : messages[m].ch \in Channels
-----------------------------------------------------------------------------
\* The channel was open to the user when the request came; users are never
\* taken out of a channel, so only a cleared active flag can shut them out.
Admitted(r) == UnderWay(r) => req[r].actor \in Participants[req[r].ch]

\* A message is the work of its own request, which has it in hand until the
\* summary is written.
Owned(r) ==
  /\ r \in Stored => /\ req[r].pc \in {"summary", "undo", "event", "done"}
                     /\ messages[r].seq = req[r].seq
                     /\ messages[r].ch = req[r].ch
  /\ req[r].pc \in {"summary", "undo"} => r \in Stored

\* Before the summary is written the channel does not know of the message.
Unknown(r) ==
  req[r].pc \notin {"event", "done"} =>
    \A c \in Channels : channels[c].lastMsg # r

SeqStored(c, k) == \E n \in InChannel(c) : messages[n].seq = k

\* The summary was not ahead of the channel when it was read, and the
\* sequence chosen from it leaves no gap, though it may be taken by now.
Chosen(r) ==
  /\ req[r].pc = "latest" => req[r].seq <= channels[req[r].ch].lastSeq
  /\ req[r].pc = "insert" =>
       /\ req[r].seq > 0
       /\ channels[req[r].ch].active =>
            \A k \in 1..(req[r].seq - 1) : SeqStored(req[r].ch, k)

\* A message is withdrawn from a cleared channel only.
Withdrawn(r) == req[r].pc = "undo" => ~channels[req[r].ch].active

SendReqInv(r) ==
  Admitted(r) /\ Owned(r) /\ Unknown(r) /\ Chosen(r) /\ Withdrawn(r)

\* What is about to be marked as read is within the summary.
ReadReqInv(r) ==
  /\ Admitted(r)
  /\ req[r].pc \in {"update", "upsert"} =>
       /\ req[r].seq > 0
       /\ req[r].seq <= channels[req[r].ch].lastSeq

CursorInv ==
  \A c \in Channels : \A u \in Users : states[c][u] > 0 =>
    u \in Participants[c] /\ states[c][u] <= channels[c].lastSeq

HistoryInv ==
  /\ TypeInv
  /\ \A r \in MsgIds : SendReqInv(r)
  /\ \A r \in ReadReqs : ReadReqInv(r)
  /\ CursorInv
  /\ SequencesDistinct
  /\ NoGaps
  /\ SummaryPointsAtStored
-----------------------------------------------------------------------------
\* The versions handed out in a channel are different from one another and
\* not above the channel's; a request that waits to write its event has one.
VersionInv ==
  /\ \A r \in Reqs :
       /\ req[r].version > 0 => /\ req[r].ch \in Channels
                                /\ req[r].version <= channels[req[r].ch].version
       /\ req[r].pc = "event" => req[r].version > 0
       /\ req[r].pc \notin {"event", "done"} => req[r].version = 0
  /\ \A r, s \in Reqs :
       /\ req[r].version > 0 /\ req[r].version = req[s].version
       /\ req[r].ch = req[s].ch
       => r = s

\* An event carries the version of the request that wrote it, and a request
\* writes one event, with which it is done.
EventInv ==
  \A e \in outbox :
    /\ req[e.id].pc = "done"
    /\ req[e.id].version = e.version
    /\ req[e.id].ch = e.ch
    /\ e.version > 0
    /\ \A f \in outbox : e.id = f.id => e = f

VersionsInv == TypeInv /\ VersionInv /\ EventInv

-----------------------------------------------------------------------------
\* A request that has inserted its message or written its revision, and one
\* that goes by a copy of a message.
Changed(r) ==
  \/ r \in MsgIds /\ (req[r].pc \in {"summary", "undo", "event"} \/ req[r].version > 0)
  \/ r \in ReviseReqs /\ (req[r].pc \in {"bump", "event"} \/ req[r].version > 0)

Holds(r) == Changed(r) \/ (r \in ReviseReqs /\ req[r].msg # None)

\* The copy is the message at a revision it had: the latest, or an earlier one
\* that was not a recall.  A message that is gone does not come back.
Faithful(r) ==
  LET m == Subject(r)
      d == req[r].doc
  IN /\ m \in MsgIds
     /\ d.seq > 0 /\ d.rev > 0 /\ d.ch = req[r].ch /\ d.ch \in Channels
     /\ m \in Stored => /\ d.seq = messages[m].seq /\ d.ch = messages[m].ch
                        /\ d.rev <= messages[m].rev
                        /\ d.rev = messages[m].rev => d = messages[m]
     /\ m \notin Stored => req[m].pc = "done" /\ ~channels[d.ch].active
     /\ d.recalled => d.content = Blank /\ messages[m] \in {d, NoDoc}

PostGood(r) ==
  /\ req[r].pc = "summary" => req[r].doc.seq = req[r].seq
  /\ req[r].version > 0 => /\ r \in Stored
                           /\ req[r].doc.seq <= channels[req[r].ch].lastSeq
  /\ req[r].status = "created" => req[r].pc = "done" /\ req[r].version > 0

\* What is to be written was authorised, and a recall has its message recalled.
ReviseGood(r) ==
  /\ req[r].pc = "idle" => req[r].msg = None
  /\ req[r].pc = "cas" => req[r].doc.sender = req[r].actor
  /\ r \in RecallReqs =>
       /\ req[r].pc \in {"bump", "event"} => req[r].doc.recalled
       /\ req[r].status \in {"revised", "unchanged"} =>
            req[r].pc = "done" /\ req[r].msg # None /\ req[r].doc.recalled

\* The cursor has been moved to where the request wants it, or further.
ReadGood(r) ==
  /\ req[r].pc = "fetch" => req[r].seq <= states[req[r].ch][req[r].actor]
  /\ req[r].pc \in {"bump", "event"} =>
       /\ req[r].seq <= req[r].read
       /\ req[r].read <= states[req[r].ch][req[r].actor]

ReqGood(r) ==
  /\ Holds(r) => Faithful(r)
  /\ r \in MsgIds => PostGood(r)
  /\ r \in ReviseReqs => ReviseGood(r)
  /\ r \in ReadReqs => ReadGood(r)

\* Every revision of a message is one request's.
RevisionsDistinct ==
  \A r, s \in MsgIds \cup ReviseReqs :
    /\ Changed(r) /\ Changed(s) /\ Subject(r) = Subject(s)
    /\ req[r].doc.rev = req[s].doc.rev
    => r = s

MessageGood(m) ==
  /\ m \notin Stored => messages[m] = NoDoc
  /\ m \in Stored => /\ messages[m].rev > 0
                     /\ messages[m].recalled => messages[m].content = Blank

\* An event tells of its request's copy, or of where the cursor was.
EventGood(e) ==
  /\ e.type = "read" =>
       /\ e.id \in ReadReqs
       /\ req[e.id].seq <= e.lastRead /\ e.lastRead <= states[e.ch][e.user]
  /\ e.type # "read" =>
       /\ e.id \in MsgIds \cup ReviseReqs
       /\ e.type = "created" => e.id \in MsgIds
       /\ e.msg = Subject(e.id)
       /\ e.seq = req[e.id].doc.seq /\ e.rev = req[e.id].doc.rev
       /\ e.recalled = req[e.id].doc.recalled /\ e.content = req[e.id].doc.content

ChangeInv ==
  /\ HistoryInv
  /\ VersionsInv
  /\ \A r \in Reqs : ReqGood(r)
  /\ RevisionsDistinct
  /\ \A m \in MsgIds : MessageGood(m)
  /\ \A e \in outbox : EventGood(e)
-----------------------------------------------------------------------------
\* A post has come with a key, and the summary names a message only when its
\* request has taken a version for it, which is when it is announced.
KeyKnown(r) == req[r].pc # "idle" => req[r].key \in Keys

LastAnnounced ==
  \A c \in Channels : channels[c].lastMsg # None => req[channels[c].lastMsg].version > 0

AnnounceInv ==
  /\ ChangeInv
  /\ \A r \in MsgIds : KeyKnown(r)
  /\ LastAnnounced
-----------------------------------------------------------------------------
\* A post has the inputs it came with, and so does the message it wrote.
Written(m) ==
  m \in Stored =>
    /\ messages[m].sender = req[m].actor /\ messages[m].key = req[m].key
    /\ messages[m].kind = Kind(m) /\ messages[m].hash = RequestHash(m)

KeysDistinct ==
  \A m, n \in Stored :
    /\ messages[m].ch = messages[n].ch /\ messages[m].sender = messages[n].sender
    /\ messages[m].key = messages[n].key
    => m = n

\* A post that was answered with another one's message asked for that message,
\* which stays while the channel is in use.
AnswerGood(r) ==
  /\ req[r].status = "created" => req[r].msg = r
  /\ req[r].status = "existing" =>
       /\ req[r].pc = "done" /\ req[r].ch \in Channels /\ req[r].msg # r
       /\ channels[req[r].ch].active =>
            /\ req[r].msg \in SameKey(r)
            /\ messages[req[r].msg].hash = RequestHash(r)

\* The message to reply to was looked at before the others were read, and is
\* still what it was.
ReplyGood(r) ==
  LET t == req[r].reply IN
    /\ req[r].pc \in {"lookup", "channel", "latest", "insert", "relookup"}
    /\ t # None /\ channels[req[r].ch].active
    => /\ t \in InChannel(req[r].ch)
       /\ r \in AIReqs => messages[t].kind = "user" /\ messages[t].sender # req[r].actor

\* Each try of a post takes a sequence above the one before, which a message
\* of another post has by now.
Passed(r, k) == \E m \in InChannel(req[r].ch) : messages[m].seq >= k

RivalGood(r) ==
  LET next == req[r].first + req[r].attempt
      open == channels[req[r].ch].active
  IN
  /\ req[r].pc \in {"idle", "reply", "source", "lookup"} => req[r].attempt = 0
  /\ req[r].attempt > 0 \/ req[r].pc \in {"insert", "relookup"} => req[r].first > 0
  /\ req[r].pc = "insert" /\ open => req[r].seq >= next
  /\ req[r].pc = "relookup" /\ open => SameKey(r) # {} \/ Passed(r, next)
  /\ req[r].pc \in {"channel", "latest"} /\ req[r].attempt > 0 /\ open =>
       Passed(r, next - 1)
  /\ req[r].status = "exhausted" =>
       /\ req[r].pc = "done" /\ req[r].ch \in Channels
       /\ req[r].first > 0 /\ req[r].attempt >= MaxAttempts
       /\ open => Passed(r, next - 1)

PostAnswers(r) == AnswerGood(r) /\ ReplyGood(r) /\ RivalGood(r)

AnswerInv ==
  /\ ChangeInv
  /\ \A m \in MsgIds : Written(m) /\ PostAnswers(m)
  /\ KeysDistinct
  /\ RepliesFollowTheirSource
=============================================================================

----------------------------- MODULE ChatStore ------------------------------
(***************************************************************************)
(* The message repository under concurrent requests: any number of server  *)
(* processes run them, each at its own MongoDB call, and any of them may   *)
(* end early.                                                              *)
(***************************************************************************)
EXTENDS SendMessage, ReviseMessage, ReadCursor, FiniteSets

Init ==
  /\ messages = [m \in MsgIds |-> NoDoc]
  /\ channels = [c \in Channels |-> NewChannel]
  /\ states   = [c \in Channels |-> [u \in Users |-> 0]]
  /\ outbox   = {}
  /\ req      = [r \in Reqs |-> Idle]

\* The MongoDB call fails, the context of the request is cancelled or the
\* process dies: what was written stays and nothing more is.  The call may
\* also have gone through without its answer getting back, which is the step
\* of the call followed by this one.
Abort(r) ==
  /\ req[r].pc \notin {"idle", "done"}
  /\ Answer(r, "error")
  /\ UNCHANGED docs

\* The service never writes the active flag, though every channel write tests
\* it: it is cleared by hand, in the database.
Deactivate(c) ==
  /\ c \in Deactivatable
  /\ channels[c].active
  /\ channels' = [channels EXCEPT ![c].active = FALSE]
  /\ UNCHANGED <<messages, states, outbox, req>>

Next ==
  \/ \E r \in MsgIds     : Send(r)
  \/ \E r \in ReviseReqs : Revise(r)
  \/ \E r \in ReadReqs   : Read(r)
  \/ \E r \in Reqs       : Abort(r)
  \/ \E c \in Channels   : Deactivate(c)

Spec == Init /\ [][Next]_vars

\* Types: the repository's structs, with their zero values.
TypeOK ==
  /\ messages \in [MsgIds -> Message]
  /\ channels \in [Channels -> Channel]
  /\ states \in [Channels -> [Users -> Nat]]
  /\ outbox \subseteq MessageEvent \cup CursorEvent
  /\ req \in [Reqs -> Request]
-----------------------------------------------------------------------------
(* The history of a channel *)

\* No two messages of a channel have the same sequence.
SequencesDistinct ==
  \A c \in Channels : \A m, n \in InChannel(c) :
    messages[m].seq = messages[n].seq => m = n

\* The sequences of a channel in use are 1, 2, ... up to the newest: clients
\* take a gap for a lost message and reload.  Only the withdrawal of a message
\* from a channel cleared under way may leave one.
NoGaps ==
  \A c \in Channels : channels[c].active =>
    \A m \in InChannel(c) : \A k \in 1..(messages[m].seq - 1) :
      \E n \in InChannel(c) : messages[n].seq = k

SequencesContiguous == SequencesDistinct /\ NoGaps

Answered(r) == r \in MsgIds /\ req[r].status \in {"created", "existing"}

\* Posts with the same idempotency key that are answered with a message are
\* all answered with the same one, which is there and says what they asked
\* for, and one of them at most is told to have created it.
IdempotentAnswers ==
  \A r, s \in MsgIds :
    /\ Answered(r) /\ Answered(s)
    /\ req[r].ch = req[s].ch /\ req[r].actor = req[s].actor
    /\ req[r].key = req[s].key
    /\ channels[req[r].ch].active
    => /\ req[r].msg = req[s].msg
       /\ req[r].msg \in InChannel(req[r].ch)
       /\ messages[req[r].msg].hash = RequestHash(r)
       /\ r # s => "existing" \in {req[r].status, req[s].status}

\* A post is refused for too many collisions only when every one of its tries
\* was lost to another message that did get in.
ExhaustionNeedsRivals ==
  \A r \in MsgIds :
    req[r].status = "exhausted" /\ channels[req[r].ch].active =>
      Cardinality({m \in InChannel(req[r].ch) :
                      messages[m].seq >= req[r].first}) >= MaxAttempts

\* A reply comes after the message it answers, in the same channel, and an AI
\* reply answers somebody else's message that is not an AI reply itself.
RepliesFollowTheirSource ==
  \A m \in Stored :
    messages[m].reply # None /\ channels[messages[m].ch].active =>
      LET t == messages[m].reply IN
        /\ t \in InChannel(messages[m].ch)
        /\ messages[t].seq < messages[m].seq
        /\ messages[m].kind = "ai" => /\ messages[t].kind = "user"
                                      /\ messages[t].sender # messages[m].sender
-----------------------------------------------------------------------------
(* The summary kept in the channel *)

\* The summary of a channel names a message that is there, with its sequence,
\* whatever the order in which the writers reached the channel.
SummaryPointsAtStored ==
  \A c \in Channels :
    IF channels[c].lastSeq = 0
    THEN channels[c].lastMsg = None
    ELSE /\ channels[c].lastMsg \in InChannel(c)
         /\ messages[channels[c].lastMsg].seq = channels[c].lastSeq

\* A message that was answered 201 is covered by the summary, so that it can
\* be marked as read.
SummaryCoversCreated ==
  \A r \in MsgIds :
    req[r].status = "created" => req[r].doc.seq <= channels[req[r].ch].lastSeq

\* No step moves a summary back, or changes the message it names without
\* moving forward, or takes a version back.
SummaryNeverRegresses ==
  [][\A c \in Channels :
       /\ channels'[c].lastSeq >= channels[c].lastSeq
       /\ channels'[c].version >= channels[c].version
       /\ channels'[c].lastMsg # channels[c].lastMsg
            => channels'[c].lastSeq > channels[c].lastSeq]_vars
-----------------------------------------------------------------------------
(* Revisions *)

\* A change is made to the very document its request was authorised on: what
\* an author overwrites is what the author saw.
FirstCommitterWins ==
  [][\A r \in ReviseReqs :
       At(r, "cas") /\ req'[r].pc = "bump" =>
         /\ messages[req[r].msg] = req[r].doc
         /\ req[r].doc.sender = req[r].actor]_vars

\* A recall that was answered 200 is the last word on its message: no edit
\* under way brings content back.
RecallIsFinal ==
  \A r \in RecallReqs :
    req[r].status \in {"revised", "unchanged"} =>
      /\ req[r].doc.recalled /\ req[r].doc.content = Blank
      /\ messages[req[r].msg] \in {req[r].doc, NoDoc}
-----------------------------------------------------------------------------
(* Events *)

\* The message a post, an edit or a recall is about.
Subject(r) == IF r \in MsgIds THEN r ELSE req[r].msg

\* Every event of a channel has a version of its own, none above the
\* channel's.
VersionsDistinct ==
  \A e \in outbox :
    /\ e.version \in 1..channels[e.ch].version
    /\ \A f \in outbox : e.ch = f.ch /\ e.version = f.version => e = f

\* The event of a post tells of a message that is there for good, the others
\* of one that is there while the channel is in use.  The message has the
\* event's sequence, has reached its revision and says, at that revision, what
\* the event says; no two events tell of the same revision.
EventsTellHistory ==
  \A e \in outbox : e.type # "read" =>
    /\ channels[e.ch].active \/ e.type = "created" => e.msg \in InChannel(e.ch)
    /\ e.msg \in Stored =>
         /\ messages[e.msg].seq = e.seq
         /\ messages[e.msg].rev >= e.rev
         /\ messages[e.msg].rev = e.rev =>
              /\ messages[e.msg].content = e.content
              /\ messages[e.msg].recalled = e.recalled
    /\ \A f \in outbox :
         f.type # "read" /\ f.msg = e.msg /\ f.rev = e.rev => f = e
-----------------------------------------------------------------------------
(* Read cursors *)

\* A cursor stands at a sequence the summary of its channel has reached, and,
\* while the channel is in use, at a message; the channel was read, and may
\* have moved on, two calls before the cursor is written.
CursorWithinHistory ==
  \A c \in Channels : \A u \in Users : states[c][u] > 0 =>
    /\ u \in Participants[c]
    /\ states[c][u] <= channels[c].lastSeq
    /\ channels[c].active => \E m \in InChannel(c) : messages[m].seq = states[c][u]

\* A cursor never moves back, nor away once it is there.
CursorNeverRegresses ==
  [][\A c \in Channels : \A u \in Users : states'[c][u] >= states[c][u]]_vars

\* An event of a cursor tells of a sequence the cursor has reached, and no
\* less than what its request asked for.
CursorEventsCoverRequest ==
  \A e \in outbox : e.type = "read" =>
    req[e.id].seq <= e.lastRead /\ e.lastRead <= states[e.ch][e.user]
-----------------------------------------------------------------------------
(* The promise *)

\* The requests implement the history of ChatHistory: a message is posted by
\* its insert, announced by the update of the summary, and the rest is hidden.
History == INSTANCE ChatHistory WITH
  Ids       <- MsgIds,
  Contents  <- Bodies \cup EditReqs,
  open      <- [c \in Channels |-> channels[c].active],
  post      <- [m \in MsgIds |->
                 [ch |-> messages[m].ch, sender |-> messages[m].sender,
                  key |-> messages[m].key, seq |-> messages[m].seq]],
  text      <- [m \in MsgIds |->
                 [rev |-> messages[m].rev, recalled |-> messages[m].recalled,
                  content |-> messages[m].content]],
  announced <- {m \in MsgIds : req[m].version > 0},
  mark      <- states

ImplementsHistory == History!HSpec
=============================================================================

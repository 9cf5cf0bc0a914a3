-------------------------- MODULE ChatPipelineProofs -------------------------
(***************************************************************************)
(* Safety of ChatPipeline: what a client shows, by ClientInv, which says   *)
(* it also for a client in the middle of a load.  And what keeps a load    *)
(* from going on for ever: there is a page at every call, and the pages    *)
(* descend.                                                                *)
(***************************************************************************)
EXTENDS ChatPipeline, ChatEventProofs, FiniteSetTheorems

\* The client is not ahead of the channel.
Behindhand ==
  /\ feed.applied <= channels[Viewed].version
  /\ feed.target <= channels[Viewed].version

\* From the sequence on, the view has every change up to the version.
ShownFrom(v, seq) ==
  \A r \in MsgIds \cup ReviseReqs :
    /\ req[r].version \in 1..v
    /\ req[r].ch = Viewed
    /\ Subject(r) \in Stored
    /\ messages[Subject(r)].seq >= seq
    => view[Subject(r)].rev >= req[r].doc.rev

\* A load has what is above the page it asks for next.
Shown ==
  /\ ShownFrom(feed.applied, 0)
  /\ Loading /\ feed.before > 0 => ShownFrom(feed.target, feed.before)

TrueCopy(m) ==
  /\ m \in Stored => /\ m \in InChannel(Viewed)
                     /\ view[m].seq = messages[m].seq
                     /\ view[m].rev <= messages[m].rev
                     /\ view[m].rev = messages[m].rev => view[m] = CopyOf(messages[m])
  /\ m \notin Stored => req[m].pc = "done" /\ ~channels[Viewed].active

ViewTrue ==
  \A m \in MsgIds : /\ m \in Seen => TrueCopy(m)
                    /\ m \notin Seen => view[m] = NoCopy

SeenSeq(k) == \E n \in Seen : view[n].seq = k

\* The view has no gap from the sequence on.
GaplessFrom(seq) ==
  \A m \in Seen : \A k \in Nat : k > 0 /\ seq <= k /\ k < view[m].seq => SeenSeq(k)

ViewGapless ==
  channels[Viewed].active =>
    /\ feed.pc = "live" => GaplessFrom(0)
    /\ Loading /\ feed.before > 0 => GaplessFrom(feed.before)

ClientInv == /\ ClientTypeOK /\ Behindhand /\ Shown /\ ViewTrue /\ ViewGapless

PInv == ChangeInv /\ ClientInv

-----------------------------------------------------------------------------
(* What the store does under the client *)

\* Nothing the store does under the client makes the view wrong.
LEMMA StoreStep ==
  ASSUME PInv, ChangeInv', [Next]_vars, UNCHANGED cvars
  PROVE  ClientInv'
<1>1. /\ ChangeInv /\ HistoryInv /\ TypeInv /\ TypeInv' /\ VersionsInv /\ Viewed \in Channels
      /\ view' = view /\ feed' = feed /\ DocsStep /\ ClientInv
      /\ \A r \in Reqs : req[r].pc = "done" => req'[r] = req[r]
  BY NextSteps, ViewedAssumption DEF PInv, ChangeInv, HistoryInv, cvars
<1>2. ChannelStep(Viewed) /\ channels[Viewed] \in Channel /\ channels'[Viewed] \in Channel
  BY <1>1 DEF DocsStep, TypeInv, TypeOK
<1>3. feed \in Feed /\ ClientTypeOK'
  BY <1>1 DEF ClientInv, ClientTypeOK, Seen
<1>4. Behindhand'
  BY <1>1, <1>2, <1>3 DEF ClientInv, Behindhand, ChannelStep, Channel, Feed
<1>5. \A m \in MsgIds : /\ MessageStep(m) /\ m \in Reqs
                        /\ messages[m] \in Message /\ messages'[m] \in Message
                        /\ m \in Stored <=> messages[m].seq > 0
                        /\ m \in Stored' <=> messages'[m].seq > 0
  BY <1>1, Kinds DEF DocsStep, TypeInv, TypeOK, Stored
<1>6. ASSUME NEW v \in Nat, v <= channels[Viewed].version, NEW seq, ShownFrom(v, seq)
      PROVE  ShownFrom(v, seq)'
  <2> SUFFICES ASSUME NEW r \in MsgIds \cup ReviseReqs,
                      req'[r].version \in 1..v, req'[r].ch = Viewed,
                      Subject(r)' \in Stored', messages'[Subject(r)'].seq >= seq
               PROVE  view'[Subject(r)'].rev >= req'[r].doc.rev
    BY DEF ShownFrom
  <2>1. /\ r \in Reqs /\ req[r] \in Request /\ channels[Viewed].version \in Nat
    BY <1>1, <1>2, Kinds DEF TypeInv, TypeOK, Channel
  <2>2. /\ req[r].version \in 1..v /\ req[r].ch = Viewed /\ req'[r].doc = req[r].doc
        /\ Subject(r)' = Subject(r)
    BY <1>1, <1>6, <2>1, NextVersions DEF VersionStep
  <2>3. Changed(r) /\ Faithful(r)
    <3>1. Changed(r)
      BY <2>2 DEF Changed
    <3> QED BY <1>1, <2>1, <3>1 DEF ChangeInv, ReqGood, Holds
  <2> DEFINE m == Subject(r)
  <2>4. m \in MsgIds /\ (m \notin Stored => req[m].pc = "done")
    BY <2>3 DEF Faithful
  <2>5. m \in Stored' /\ messages'[m] # NoDoc
    BY <1>5, <2>2, <2>4 DEF NoDoc
  <2>6. m \in Stored /\ messages'[m].seq = messages[m].seq
    BY <1>5, <2>4, <2>5 DEF MessageStep
  <2> QED BY <1>1, <1>6, <2>2, <2>6 DEF ShownFrom
<1>7. Shown'
  <2>1. /\ feed.applied \in Nat /\ feed.target \in Nat
        /\ feed.applied <= channels[Viewed].version /\ feed.target <= channels[Viewed].version
    BY <1>1, <1>3 DEF Feed, ClientInv, Behindhand
  <2>2. ShownFrom(feed.applied, 0)'
    BY <1>1, <1>6, <2>1 DEF ClientInv, Shown
  <2>3. Loading /\ feed.before > 0 => ShownFrom(feed.target, feed.before)'
    BY <1>1, <1>6, <2>1 DEF ClientInv, Shown
  <2> QED BY <1>1, <2>2, <2>3 DEF Shown, ShownFrom, Loading
<1>8. Seen' = Seen
  BY <1>1 DEF Seen
<1>9. ViewTrue'
  <2> SUFFICES ASSUME NEW m \in MsgIds, m \in Seen, TrueCopy(m)
               PROVE  TrueCopy(m)'
    BY <1>1, <1>8 DEF ClientInv, ViewTrue
  <2>1. ~channels[Viewed].active => ~channels'[Viewed].active
    BY <1>2 DEF ChannelStep
  <2>2. /\ messages[m].rev \in Nat /\ messages'[m].rev \in Nat /\ view[m].rev \in Nat
        /\ messages[m].seq \in Nat
    BY <1>3, <1>5, <1>1 DEF Message, ClientInv, ClientTypeOK, Copy
  <2>3. CASE messages'[m] = messages[m]
    <3>1. req[m].pc = "done" => req'[m].pc = "done"
      BY <1>1, <1>5
    <3> QED BY <1>1, <1>5, <2>1, <2>3, <3>1 DEF TrueCopy, InChannel
  <2>4. CASE m \notin Stored /\ req[m].pc = "insert"
    BY <2>4 DEF TrueCopy
  <2>5. CASE /\ req[m].pc = "undo" /\ req'[m].pc = "done"
             /\ m \in Stored /\ messages'[m] = NoDoc
    <3>1. m \notin Stored'
      BY <1>5, <2>5 DEF NoDoc
    <3>2. ~channels[Viewed].active
      BY <1>1, <2>5 DEF TrueCopy, InChannel, HistoryInv, SendReqInv, Withdrawn, Owned
    <3> QED BY <2>1, <2>5, <3>1, <3>2 DEF TrueCopy
  <2>6. CASE /\ m \in Stored /\ ~messages[m].recalled
             /\ messages'[m].seq = messages[m].seq /\ messages'[m].ch = messages[m].ch
             /\ messages'[m].rev = messages[m].rev + 1
    <3>1. m \in Stored' /\ m \in InChannel(Viewed)' /\ view'[m].seq = messages'[m].seq
      BY <1>1, <1>5, <2>6 DEF TrueCopy, InChannel
    <3>2. view'[m].rev < messages'[m].rev
      BY <1>1, <2>2, <2>6 DEF TrueCopy
    <3> QED BY <1>1, <2>2, <3>1, <3>2 DEF TrueCopy
  <2> QED BY <1>5, <2>3, <2>4, <2>5, <2>6 DEF MessageStep
<1>10. ViewGapless'
  <2>1. channels'[Viewed].active => channels[Viewed].active
    BY <1>2 DEF ChannelStep
  <2>2. GaplessFrom(0) => GaplessFrom(0)'
    BY <1>1, <1>8 DEF GaplessFrom, SeenSeq
  <2>3. GaplessFrom(feed.before) => GaplessFrom(feed.before)'
    BY <1>1, <1>8 DEF GaplessFrom, SeenSeq
  <2>4. Loading' = Loading /\ feed'.pc = feed.pc /\ feed'.before = feed.before
    BY <1>1 DEF Loading
  <2>5. ViewGapless
    BY <1>1 DEF ClientInv
  <2> QED BY <2>1, <2>2, <2>3, <2>4, <2>5 DEF ViewGapless
<1> QED BY <1>3, <1>4, <1>7, <1>9, <1>10 DEF ClientInv
-----------------------------------------------------------------------------
(* What the client does *)

LEMMA StoreUnchanged ==
  ASSUME UNCHANGED vars
  PROVE  /\ Stored' = Stored /\ \A c : InChannel(c)' = InChannel(c)
         /\ \A m \in MsgIds : m \in Seen /\ view'[m] = view[m] => (TrueCopy(m)' <=> TrueCopy(m))
         /\ \A r : Subject(r)' = Subject(r)
  BY DEF vars, Stored, InChannel, TrueCopy, Subject

\* The events a client gets are what EventsTellHistory says of them.
LEMMA EventIsTrue ==
  ASSUME PInv, NEW e \in outbox, e.ch = Viewed
  PROVE  /\ e.version \in Nat /\ e.version > 0 /\ e.version <= channels[Viewed].version
         /\ \A r \in Reqs : req[r].version = e.version /\ req[r].ch = Viewed => r = e.id
         /\ e.type = "read" => e.id \notin MsgIds \cup ReviseReqs
         /\ e.type # "read" =>
              /\ e.id \in MsgIds \cup ReviseReqs
              /\ e.msg = Subject(e.id) /\ e.msg \in MsgIds
              /\ e.rev = req[e.id].doc.rev /\ e.rev > 0 /\ e.seq > 0
              /\ CopyOf(e) \in Copy
              /\ e.msg \in Stored =>
                   /\ e.msg \in InChannel(Viewed)
                   /\ e.seq = messages[e.msg].seq /\ e.rev <= messages[e.msg].rev
                   /\ e.rev = messages[e.msg].rev => CopyOf(e) = CopyOf(messages[e.msg])
              /\ e.msg \notin Stored =>
                   req[e.msg].pc = "done" /\ ~channels[Viewed].active
<1>1. /\ ChangeInv /\ HistoryInv /\ TypeInv /\ VersionsInv /\ EventGood(e)
      /\ e \in MessageEvent \cup CursorEvent /\ e.id \in Reqs
      /\ req[e.id].version = e.version /\ req[e.id].ch = e.ch /\ e.version > 0
  BY DEF PInv, ChangeInv, HistoryInv, TypeInv, TypeOK, VersionsInv, EventInv,
         MessageEvent, CursorEvent, Reqs
<1>2. e.version \in Nat /\ e.version <= channels[Viewed].version
  BY <1>1 DEF VersionsInv, VersionInv, MessageEvent, CursorEvent
<1>3. \A r \in Reqs : req[r].version = e.version /\ req[r].ch = Viewed => r = e.id
  BY <1>1 DEF VersionsInv, VersionInv
<1>4. e.type = "read" => e.id \notin MsgIds \cup ReviseReqs
  BY <1>1, Kinds DEF EventGood
<1>5. ASSUME e.type # "read"
      PROVE  /\ e.id \in MsgIds \cup ReviseReqs
             /\ e.msg = Subject(e.id) /\ e.msg \in MsgIds
             /\ e.rev = req[e.id].doc.rev /\ e.rev > 0 /\ e.seq > 0
             /\ CopyOf(e) \in Copy
             /\ e.msg \in Stored =>
                   /\ e.msg \in InChannel(Viewed)
                   /\ e.seq = messages[e.msg].seq /\ e.rev <= messages[e.msg].rev
                   /\ e.rev = messages[e.msg].rev => CopyOf(e) = CopyOf(messages[e.msg])
             /\ e.msg \notin Stored =>
                   req[e.msg].pc = "done" /\ ~channels[Viewed].active
  <2> DEFINE r == e.id
             d == req[r].doc
  <2>1. /\ r \in MsgIds \cup ReviseReqs /\ e.msg = Subject(r)
        /\ e.seq = d.seq /\ e.rev = d.rev /\ e.recalled = d.recalled /\ e.content = d.content
    BY <1>1, <1>5 DEF EventGood
  <2>2. Changed(r)
    BY <1>1, <2>1 DEF Changed
  <2>3. Faithful(r) /\ d \in Message
    BY <1>1, <2>2 DEF ChangeInv, ReqGood, Holds, TypeInv, TypeOK, Request
  <2>4. CopyOf(e) = CopyOf(d)
    BY <2>1 DEF CopyOf
  <2>5. CopyOf(d) \in Copy
    BY <2>3 DEF CopyOf, Copy, Message
  <2> QED BY <1>1, <2>1, <2>3, <2>4, <2>5 DEF Faithful, InChannel
<1> QED BY <1>1, <1>2, <1>3, <1>4, <1>5

\* An event that follows the last one is shown.
LEMMA AppliesEvent ==
  ASSUME PInv, NEW e \in outbox, UNCHANGED vars, feed.pc = "live", e.ch = Viewed, Follows(e),
         view' = IF e.type # "read" /\ e.rev > view[e.msg].rev
                 THEN [view EXCEPT ![e.msg] = CopyOf(e)] ELSE view,
         feed' = [feed EXCEPT !.applied = e.version]
  PROVE  ClientInv'
<1>1. /\ ChangeInv /\ ClientInv /\ TypeInv /\ feed \in Feed /\ view \in [MsgIds -> Copy]
      /\ e.version = feed.applied + 1
  BY DEF PInv, ChangeInv, HistoryInv, ClientInv, ClientTypeOK, Follows
<1>2. /\ feed' \in Feed /\ feed'.applied = e.version /\ feed'.target = feed.target
      /\ feed'.pc = "live" /\ feed'.before = feed.before /\ ~Loading'
  BY <1>1, EventIsTrue DEF Feed, Loading
<1>3. \A m \in MsgIds : view[m] \in Copy /\ view[m].rev \in Nat /\ view[m].seq \in Nat
  BY <1>1 DEF Copy
<1> DEFINE t == CopyOf(e)
<1>4. e.type # "read" => t \in Copy /\ t.rev = e.rev /\ t.rev \in Nat /\ t.seq = e.seq
  BY EventIsTrue DEF CopyOf, Copy
<1> HIDE DEF t
<1>5. \A m \in MsgIds : view'[m] = IF e.type # "read" /\ m = e.msg /\ e.rev > view[m].rev
                                   THEN t ELSE view[m]
  BY <1>1 DEF t
<1>6. ClientTypeOK'
  BY <1>1, <1>2, <1>4, EventIsTrue DEF ClientTypeOK, t
<1>7. Behindhand'
  BY <1>1, <1>2, EventIsTrue DEF ClientInv, Behindhand, vars
<1>8. \A m \in MsgIds : view'[m].rev >= view[m].rev
  BY <1>3, <1>4, <1>5
<1>9. Shown'
  <2>1. SUFFICES ASSUME NEW r \in MsgIds \cup ReviseReqs,
                        req[r].version \in 1..e.version, req[r].ch = Viewed,
                        Subject(r) \in Stored
                 PROVE  view'[Subject(r)].rev >= req[r].doc.rev
    BY <1>2, StoreUnchanged DEF Shown, ShownFrom, vars
  <2>2. r \in Reqs /\ Subject(r) \in MsgIds /\ req[r].doc.rev \in Nat
    BY <1>1, <2>1, Kinds DEF Stored, TypeInv, TypeOK, Request, Message
  <2>3. CASE req[r].version = e.version
    <3>1. r = e.id /\ e.type # "read" /\ e.msg = Subject(r) /\ e.rev = req[r].doc.rev
      BY <2>1, <2>2, <2>3, EventIsTrue
    <3> QED BY <1>3, <1>4, <1>5, <2>2, <3>1
  <2>4. CASE req[r].version # e.version
    <3>1. req[r].version \in 1..feed.applied /\ messages[Subject(r)].seq >= 0
      <4>1. feed.applied \in Nat /\ e.version \in Nat
        BY <1>1, EventIsTrue DEF Feed
      <4>2. messages[Subject(r)].seq \in Nat
        BY <1>1, <2>2 DEF TypeInv, TypeOK, Message
      <4>3. req[r].version \in 1..feed.applied
        BY <1>1, <2>1, <2>4, <4>1
      <4> QED BY <4>2, <4>3
    <3>2. view[Subject(r)].rev >= req[r].doc.rev
      BY <1>1, <2>1, <3>1 DEF ClientInv, Shown, ShownFrom
    <3> QED BY <1>3, <1>4, <1>5, <1>8, <2>2, <3>2
  <2> QED BY <2>3, <2>4
<1>10. ViewTrue'
  <2> SUFFICES ASSUME NEW m \in MsgIds
               PROVE  /\ m \in Seen' => TrueCopy(m)'
                      /\ m \notin Seen' => view'[m] = NoCopy
    BY DEF ViewTrue
  <2>1. (m \in Seen <=> view[m].seq > 0) /\ (m \in Seen' <=> view'[m].seq > 0)
    BY DEF Seen
  <2>2. CASE view'[m] = view[m]
    <3>1. m \in Seen => TrueCopy(m)
      BY <1>1 DEF ClientInv, ViewTrue
    <3>2. m \notin Seen => view[m] = NoCopy
      BY <1>1 DEF ClientInv, ViewTrue
    <3>3. m \in Seen' <=> m \in Seen
      BY <2>1, <2>2
    <3> QED BY <2>2, <3>1, <3>2, <3>3, StoreUnchanged
  <2>3. CASE e.type # "read" /\ m = e.msg /\ view'[m] = t
    <3>1. CASE m \in Stored
      <4>1. /\ m \in InChannel(Viewed) /\ t.seq = messages[m].seq /\ messages[m].seq > 0
            /\ t.rev <= messages[m].rev
            /\ t.rev = messages[m].rev => t = CopyOf(messages[m])
        BY <1>4, <2>3, <3>1, EventIsTrue DEF t, Stored
      <4> QED BY <2>1, <2>3, <3>1, <4>1, StoreUnchanged DEF TrueCopy, vars
    <3>2. CASE m \notin Stored
      <4>1. req[m].pc = "done" /\ ~channels[Viewed].active
        BY <2>3, <3>2, EventIsTrue
      <4>2. t.seq > 0
        BY <1>4, <2>3, EventIsTrue
      <4> QED BY <2>1, <2>3, <3>2, <4>1, <4>2, StoreUnchanged DEF TrueCopy, vars
    <3> QED BY <3>1, <3>2
  <2> QED BY <1>5, <2>2, <2>3
<1>11. ViewGapless'
  <2>1. SUFFICES ASSUME channels[Viewed].active, NEW m \in Seen', NEW k \in Nat,
                        k > 0, k < view'[m].seq
                 PROVE  SeenSeq(k)'
    BY <1>2 DEF ViewGapless, GaplessFrom, vars
  <2>2. \A n \in Seen : n \in Seen' /\ view'[n].seq = view[n].seq
    <3>1. ASSUME NEW n \in Seen PROVE n \in Seen' /\ view'[n].seq = view[n].seq
      <4>1. n \in MsgIds /\ view[n].seq > 0
        BY DEF Seen
      <4>2. TrueCopy(n)
        BY <1>1, <4>1 DEF ClientInv, ViewTrue
      <4>3. n \in Stored /\ view[n].seq = messages[n].seq
        BY <2>1, <4>2 DEF TrueCopy
      <4>4. view'[n].seq = view[n].seq
        BY <1>4, <1>5, <4>1, <4>3, EventIsTrue
      <4> QED BY <4>1, <4>4 DEF Seen
    <3> QED BY <3>1
  <2>3. SeenSeq(k) => SeenSeq(k)'
    BY <2>2 DEF SeenSeq
  <2>4. m \in MsgIds
    BY DEF Seen
  <2>5. CASE view'[m] = view[m]
    <3>1. m \in Seen /\ GaplessFrom(0)
      BY <1>1, <2>1, <2>4, <2>5 DEF Seen, ClientInv, ViewGapless
    <3> QED BY <2>1, <2>3, <2>5, <3>1 DEF GaplessFrom
  <2>6. CASE view'[m] = t /\ e.type # "read"
    <3>1. k \in 1..(e.seq - 1)
      <4>1. e.seq \in Nat
        BY <1>4, <2>6 DEF Copy
      <4> QED BY <1>4, <2>1, <2>6, <4>1
    <3>2. SeenSeq(k)
      BY <2>6, <3>1 DEF Follows, SeenSeq
    <3> QED BY <2>3, <3>2
  <2> QED BY <1>5, <2>4, <2>5, <2>6
<1> QED BY <1>6, <1>7, <1>9, <1>10, <1>11 DEF ClientInv

\* One that does not makes it load the history.
LEMMA BeginsToLoad ==
  ASSUME PInv, NEW e \in outbox, UNCHANGED vars, e.ch = Viewed, UNCHANGED view,
         feed' = [feed EXCEPT !.pc = "get", !.target = e.version, !.before = 0]
  PROVE  ClientInv'
<1>1. /\ ChangeInv /\ ClientInv /\ feed \in Feed /\ view \in [MsgIds -> Copy]
  BY DEF PInv, ClientInv, ClientTypeOK
<1>2. /\ feed' \in Feed /\ feed'.applied = feed.applied /\ feed'.target = e.version
      /\ feed'.pc = "get" /\ feed'.before = 0
  BY <1>1, EventIsTrue DEF Feed
<1>3. ClientTypeOK' /\ Behindhand'
  BY <1>1, <1>2, EventIsTrue DEF ClientInv, ClientTypeOK, Behindhand, vars
<1>4. Shown'
  BY <1>1, <1>2, StoreUnchanged DEF ClientInv, Shown, ShownFrom, vars
<1>5. Seen' = Seen
  BY DEF Seen
<1>6. ViewTrue'
  BY <1>1, <1>5, StoreUnchanged DEF ClientInv, ViewTrue
<1>7. ViewGapless'
  BY <1>2 DEF ViewGapless
<1> QED BY <1>3, <1>4, <1>6, <1>7 DEF ClientInv

LEMMA GetsChannel ==
  ASSUME PInv, LoadGet
  PROVE  ClientInv'
<1>1. /\ ChangeInv /\ ClientInv /\ feed \in Feed /\ view \in [MsgIds -> Copy]
      /\ UNCHANGED vars /\ UNCHANGED view
  BY DEF PInv, ClientInv, ClientTypeOK, LoadGet
<1>2. /\ feed' \in Feed /\ feed'.applied = feed.applied /\ feed'.target = feed.target
      /\ feed'.pc \in {"find", "gone"} /\ feed'.before = feed.before /\ feed.pc = "get"
  BY <1>1 DEF Feed, LoadGet
<1>3. ClientTypeOK' /\ Behindhand'
  BY <1>1, <1>2 DEF ClientInv, ClientTypeOK, Behindhand, vars
<1>4. Shown'
  BY <1>1, <1>2, StoreUnchanged DEF ClientInv, Shown, ShownFrom, Loading, vars
<1>5. Seen' = Seen
  BY DEF Seen, LoadGet
<1>6. ViewTrue'
  BY <1>1, <1>5, StoreUnchanged DEF ClientInv, ViewTrue
<1>7. ViewGapless'
  BY <1>1, <1>2, <1>5 DEF ClientInv, ViewGapless, GaplessFrom, SeenSeq, Loading, vars
<1> QED BY <1>3, <1>4, <1>6, <1>7 DEF ClientInv

\* A page, and what a load has by then.
LEMMA GetsPage ==
  ASSUME PInv, LoadFind
  PROVE  ClientInv'
<1>1. /\ ChangeInv /\ HistoryInv /\ ClientInv /\ TypeInv /\ feed \in Feed
      /\ view \in [MsgIds -> Copy] /\ messages \in [MsgIds -> Message]
      /\ UNCHANGED vars /\ feed.pc = "find" /\ Loading /\ Viewed \in Channels
  BY ViewedAssumption
     DEF PInv, ChangeInv, HistoryInv, ClientInv, ClientTypeOK, LoadFind, TypeInv, TypeOK, Loading
<1>2. PICK page \in Pages(Viewed, feed.before) :
       /\ view' = [m \in MsgIds |->
            IF m \in page /\ messages[m].rev > view[m].rev
            THEN CopyOf(messages[m]) ELSE view[m]]
       /\ \/ /\ Cardinality(page) < PageLimit
             /\ feed' = [feed EXCEPT !.pc = "live", !.before = 0, !.applied = feed.target]
          \/ /\ Cardinality(page) = PageLimit
             /\ \E m \in page :
                  /\ \A n \in page : messages[m].seq <= messages[n].seq
                  /\ feed' = [feed EXCEPT !.pc = "get", !.before = messages[m].seq]
  BY DEF LoadFind
<1> DEFINE low == Below(Viewed, feed.before)
<1>3. /\ page \subseteq low /\ (Cardinality(page) = PageLimit \/ page = low)
      /\ \A m \in page, n \in low \ page : messages[n].seq < messages[m].seq
  BY <1>2 DEF Pages
<1>4. /\ feed.before \in Nat /\ feed.applied \in Nat /\ feed.target \in Nat
      /\ \A m \in MsgIds : /\ messages[m].seq \in Nat /\ messages[m].rev \in Nat
                           /\ view[m].seq \in Nat /\ view[m].rev \in Nat
  BY <1>1 DEF Feed, Message, Copy
<1>5. \A m : m \in low <=> /\ m \in InChannel(Viewed)
                           /\ feed.before > 0 => messages[m].seq < feed.before
  BY DEF Below
<1>6. \A m \in InChannel(Viewed) : m \in MsgIds /\ m \in Stored /\ messages[m].seq > 0
  BY DEF InChannel, Stored
<1> HIDE DEF low
<1>7. \A m \in MsgIds : /\ CopyOf(messages[m]) \in Copy
                        /\ CopyOf(messages[m]).rev = messages[m].rev
                        /\ CopyOf(messages[m]).seq = messages[m].seq
  BY <1>1 DEF CopyOf, Copy, Message
<1>8. \A m \in MsgIds : \/ view'[m] = view[m]
                        \/ m \in page /\ view'[m] = CopyOf(messages[m])
  BY <1>2
<1>9. /\ \A m \in page : view'[m].rev >= messages[m].rev
      /\ \A m \in MsgIds : view'[m].rev >= view[m].rev
  <2>1. \A m \in page : m \in MsgIds
    BY <1>3, <1>5, <1>6
  <2>2. ASSUME NEW m \in MsgIds
        PROVE  (m \in page => view'[m].rev >= messages[m].rev) /\ view'[m].rev >= view[m].rev
    <3>1. CASE m \in page /\ messages[m].rev > view[m].rev
      <4>1. view'[m].rev = messages[m].rev
        BY <1>2, <1>7, <3>1
      <4> QED BY <1>4, <3>1, <4>1
    <3>2. CASE ~(m \in page /\ messages[m].rev > view[m].rev)
      <4>1. view'[m] = view[m]
        BY <1>2, <3>2
      <4> QED BY <1>4, <3>2, <4>1
    <3> QED BY <3>1, <3>2
  <2> QED BY <2>1, <2>2
<1>10. /\ feed' \in Feed /\ feed'.target = feed.target
       /\ feed'.applied \in {feed.applied, feed.target}
       /\ feed'.pc = "live" => /\ feed'.applied = feed.target /\ page = low /\ ~Loading'
       /\ feed'.pc # "live" =>
            /\ feed'.applied = feed.applied
            /\ \E m \in page : /\ \A n \in page : messages[m].seq <= messages[n].seq
                               /\ feed'.before = messages[m].seq
  <2>1. CASE /\ Cardinality(page) < PageLimit
             /\ feed' = [feed EXCEPT !.pc = "live", !.before = 0, !.applied = feed.target]
    <3>1. page = low
      BY <1>3, <2>1, ViewedAssumption
    <3>2. /\ feed' \in Feed /\ feed'.target = feed.target /\ feed'.applied = feed.target
          /\ feed'.pc = "live"
      BY <1>1, <1>4, <2>1 DEF Feed
    <3> QED BY <3>1, <3>2 DEF Loading
  <2>2. CASE \E m \in page :
                  /\ \A n \in page : messages[m].seq <= messages[n].seq
                  /\ feed' = [feed EXCEPT !.pc = "get", !.before = messages[m].seq]
    <3>1. PICK m \in page :
            /\ \A n \in page : messages[m].seq <= messages[n].seq
            /\ feed' = [feed EXCEPT !.pc = "get", !.before = messages[m].seq]
      BY <2>2
    <3>2. messages[m].seq \in Nat
      BY <1>3, <1>4, <1>5, <1>6
    <3>3. /\ feed' \in Feed /\ feed'.target = feed.target /\ feed'.applied = feed.applied
          /\ feed'.pc = "get" /\ feed'.before = messages[m].seq
      BY <1>1, <3>1, <3>2 DEF Feed
    <3> QED BY <3>1, <3>3
  <2> QED BY <1>2, <2>1, <2>2
<1>11. ClientTypeOK'
  BY <1>1, <1>2, <1>7, <1>10 DEF ClientTypeOK
<1>12. Behindhand'
  BY <1>1, <1>10 DEF ClientInv, Behindhand, vars
\* Everything from the page on is shown, which for the last page is everything.
<1>13. ASSUME NEW m \in InChannel(Viewed),
              \/ feed'.pc = "live"
              \/ messages[m].seq >= feed'.before
       PROVE  m \in page \/ (feed.before > 0 /\ messages[m].seq >= feed.before)
  <2>1. m \in MsgIds /\ messages[m].seq \in Nat
    BY <1>4, <1>6, <1>13
  <2>2. CASE m \in low
    <3>1. CASE feed'.pc = "live"
      BY <1>10, <2>2, <3>1
    <3>2. CASE feed'.pc # "live"
      <4>1. PICK n \in page : feed'.before = messages[n].seq
        BY <1>10, <3>2
      <4>2. messages[n].seq \in Nat
        BY <1>3, <1>4, <1>5, <1>6
      <4> QED BY <1>3, <1>13, <2>1, <2>2, <3>2, <4>1, <4>2
    <3> QED BY <3>1, <3>2
  <2>3. CASE m \notin low
    BY <1>4, <1>5, <2>1, <2>3
  <2> QED BY <2>2, <2>3
<1>14. ASSUME NEW r \in MsgIds \cup ReviseReqs,
              req[r].version \in 1..feed.target, req[r].ch = Viewed, Subject(r) \in Stored,
              \/ feed'.pc = "live"
              \/ messages[Subject(r)].seq >= feed'.before
       PROVE  view'[Subject(r)].rev >= req[r].doc.rev
  <2> DEFINE m == Subject(r)
  <2>1. r \in Reqs /\ Changed(r)
    BY <1>14, Kinds DEF Changed
  <2>2. Faithful(r) /\ req[r].doc.rev \in Nat
    BY <1>1, <2>1 DEF ChangeInv, ReqGood, Holds, TypeInv, TypeOK, Request, Message
  <2>3. /\ m \in MsgIds /\ m \in InChannel(Viewed) /\ req[r].doc.rev <= messages[m].rev
    BY <1>14, <2>2 DEF Faithful, InChannel
  <2>4. view'[m].rev \in Nat
    BY <1>11, <2>3 DEF ClientTypeOK, Copy
  <2>5. CASE m \in page
    BY <1>4, <1>9, <2>2, <2>3, <2>4, <2>5
  <2>6. CASE feed.before > 0 /\ messages[m].seq >= feed.before
    <3>1. view[m].rev >= req[r].doc.rev
      BY <1>1, <1>14, <2>6 DEF ClientInv, Shown, ShownFrom
    <3> QED BY <1>4, <1>9, <2>2, <2>3, <2>4, <3>1
  <2> QED BY <1>13, <1>14, <2>3, <2>5, <2>6
<1>15. Shown'
  <2>1. ShownFrom(feed.applied, 0)'
        \/ feed'.applied # feed.applied
    <3>1. SUFFICES ASSUME feed'.applied = feed.applied, NEW r \in MsgIds \cup ReviseReqs,
                          req[r].version \in 1..feed.applied, req[r].ch = Viewed,
                          Subject(r) \in Stored, messages[Subject(r)].seq >= 0
                   PROVE  view'[Subject(r)].rev >= req[r].doc.rev
      BY <1>1, StoreUnchanged DEF ShownFrom, vars
    <3>2. view[Subject(r)].rev >= req[r].doc.rev
      BY <1>1, <3>1 DEF ClientInv, Shown, ShownFrom
    <3>3. Subject(r) \in MsgIds /\ req[r].doc.rev \in Nat /\ view'[Subject(r)].rev \in Nat
      BY <1>1, <1>11, <3>1, Kinds
         DEF Stored, TypeInv, TypeOK, Request, Message, ClientTypeOK, Copy
    <3> QED BY <1>4, <1>9, <3>2, <3>3
  <2>2. feed'.pc = "live" => ShownFrom(feed.applied, 0)'
    BY <1>1, <1>10, <1>14, StoreUnchanged DEF ShownFrom, vars
  <2>3. feed'.pc # "live" => ShownFrom(feed.target, feed.before)'
    BY <1>1, <1>10, <1>14, StoreUnchanged DEF ShownFrom, vars
  <2>4. ShownFrom(feed.applied, 0)'
    BY <1>10, <2>1, <2>2
  <2> QED BY <1>10, <2>3, <2>4 DEF Shown
<1>16. ViewTrue'
  <2> SUFFICES ASSUME NEW m \in MsgIds
               PROVE  /\ m \in Seen' => TrueCopy(m)'
                      /\ m \notin Seen' => view'[m] = NoCopy
    BY DEF ViewTrue
  <2>1. (m \in Seen <=> view[m].seq > 0) /\ (m \in Seen' <=> view'[m].seq > 0)
    BY DEF Seen
  <2>2. CASE view'[m] = view[m]
    <3>1. m \in Seen => TrueCopy(m)
      BY <1>1 DEF ClientInv, ViewTrue
    <3>2. m \notin Seen => view[m] = NoCopy
      BY <1>1 DEF ClientInv, ViewTrue
    <3>3. m \in Seen' <=> m \in Seen
      BY <2>1, <2>2
    <3> QED BY <1>1, <2>2, <3>1, <3>2, <3>3, StoreUnchanged
  <2>3. CASE m \in page /\ view'[m] = CopyOf(messages[m])
    <3>1. m \in InChannel(Viewed) /\ m \in Stored /\ messages[m].seq > 0
      BY <1>3, <1>5, <1>6, <2>3
    <3> QED BY <1>1, <1>4, <1>7, <2>1, <2>3, <3>1, StoreUnchanged DEF TrueCopy, vars
  <2> QED BY <1>8, <2>2, <2>3
<1>17. ASSUME channels[Viewed].active, NEW m \in Seen', NEW k \in Nat, k > 0, k < view'[m].seq,
              \/ feed'.pc = "live"
              \/ k >= feed'.before
       PROVE  SeenSeq(k)'
  <2>1. m \in MsgIds /\ TrueCopy(m)'
    BY <1>16, <1>17 DEF Seen, ViewTrue
  <2>2. m \in InChannel(Viewed) /\ view'[m].seq = messages[m].seq
    BY <1>1, <1>17, <2>1, StoreUnchanged DEF TrueCopy, vars
  <2>3. PICK n \in InChannel(Viewed) : messages[n].seq = k
    BY <1>1, <1>4, <1>6, <1>17, <2>2 DEF HistoryInv, NoGaps
  <2>4. n \in MsgIds /\ (n \in Seen' => view'[n].seq = messages[n].seq)
    <3>1. n \in MsgIds /\ n \in Stored
      BY <1>6, <2>3
    <3>2. n \in Seen' => TrueCopy(n)'
      BY <1>16, <3>1 DEF ViewTrue
    <3> QED BY <1>1, <3>1, <3>2, StoreUnchanged DEF TrueCopy, vars
  <2>5. n \in Seen' => SeenSeq(k)'
    BY <2>3, <2>4 DEF SeenSeq
  <2>6. CASE n \in page
    <3>1. view'[n].rev >= messages[n].rev /\ messages[n].rev > 0
      BY <1>1, <1>6, <1>9, <2>3, <2>6 DEF ChangeInv, MessageGood
    <3>2. view'[n] # NoCopy
      BY <1>4, <2>4, <3>1 DEF NoCopy
    <3> QED BY <1>16, <2>4, <2>5, <3>2 DEF ViewTrue
  <2>7. CASE feed.before > 0 /\ k >= feed.before
    <3>1. view'[m] = view[m]
      <4>1. m \notin page
        BY <1>3, <1>4, <1>5, <1>6, <1>17, <2>2, <2>7
      <4> QED BY <1>8, <2>1, <4>1
    <3>2. m \in Seen
      BY <1>17, <3>1 DEF Seen
    <3>3. SeenSeq(k)
      BY <1>1, <1>17, <2>7, <3>1, <3>2 DEF ClientInv, ViewGapless, GaplessFrom
    <3>4. PICK o \in Seen : view[o].seq = k
      BY <3>3 DEF SeenSeq
    <3>5. o \in MsgIds /\ TrueCopy(o)
      BY <1>1, <3>4 DEF Seen, ClientInv, ViewTrue
    <3>6. o \in InChannel(Viewed) /\ messages[o].seq = k
      BY <1>17, <3>4, <3>5 DEF TrueCopy
    <3>7. o = n
      BY <1>1, <2>3, <3>6 DEF HistoryInv, SequencesDistinct
    <3>8. n \in Seen'
      <4>1. n \notin page \/ view'[n] = view[n] \/ view'[n] = CopyOf(messages[n])
        BY <1>8, <2>4
      <4>2. view'[n].seq = k
        BY <1>7, <1>8, <2>3, <2>4, <3>4, <3>7
      <4> QED BY <1>17, <2>4, <4>2 DEF Seen
    <3> QED BY <2>5, <3>8
  <2> QED BY <1>13, <1>17, <2>3, <2>6, <2>7
<1>18. ViewGapless'
  <2>1. channels' = channels
    BY <1>1 DEF vars
  <2>2. channels[Viewed].active /\ feed'.pc = "live" => GaplessFrom(0)'
    BY <1>17 DEF GaplessFrom
  <2>3. channels[Viewed].active => GaplessFrom(feed.before)' \/ feed'.pc = "live"
    BY <1>17 DEF GaplessFrom
  <2> QED BY <1>10, <2>1, <2>2, <2>3 DEF ViewGapless
<1> QED BY <1>11, <1>12, <1>15, <1>16, <1>18 DEF ClientInv
-----------------------------------------------------------------------------
(* The theorems *)

LEMMA InitClient == PInit => PInv
<1> SUFFICES ASSUME PInit PROVE PInv
  OBVIOUS
<1>1. /\ Init /\ ChangeInv /\ TypeInv /\ Viewed \in Channels
      /\ view = [m \in MsgIds |-> NoCopy]
      /\ feed = [pc |-> "get", applied |-> 0, target |-> 0, before |-> 0]
  BY InitChange, ViewedAssumption DEF PInit, ChangeInv, HistoryInv
<1>2. ClientTypeOK
  BY <1>1 DEF ClientTypeOK, NoCopy, Copy, Feed
<1>3. Behindhand
  BY <1>1 DEF Behindhand, TypeInv, TypeOK, Channel
<1>4. Shown
  BY <1>1 DEF Shown, ShownFrom
<1>5. \A m \in MsgIds : m \notin Seen /\ view[m] = NoCopy
  BY <1>1 DEF Seen, NoCopy
<1>6. ViewTrue
  BY <1>5 DEF ViewTrue
<1>7. ViewGapless
  BY <1>1 DEF ViewGapless
<1> QED BY <1>1, <1>2, <1>3, <1>4, <1>6, <1>7 DEF PInv, ClientInv

LEMMA StepClient == PInv /\ [PNext]_pvars => PInv'
<1> SUFFICES ASSUME PInv, [PNext]_pvars PROVE PInv'
  OBVIOUS
<1>1. ChangeInv
  BY DEF PInv
<1>2. CASE [Next]_vars /\ UNCHANGED cvars
  BY <1>1, <1>2, StepChange, StoreStep DEF PInv
<1>3. CASE Client
  <2>1. UNCHANGED vars
    BY <1>3 DEF Client, LoadGet, LoadFind, Receive
  <2>2. ChangeInv'
    BY <1>1, <2>1, StepChange
  <2>3. ASSUME NEW e \in outbox, Receive(e) PROVE ClientInv'
    BY <2>1, <2>3, AppliesEvent, BeginsToLoad DEF Receive
  <2>4. ClientInv'
    BY <1>3, <2>3, GetsChannel, GetsPage DEF Client
  <2> QED BY <2>2, <2>4 DEF PInv
<1> QED BY <1>2, <1>3 DEF PNext, pvars, vars, cvars

LEMMA ClientInvariant == PSpec => []PInv
  BY InitClient, StepClient, PTL DEF PSpec

\* A client that has come to a version shows every change up to it, whatever
\* events were lost, late or repeated and whatever was posted while it loaded
\* the history (message.repo.go:216-229, message.service.go:126-165).
THEOREM CoversVersions == PSpec => []ViewCoversVersions
<1>1. PInv => ViewCoversVersions
  <2> SUFFICES ASSUME PInv, NEW r \in MsgIds \cup ReviseReqs,
                      req[r].version \in 1..feed.applied, req[r].ch = Viewed,
                      Subject(r) \in Stored
               PROVE  view[Subject(r)].rev >= req[r].doc.rev
    BY DEF ViewCoversVersions
  <2>1. messages[Subject(r)].seq >= 0
    BY DEF Stored, PInv, ChangeInv, HistoryInv, TypeInv, TypeOK, Message
  <2> QED BY <2>1 DEF PInv, ClientInv, Shown, ShownFrom
<1> QED BY <1>1, ClientInvariant, PTL

\* A client shows nothing the store did not say, at no revision ahead of it.
THEOREM TrueView == PSpec => []ViewIsTrue
<1>1. PInv => ViewIsTrue
  <2> SUFFICES ASSUME PInv, NEW m \in Seen PROVE TrueCopy(m)
    BY DEF ViewIsTrue, TrueCopy
  <2> QED BY DEF PInv, ClientInv, ViewTrue, Seen
<1> QED BY <1>1, ClientInvariant, PTL

\* Between two loads a client shows the sequences 1, 2, ... without a gap.
THEOREM GaplessView == PSpec => []ViewContiguous
<1>1. PInv => ViewContiguous
  <2> SUFFICES ASSUME PInv, feed.pc = "live", channels[Viewed].active, NEW m \in Seen,
                      NEW k \in 1..(view[m].seq - 1)
               PROVE  \E n \in Seen : view[n].seq = k
    BY DEF ViewContiguous
  <2>1. view[m].seq \in Nat
    BY DEF Seen, PInv, ClientInv, ClientTypeOK, Copy
  <2>2. k \in Nat /\ k > 0 /\ 0 <= k /\ k < view[m].seq
    BY <2>1
  <2>3. SeenSeq(k)
    BY <2>2 DEF PInv, ClientInv, ViewGapless, GaplessFrom
  <2> QED BY <2>3 DEF SeenSeq
<1> QED BY <1>1, ClientInvariant, PTL
-----------------------------------------------------------------------------
(* The pages of a load *)

\* Some set of messages is the page, and it is the only one.
OnePage == \E page \in SUBSET MsgIds : Pages(Viewed, feed.before) = {page}

\* A set of messages that has all of low that is newer than any of its own.
Newest(page, low) ==
  /\ page \subseteq low
  /\ \A m \in page, n \in low \ page : messages[n].seq < messages[m].seq

\* Of some naturals there is a greatest, if they are bounded,
LEMMA Greatest ==
  ASSUME NEW T, T \subseteq Nat, T # {}, NEW b \in Nat, \A k \in T : k <= b
  PROVE  \E m \in T : \A k \in T : k <= m
<1> DEFINE D == {b - k : k \in T}
<1>1. D \subseteq Nat /\ D # {}
  <2>1. \A k \in T : b - k \in Nat
    OBVIOUS
  <2> QED BY <2>1
<1> HIDE DEF D
<1>2. PICK d \in D : \A e \in D : <<e, d>> \notin OpToRel(<, Nat)
  BY <1>1, WFMin, NatLessThanWellFounded, Zenon
<1>3. \A e \in D : ~(e < d)
  BY <1>1, <1>2, Zenon DEF OpToRel
<1>4. PICK m \in T : d = b - m
  BY DEF D
<1>5. ASSUME NEW k \in T PROVE k <= m
  <2>1. b - k \in D
    BY DEF D
  <2>2. ~(b - k < b - m)
    BY <1>3, <1>4, <2>1
  <2> QED BY <2>2
<1> QED BY <1>5

\* and so there is a newest of finitely many messages: the one with the fewest
\* newer ones has none.
LEMMA NewestOne ==
  ASSUME NEW S, IsFiniteSet(S), S # {}, \A m \in S : messages[m].seq \in Nat
  PROVE  \E m \in S : \A n \in S : messages[n].seq <= messages[m].seq
<1> DEFINE Newer(m) == {n \in S : messages[n].seq > messages[m].seq}
           T == {Cardinality(Newer(m)) : m \in S}
<1>1. \A m \in S : IsFiniteSet(Newer(m)) /\ Cardinality(Newer(m)) \in Nat
  BY FS_Subset, FS_CardinalityType
<1>2. T \subseteq Nat /\ T # {}
  BY <1>1
<1> HIDE DEF T
<1>3. PICK d \in T : \A e \in T : <<e, d>> \notin OpToRel(<, Nat)
  BY <1>2, WFMin, NatLessThanWellFounded, Zenon
<1>4. \A e \in T : ~(e < d)
  BY <1>2, <1>3, Zenon DEF OpToRel
<1>5. PICK m \in S : d = Cardinality(Newer(m))
  BY DEF T
<1>6. ASSUME NEW n \in S, messages[n].seq > messages[m].seq PROVE FALSE
  <2>1. Newer(n) \subseteq Newer(m) \ {n} /\ n \in Newer(m)
    BY <1>6
  <2>2. /\ IsFiniteSet(Newer(m) \ {n})
        /\ Cardinality(Newer(m) \ {n}) = Cardinality(Newer(m)) - 1
    BY <1>1, <2>1, FS_RemoveElement
  <2>3. Cardinality(Newer(n)) <= Cardinality(Newer(m) \ {n})
    BY <2>1, <2>2, FS_Subset
  <2> HIDE DEF Newer
  <2>4. Cardinality(Newer(n)) < d
    BY <1>1, <1>5, <2>2, <2>3
  <2>5. Cardinality(Newer(n)) \in T
    BY DEF T
  <2> QED BY <1>4, <2>4, <2>5
<1> QED BY <1>6

\* A page of the newest there are, of no more than PageLimit.
IsPage(page, low) ==
  /\ Newest(page, low)
  /\ Cardinality(page) = PageLimit \/ page = low
  /\ Cardinality(page) <= PageLimit

\* There is a page: the largest set of newest messages that is small enough.
LEMMA PageExists ==
  ASSUME NEW low, IsFiniteSet(low), \A m \in low : messages[m].seq \in Nat,
         \A m, n \in low : messages[m].seq = messages[n].seq => m = n
  PROVE  \E page \in SUBSET low : IsPage(page, low)
<1> DEFINE T == {k \in 0..PageLimit :
                   \E page \in SUBSET low : Newest(page, low) /\ Cardinality(page) = k}
<1>1. PageLimit \in Nat
  BY ViewedAssumption
<1>2. 0 \in T
  <2>1. Newest({}, low) /\ Cardinality({}) = 0
    BY FS_EmptySet DEF Newest
  <2> QED BY <1>1, <2>1
<1>3. PICK k \in T : \A j \in T : j <= k
  <2>1. T \subseteq Nat /\ T # {} /\ \A j \in T : j <= PageLimit
    BY <1>1, <1>2
  <2> HIDE DEF T
  <2> QED BY <1>1, <2>1, Greatest
<1>4. PICK page \in SUBSET low : Newest(page, low) /\ Cardinality(page) = k
  BY <1>3
<1>5. k \in Nat /\ k <= PageLimit /\ IsFiniteSet(page)
  BY <1>1, <1>3, <1>4, FS_Subset
<1>6. ASSUME k < PageLimit, page # low PROVE FALSE
  <2>1. IsFiniteSet(low \ page) /\ low \ page # {}
    BY <1>6, FS_Subset
  <2>2. PICK n \in low \ page : \A x \in low \ page : messages[x].seq <= messages[n].seq
    BY <2>1, NewestOne
  <2> DEFINE more == page \cup {n}
  <2>3. Cardinality(more) = k + 1
    BY <1>4, <1>5, <2>2, FS_AddElement
  <2>4. Newest(more, low)
    <3> SUFFICES ASSUME NEW m \in more, NEW x \in low \ more
                 PROVE  messages[x].seq < messages[m].seq
      BY <1>4, <2>2 DEF Newest
    <3>1. CASE m \in page
      BY <1>4, <3>1 DEF Newest
    <3>2. CASE m = n
      BY <2>2, <3>2
    <3> QED BY <3>1, <3>2
  <2>5. k + 1 \in 0..PageLimit /\ more \in SUBSET low
    BY <1>1, <1>5, <1>6, <2>2
  <2> HIDE DEF more
  <2>6. k + 1 \in T
    BY <2>3, <2>4, <2>5
  <2> HIDE DEF T
  <2> QED BY <1>3, <1>5, <2>6
<1>7. k = PageLimit \/ page = low
  BY <1>1, <1>5, <1>6
<1> QED BY <1>4, <1>5, <1>7 DEF IsPage

\* Of two sets of newest messages one is part of the other, and a page that is
\* less than another is not full.
LEMMA PageUnique ==
  ASSUME NEW low, IsFiniteSet(low), \A m \in low : messages[m].seq \in Nat,
         NEW page, IsPage(page, low), NEW other, IsPage(other, low)
  PROVE  page = other
<1>1. /\ page \subseteq low /\ other \subseteq low
      /\ IsFiniteSet(page) /\ IsFiniteSet(other)
      /\ PageLimit \in Nat /\ Cardinality(page) \in Nat /\ Cardinality(other) \in Nat
  BY ViewedAssumption, FS_Subset, FS_CardinalityType DEF IsPage, Newest
<1>2. page \subseteq other \/ other \subseteq page
  <2> SUFFICES ASSUME NEW m \in page, m \notin other, NEW n \in other, n \notin page
               PROVE  FALSE
    OBVIOUS
  <2>1. messages[n].seq < messages[m].seq /\ messages[m].seq < messages[n].seq
    BY <1>1 DEF IsPage, Newest
  <2> QED BY <1>1, <2>1
<1>3. ASSUME page \subseteq other PROVE page = other
  BY <1>1, <1>3, FS_Subset DEF IsPage
<1>4. ASSUME other \subseteq page PROVE page = other
  BY <1>1, <1>4, FS_Subset DEF IsPage
<1> QED BY <1>2, <1>3, <1>4

\* The find of a load always has one answer: the newest messages below the one
\* asked for, as many as there are up to the limit
\* (message.repo.go:216-229).
THEOREM PagesDetermined ==
  ASSUME IsFiniteSet(MsgIds)
  PROVE  PSpec => []OnePage
<1>1. PInv => OnePage
  <2> SUFFICES ASSUME PInv PROVE OnePage
    OBVIOUS
  <2> DEFINE low == Below(Viewed, feed.before)
  <2>1. /\ messages \in [MsgIds -> Message] /\ Viewed \in Channels /\ SequencesDistinct
        /\ low \subseteq InChannel(Viewed) /\ low \subseteq MsgIds
    BY ViewedAssumption
    DEF PInv, ChangeInv, HistoryInv, TypeInv, TypeOK, Below, InChannel, Stored
  <2>2. /\ IsFiniteSet(low)
        /\ \A m \in low : messages[m].seq \in Nat
        /\ \A m, n \in low : messages[m].seq = messages[n].seq => m = n
    BY <2>1, FS_Subset DEF Message, SequencesDistinct
  <2>3. Pages(Viewed, feed.before) = {page \in SUBSET low : IsPage(page, low)}
    BY DEF Pages, IsPage, Newest
  <2> HIDE DEF low
  <2>4. PICK page \in SUBSET low : IsPage(page, low)
    BY <2>2, PageExists
  <2>5. \A other \in SUBSET low : IsPage(other, low) => other = page
    BY <2>2, <2>4, PageUnique
  <2>6. Pages(Viewed, feed.before) = {page}
    BY <2>3, <2>4, <2>5
  <2> QED BY <2>1, <2>4, <2>6 DEF OnePage
<1> QED BY <1>1, ClientInvariant, PTL

\* The next page of a load is asked for below the lowest message of the last one,
\* and nothing that happens meanwhile sends it back up.
Descending ==
  Loading /\ Loading' =>
    \/ ~LoadFind /\ feed'.before = feed.before
    \/ /\ LoadFind /\ 0 < feed'.before
       /\ feed.before > 0 => feed'.before < feed.before

\* A load cannot go on for ever, whatever is posted meanwhile: every page it asks
\* for lies below the one before, and none below the first message
\* (message.service.go:126-165, message.repo.go:216-229).
THEOREM LoadsDescend == PSpec => [][Descending]_pvars
<1>1. ASSUME PInv, PNext PROVE Descending
  <2>1. CASE LoadFind
    <3>1. PICK page \in Pages(Viewed, feed.before) :
            feed'.pc = "live" \/ \E m \in page : feed'.before = messages[m].seq
      BY <1>1, <2>1 DEF LoadFind, PInv, ClientInv, ClientTypeOK, Feed
    <3>2. \A m \in page :
            messages[m].seq > 0 /\ (feed.before > 0 => messages[m].seq < feed.before)
      BY DEF Pages, Below, InChannel, Stored
    <3> QED BY <2>1, <3>1, <3>2 DEF Descending, Loading
  <2>2. CASE ~LoadFind
    <3>1. CASE UNCHANGED cvars
      BY <2>2, <3>1 DEF Descending, cvars
    <3>2. CASE LoadGet
      <4>1. feed'.before = feed.before
        BY <1>1, <3>2 DEF LoadGet, PInv, ClientInv, ClientTypeOK, Feed
      <4> QED BY <2>2, <4>1 DEF Descending
    <3>3. ASSUME NEW e \in outbox, Receive(e) PROVE Descending
      BY <3>3 DEF Receive, Loading, Descending
    <3> QED BY <1>1, <2>2, <3>1, <3>2, <3>3 DEF PNext, Client
  <2> QED BY <2>1, <2>2
<1> QED BY <1>1, ClientInvariant, PTL DEF PSpec
=============================================================================

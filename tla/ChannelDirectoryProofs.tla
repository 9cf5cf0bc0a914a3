----------------------- MODULE ChannelDirectoryProofs -----------------------
(***************************************************************************)
(* Proofs about ChannelDirectory, for any users and any number of racing   *)
(* requests.                                                               *)
(***************************************************************************)
EXTENDS ChannelDirectory, TLAPS

\* A stored channel has the two users of its key in their order, and no other
\* one has the same key.
DocsInv ==
  /\ \A d \in Stored : doc[d].key \in UserLess /\ doc[d].key[1] # doc[d].key[2]
  /\ \A c, d \in Stored : doc[c].key = doc[d].key => c = d

\* A request that is past its checks is for two users; it has inserted no
\* channel before it is done; when it rereads there is something to be found,
\* and what it was answered with has its key.
OpenInv(r) ==
  /\ open[r].pc \in {"search", "insert", "reread"} \/ open[r].status = "ok" =>
       open[r].actor \in Users /\ open[r].peer \in Users /\ open[r].actor # open[r].peer
  /\ r \in Stored => open[r].pc = "done"
  /\ open[r].pc = "reread" => Matches(r) # {}
  /\ open[r].status = "ok" => open[r].found \in Matches(r) /\ open[r].pc = "done"
  /\ open[r].status # "missing"

Inv == TypeOK /\ DocsInv /\ \A r \in Opens : OpenInv(r)

\* The key of two users is the pair of them in their order, and the same
\* whoever asks.
LEMMA KeyOrdered ==
  ASSUME NEW u \in Users, NEW v \in Users, u # v
  PROVE  /\ Key(u, v) \in UserLess /\ Key(u, v) \in Keys
         /\ Key(u, v) = Key(v, u)
         /\ {Key(u, v)[1], Key(u, v)[2]} = {u, v}
         /\ Key(u, v)[1] # Key(u, v)[2]
  BY OrderAssumption DEF Key, Keys

\* Two users are in order one way only.
LEMMA OrderedPairs ==
  ASSUME NEW k \in UserLess, NEW l \in UserLess, k[1] # k[2],
         {k[1], k[2]} = {l[1], l[2]}
  PROVE  k = l
<1>1. /\ k = <<k[1], k[2]>> /\ l = <<l[1], l[2]>>
      /\ k[1] \in Users /\ k[2] \in Users /\ l[1] \in Users /\ l[2] \in Users
  BY OrderAssumption
<1>2. (k[1] = l[1] /\ k[2] = l[2]) \/ (k[1] = l[2] /\ k[2] = l[1])
  OBVIOUS
<1>3. ASSUME k[1] = l[2], k[2] = l[1] PROVE FALSE
  <2>1. <<k[1], k[2]>> \in UserLess /\ <<k[2], k[1]>> \in UserLess
    BY <1>1, <1>3
  <2> QED
    BY <1>1, <2>1, OrderAssumption
<1> QED
  BY <1>1, <1>2, <1>3
-----------------------------------------------------------------------------
LEMMA InitInv == Init => Inv
<1> SUFFICES ASSUME Init PROVE Inv
  OBVIOUS
<1>1. Stored = {}
  BY DEF Init, Stored, NoDoc
<1> QED
  BY <1>1 DEF Init, Inv, TypeOK, DocsInv, OpenInv, Doc, Open, NoDoc, Keys

\* A step that leaves the documents alone, changes one request only, and does
\* not end it with an answer it should not have.
LEMMA RequestStep ==
  ASSUME Inv, UNCHANGED doc, NEW r \in Opens, NEW new \in Open,
         open' = [open EXCEPT ![r] = new],
         OpenInv(r)'
  PROVE  Inv'
<1>1. open \in [Opens -> Open] /\ Stored' = Stored
  BY DEF Inv, TypeOK, Stored
<1>2. \A s \in Opens : s # r => open'[s] = open[s]
  BY <1>1
<1>3. \A s \in Opens : s # r => OpenInv(s)'
  BY <1>1, <1>2 DEF Inv, OpenInv, Matches, KeyOf
<1>4. open' \in [Opens -> Open]
  BY <1>1
<1> QED
  BY <1>1, <1>3, <1>4 DEF Inv, TypeOK, DocsInv

LEMMA NextInv == Inv /\ [Next]_vars => Inv'
<1> SUFFICES ASSUME Inv, [Next]_vars PROVE Inv'
  OBVIOUS
<1>t. /\ open \in [Opens -> Open] /\ doc \in [Opens -> Doc]
      /\ \A r \in Opens : OpenInv(r)
  BY DEF Inv, TypeOK
<1>1. ASSUME NEW r \in Opens, Arrive(r) PROVE Inv'
  <2>1. PICK u \in Users, v \in Users :
          open' = [open EXCEPT ![r] =
            [@ EXCEPT !.pc = IF u = v THEN "done" ELSE "search",
                      !.status = IF u = v THEN "invalid" ELSE "pending",
                      !.actor = u, !.peer = v]]
    BY <1>1 DEF Arrive
  <2> DEFINE new == [open[r] EXCEPT !.pc = IF u = v THEN "done" ELSE "search",
                       !.status = IF u = v THEN "invalid" ELSE "pending",
                       !.actor = u, !.peer = v]
  <2>2. new \in Open /\ open' = [open EXCEPT ![r] = new] /\ open'[r] = new
    BY <1>t, <2>1 DEF Open
  <2>3. r \notin Stored /\ Stored' = Stored
    BY <1>1, <1>t DEF Arrive, OpenInv, Stored
  <2>4. OpenInv(r)'
    BY <2>2, <2>3, <1>t DEF OpenInv, Open
  <2> QED
    BY <1>1, <2>2, <2>4, RequestStep DEF Arrive
\* The answers with a channel that matches.
<1>2. ASSUME NEW r \in Opens, NEW d \in Matches(r), AnswerWith(r, d), UNCHANGED doc,
             open[r].pc \in {"search", "reread"}
      PROVE  Inv'
  <2> DEFINE new == [open[r] EXCEPT !.pc = "done", !.status = "ok", !.found = d]
  <2>1. d \in Opens
    BY DEF Matches, Stored
  <2>2. new \in Open /\ open' = [open EXCEPT ![r] = new] /\ open'[r] = new
    BY <1>t, <1>2, <2>1 DEF AnswerWith, Open
  <2>3. /\ open'[r].actor = open[r].actor /\ open'[r].peer = open[r].peer
        /\ open'[r].pc = "done" /\ open'[r].status = "ok" /\ open'[r].found = d
    BY <2>2, <1>t DEF Open
  <2>4. Matches(r)' = Matches(r) /\ Stored' = Stored
    BY <1>2, <2>3 DEF Matches, KeyOf, Stored
  <2>5. OpenInv(r)'
    BY <1>t, <1>2, <2>3, <2>4 DEF OpenInv
  <2> QED
    BY <1>2, <2>2, <2>5, RequestStep
\* The request goes on to another call.
<1>3. ASSUME NEW r \in Opens, NEW p \in {"search", "insert", "reread"}, Goto(r, p),
             UNCHANGED doc, open[r].pc \in {"search", "insert"},
             p = "reread" => Matches(r) # {}
      PROVE  Inv'
  <2> DEFINE new == [open[r] EXCEPT !.pc = p]
  <2>1. new \in Open /\ open' = [open EXCEPT ![r] = new] /\ open'[r] = new
    BY <1>t, <1>3 DEF Goto, Open
  <2>2. /\ open'[r].actor = open[r].actor /\ open'[r].peer = open[r].peer
        /\ open'[r].pc = p /\ open'[r].status = open[r].status
    BY <2>1, <1>t DEF Open
  <2>3. Matches(r)' = Matches(r) /\ Stored' = Stored
    BY <1>3, <2>2 DEF Matches, KeyOf, Stored
  <2>4. OpenInv(r)'
    BY <1>t, <1>3, <2>2, <2>3 DEF OpenInv
  <2> QED
    BY <1>3, <2>1, <2>4, RequestStep
<1>4. ASSUME NEW r \in Opens, Search(r) PROVE Inv'
  BY <1>2, <1>3, <1>4 DEF Search
<1>5. ASSUME NEW r \in Opens, Insert(r) PROVE Inv'
  <2>1. CASE Matches(r) # {}
    BY <1>3, <1>5, <2>1 DEF Insert
  <2>2. CASE /\ Matches(r) = {}
             /\ doc' = [doc EXCEPT ![r] = [key |-> KeyOf(r), active |-> TRUE]]
             /\ AnswerWith(r, r)
    <3>1. /\ open[r].actor \in Users /\ open[r].peer \in Users
          /\ open[r].actor # open[r].peer
      BY <1>t, <1>5 DEF OpenInv, Insert
    <3>2. /\ KeyOf(r) \in UserLess /\ KeyOf(r) \in Keys /\ KeyOf(r) # None
          /\ KeyOf(r)[1] # KeyOf(r)[2]
      BY <3>1, KeyOrdered, NoneAssumption DEF KeyOf, Keys
    <3>3. /\ doc' \in [Opens -> Doc] /\ doc'[r].key = KeyOf(r)
          /\ \A d \in Opens : d # r => doc'[d] = doc[d]
      BY <1>t, <2>2, <3>2 DEF Doc
    <3>4. Stored' = Stored \cup {r}
      BY <3>2, <3>3 DEF Stored
    <3>5. DocsInv'
      BY <3>2, <3>3, <3>4, <2>2 DEF Inv, DocsInv, Matches, Stored
    <3>6. /\ open' \in [Opens -> Open]
          /\ \A s \in Opens : s # r => open'[s] = open[s]
          /\ open'[r].actor = open[r].actor /\ open'[r].peer = open[r].peer
          /\ open'[r].pc = "done" /\ open'[r].status = "ok" /\ open'[r].found = r
      <4> DEFINE new == [open[r] EXCEPT !.pc = "done", !.status = "ok", !.found = r]
      <4>1. new \in Open /\ open' = [open EXCEPT ![r] = new] /\ open'[r] = new
        BY <1>t, <2>2 DEF AnswerWith, Open
      <4>2. /\ new.actor = open[r].actor /\ new.peer = open[r].peer
            /\ new.pc = "done" /\ new.status = "ok" /\ new.found = r
        BY <1>t DEF Open
      <4> HIDE DEF new
      <4> QED
        BY <1>t, <4>1, <4>2
    <3>7. \A s \in Opens : Matches(s) \subseteq Matches(s)'
      <4> SUFFICES ASSUME NEW s \in Opens, NEW d \in Matches(s) PROVE d \in Matches(s)'
        OBVIOUS
      <4>1. KeyOf(s)' = KeyOf(s)
        BY <3>6 DEF KeyOf
      <4>2. d # r
        BY <1>t, <1>5 DEF Matches, OpenInv, Insert
      <4> QED
        BY <3>3, <3>4, <4>1, <4>2 DEF Matches, Stored
    <3>8. \A s \in Opens : s # r => OpenInv(s)'
      BY <1>t, <3>4, <3>6, <3>7 DEF OpenInv
    <3>9. OpenInv(r)'
      <4>1. r \in Matches(r)'
        BY <3>3, <3>4, <3>6 DEF Matches, KeyOf
      <4> QED
        BY <3>1, <3>6, <4>1 DEF OpenInv
    <3> QED
      BY <3>3, <3>5, <3>6, <3>8, <3>9 DEF Inv, TypeOK
  <2> QED
    BY <1>5, <2>1, <2>2 DEF Insert
<1>6. ASSUME NEW r \in Opens, Reread(r) PROVE Inv'
  <2>1. Matches(r) # {}
    BY <1>t, <1>6 DEF OpenInv, Reread
  <2> QED
    BY <1>2, <1>6, <2>1 DEF Reread
<1>7. ASSUME NEW r \in Opens, Abort(r) PROVE Inv'
  <2> DEFINE new == [open[r] EXCEPT !.pc = "done", !.status = "error"]
  <2>1. new \in Open /\ open' = [open EXCEPT ![r] = new] /\ open'[r] = new
    BY <1>t, <1>7 DEF Abort, Open
  <2>2. open'[r].pc = "done" /\ open'[r].status = "error"
    BY <2>1, <1>t DEF Open
  <2>3. OpenInv(r)'
    BY <2>2 DEF OpenInv
  <2> QED
    BY <1>7, <2>1, <2>3, RequestStep DEF Abort
<1>8. ASSUME NEW d \in Opens, Deactivate(d) PROVE Inv'
  <2>1. /\ doc' \in [Opens -> Doc]
        /\ \A e \in Opens : doc'[e].key = doc[e].key
    BY <1>t, <1>8 DEF Deactivate, Stored, Doc
  <2>2. Stored' = Stored
    BY <2>1 DEF Stored
  <2>3. \A r \in Opens : Matches(r)' = Matches(r)
    BY <1>8, <2>1, <2>2 DEF Deactivate, Matches, KeyOf, Stored
  <2>4. \A r \in Opens : OpenInv(r)'
    BY <1>t, <1>8, <2>2, <2>3 DEF Deactivate, OpenInv
  <2> QED
    BY <1>8, <2>1, <2>2, <2>4 DEF Inv, TypeOK, DocsInv, Deactivate, Stored
<1>9. CASE UNCHANGED vars
  BY <1>9 DEF vars, Inv, TypeOK, DocsInv, OpenInv, Stored, Matches, KeyOf
<1> QED
  BY <1>1, <1>4, <1>5, <1>6, <1>7, <1>8, <1>9 DEF Next, Step

LEMMA Invariant == Spec => []Inv
  BY InitInv, NextInv, PTL DEF Spec
-----------------------------------------------------------------------------
\* Two users share one channel, however many requests race to open it.
THEOREM OneChannel == Spec => []OneChannelPerPair
<1>1. Inv => OneChannelPerPair
  <2> SUFFICES ASSUME Inv, NEW c \in Stored, NEW d \in Stored, Pair(c) = Pair(d)
               PROVE  c = d
    BY DEF OneChannelPerPair
  <2>1. /\ doc[c].key \in UserLess /\ doc[c].key[1] # doc[c].key[2]
        /\ doc[d].key \in UserLess
    BY DEF Inv, DocsInv
  <2>2. {doc[c].key[1], doc[c].key[2]} = {doc[d].key[1], doc[d].key[2]}
    BY DEF Pair
  <2>3. doc[c].key = doc[d].key
    BY <2>1, <2>2, OrderedPairs
  <2> QED
    BY <2>3 DEF Inv, DocsInv
<1> QED
  BY Invariant, <1>1, PTL

\* All who open a channel of a pair are answered with that one.
THEOREM Agreement == Spec => []OpensAgree
<1>1. Inv => OpensAgree
  <2> SUFFICES ASSUME Inv PROVE OpensAgree
    OBVIOUS
  <2>1. ASSUME NEW r \in Opens, open[r].status = "ok"
        PROVE  /\ open[r].found \in Stored
               /\ doc[open[r].found].key = KeyOf(r)
               /\ open[r].actor \in Users /\ open[r].peer \in Users
               /\ open[r].actor # open[r].peer
    BY <2>1 DEF Inv, OpenInv, Matches
  <2>2. ASSUME NEW r \in Opens, open[r].status = "ok"
        PROVE  Pair(open[r].found) = {open[r].actor, open[r].peer}
    <3> DEFINE u == open[r].actor
               v == open[r].peer
    <3>1. doc[open[r].found].key = Key(u, v)
      BY <2>1, <2>2 DEF KeyOf
    <3>2. {Key(u, v)[1], Key(u, v)[2]} = {u, v}
      BY <2>1, <2>2, KeyOrdered
    <3> QED
      BY <3>1, <3>2 DEF Pair
  <2>3. ASSUME NEW r \in Opens, NEW s \in Opens,
               open[r].status = "ok", open[s].status = "ok",
               {open[r].actor, open[r].peer} = {open[s].actor, open[s].peer}
        PROVE  open[r].found = open[s].found
    <3>1. KeyOf(r) = KeyOf(s)
      BY <2>1, <2>3, KeyOrdered DEF KeyOf
    <3> QED
      BY <2>1, <2>3, <3>1 DEF Inv, DocsInv
  <2> QED
    BY <2>1, <2>2, <2>3 DEF OpensAgree
<1> QED
  BY Invariant, <1>1, PTL

\* The loser of a race always finds the channel of the winner.
THEOREM LosersFind == Spec => []LoserFindsWinner
<1>1. Inv => LoserFindsWinner
  BY DEF Inv, OpenInv, LoserFindsWinner
<1> QED
  BY Invariant, <1>1, PTL
-----------------------------------------------------------------------------
(* How many calls an open takes *)

\* What an open may still take of the database: a search, an insert that may be
\* turned away, and the search or the reread after it.
CallsLeft(r) ==
  CASE open[r].pc = "idle"   -> 4
    [] open[r].pc = "search" -> IF Matches(r) = {} THEN 3 ELSE 1
    [] open[r].pc = "insert" -> 2
    [] open[r].pc = "reread" -> 1
    [] OTHER                 -> 0

Calls(r) == Search(r) \/ Insert(r) \/ Reread(r)

\* A call brings its open nearer to its end, and nobody else's step puts that off.
RunsOut ==
  \A r \in Opens : /\ CallsLeft(r)' <= CallsLeft(r)
                   /\ Calls(r) => CallsLeft(r)' < CallsLeft(r)

\* What is stored stays and keeps its key.
LEMMA MatchesGrow ==
  ASSUME Inv, [Next]_vars, NEW r \in Opens, KeyOf(r)' = KeyOf(r)
  PROVE  Matches(r) \subseteq Matches(r)'
<1> USE DEF Matches, Stored
<1>1. doc \in [Opens -> Doc] /\ \A d \in Opens : OpenInv(d)
  BY DEF Inv, TypeOK
<1>2. CASE UNCHANGED doc
  BY <1>2
<1>3. ASSUME NEW d \in Opens, Deactivate(d) PROVE Matches(r) \subseteq Matches(r)'
  <2>1. \A e \in Opens : doc'[e].key = doc[e].key
    BY <1>1, <1>3 DEF Deactivate, Doc
  <2> QED BY <2>1
<1>4. ASSUME NEW s \in Opens, Insert(s) PROVE Matches(r) \subseteq Matches(r)'
  <2>1. doc[s].key = None
    BY <1>1, <1>4 DEF Insert, OpenInv
  <2>2. \A e \in Opens : e # s => doc'[e] = doc[e]
    BY <1>1, <1>4 DEF Insert
  <2> QED BY <2>1, <2>2
<1> QED
  BY <1>2, <1>3, <1>4 DEF vars, Next, Step, Arrive, Search, Reread, Abort

\* Losing the race costs an open one more search: it takes the database three
\* steps at most, though the server may go back to the start of the upsert
\* (internal/channel/repo/channel.repo.go:26-37).
THEOREM CallsRunOut == Spec => [][RunsOut]_vars
<1>1. ASSUME Inv, [Next]_vars PROVE [RunsOut]_vars
  <2> SUFFICES ASSUME Next, NEW r \in Opens
               PROVE  /\ CallsLeft(r)' <= CallsLeft(r)
                      /\ Calls(r) => CallsLeft(r)' < CallsLeft(r)
    BY <1>1 DEF RunsOut
  <2>1. open \in [Opens -> Open] /\ OpenInv(r)
    BY <1>1 DEF Inv, TypeOK
  <2>2. CASE open'[r] = open[r]
    <3>1. Matches(r) \subseteq Matches(r)'
      BY <1>1, <2>2, MatchesGrow DEF KeyOf
    <3>2. CallsLeft(r)' <= CallsLeft(r)
      BY <2>2, <3>1 DEF CallsLeft
    <3>3. ~Calls(r)
      <4>1. Calls(r) => open'[r].pc # open[r].pc
        BY <2>1 DEF Calls, Search, Insert, Reread, Goto, AnswerWith, Open
      <4> QED BY <2>2, <4>1
    <3> QED BY <3>2, <3>3
  <2>3. CASE Arrive(r)
    <3>1. open[r].pc = "idle" /\ open'[r].pc \in {"done", "search"}
      BY <2>1, <2>3 DEF Arrive, Open
    <3> QED BY <3>1 DEF CallsLeft, Calls, Search, Insert, Reread
  <2>4. CASE Abort(r)
    <3>1. open[r].pc # "done" /\ open'[r].pc = "done"
      BY <2>1, <2>4 DEF Abort, Open
    <3> QED BY <2>1, <3>1 DEF CallsLeft, Open
  <2>5. CASE Calls(r)
    <3>1. /\ open[r].pc = "search" => \/ open'[r].pc = "done"
                                      \/ Matches(r) = {} /\ open'[r].pc = "insert"
          /\ open[r].pc = "insert" =>
               \/ open'[r].pc = "done"
               \/ Matches(r) # {} /\ open'[r].pc \in {"search", "reread"}
          /\ open[r].pc = "reread" => open'[r].pc = "done"
          /\ open[r].pc \in {"search", "insert", "reread"}
      BY <2>1, <2>5 DEF Calls, Search, Insert, Reread, Goto, AnswerWith, Open
    <3>2. open'[r].pc = "search" => KeyOf(r)' = KeyOf(r)
      BY <2>1, <2>5 DEF Calls, Search, Insert, Reread, Goto, AnswerWith, KeyOf, Open
    <3>3. open'[r].pc = "search" => Matches(r)' # {}
      BY <1>1, <3>1, <3>2, MatchesGrow
    <3> QED BY <3>1, <3>3 DEF CallsLeft
  <2>6. \/ open'[r] = open[r] \/ Arrive(r) \/ Abort(r) \/ Calls(r)
    <3>1. ASSUME NEW s \in Opens, s # r, Step(s) \/ Abort(s) PROVE open'[r] = open[r]
      BY <2>1, <3>1
      DEF Step, Arrive, Search, Insert, Reread, Abort, Goto, AnswerWith
    <3> QED BY <3>1 DEF Next, Step, Calls, Deactivate
  <2> QED BY <2>2, <2>3, <2>4, <2>5, <2>6
<1> QED BY <1>1, Invariant, PTL DEF Spec
=============================================================================

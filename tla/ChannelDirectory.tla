-------------------------- MODULE ChannelDirectory --------------------------
(***************************************************************************)
(* Opening direct channels: Service.Create and Repository.GetOrCreate.     *)
(* The upsert of FindOneAndUpdate is two steps of the database, its search *)
(* and its insert; between them another request may insert the channel,    *)
(* and the unique index on direct_key turns the insert away.               *)
(***************************************************************************)
EXTENDS Naturals

CONSTANTS
  Users,
  Opens,     \* requests POST /channels, each used once
  UserLess,  \* the order of the user ids, as pairs
  None

ASSUME OrderAssumption ==
  /\ UserLess \subseteq Users \X Users
  /\ \A u, v \in Users : u # v =>
       (<<u, v>> \in UserLess <=> <<v, u>> \notin UserLess)
ASSUME NoneAssumption == None \notin Users \cup Opens \cup (Users \X Users)

VARIABLES
  doc,   \* [Opens -> Doc]: the channel inserted by each request
  open   \* [Opens -> Open]: the requests

vars == <<doc, open>>

Keys == Users \X Users

\* A document is named after the request that minted its ObjectID.
Doc  == [key : Keys \cup {None}, active : BOOLEAN]
Open == [pc : {"idle", "search", "insert", "reread", "done"},
         status : {"pending", "ok", "invalid", "missing", "error"},
         actor : Users \cup {None}, peer : Users \cup {None},
         found : Opens \cup {None}]

NoDoc == [key |-> None, active |-> FALSE]

Init ==
  /\ doc  = [r \in Opens |-> NoDoc]
  /\ open = [r \in Opens |-> [pc |-> "idle", status |-> "pending",
                              actor |-> None, peer |-> None, found |-> None]]

Stored == {d \in Opens : doc[d].key # None}

KeyAsGiven(u, v) == <<u, v>>                       \* mutant of Key

\* direct_key: the hash of the two user ids in their order.
Key(u, v) == IF <<u, v>> \in UserLess THEN <<u, v>> ELSE <<v, u>>

KeyOf(r)   == Key(open[r].actor, open[r].peer)
Matches(r) == {d \in Stored : doc[d].key = KeyOf(r)}
Goto(r, p) == open' = [open EXCEPT ![r].pc = p]

AnswerWith(r, d) ==
  open' = [open EXCEPT ![r].pc = "done", ![r].status = "ok", ![r].found = d]

\* Service.Create: nobody opens a channel with himself.
Arrive(r) ==
  /\ open[r].pc = "idle"
  /\ \E u, v \in Users :
       open' = [open EXCEPT ![r] =
         [@ EXCEPT !.pc = IF u = v THEN "done" ELSE "search",
                   !.status = IF u = v THEN "invalid" ELSE "pending",
                   !.actor = u, !.peer = v]]
  /\ UNCHANGED doc

SearchActive(r) ==                                 \* mutant of Search
  /\ open[r].pc = "search"
  /\ \/ \E d \in Matches(r) : doc[d].active /\ AnswerWith(r, d)
     \/ (\A d \in Matches(r) : ~doc[d].active) /\ Goto(r, "insert")
  /\ UNCHANGED doc

\* $setOnInsert leaves a channel that is found as it is, cleared or not.
Search(r) ==
  /\ open[r].pc = "search"
  /\ \/ \E d \in Matches(r) : AnswerWith(r, d)
     \/ Matches(r) = {} /\ Goto(r, "insert")
  /\ UNCHANGED doc

InsertNoIndex(r) ==                                \* mutant of Insert
  /\ open[r].pc = "insert"
  /\ doc' = [doc EXCEPT ![r] = [key |-> KeyOf(r), active |-> TRUE]]
  /\ AnswerWith(r, r)

\* Turned away by the index, the server searches again by itself or reports the
\* duplicate.
Insert(r) ==
  /\ open[r].pc = "insert"
  /\ \/ /\ Matches(r) = {}
        /\ doc' = [doc EXCEPT ![r] = [key |-> KeyOf(r), active |-> TRUE]]
        /\ AnswerWith(r, r)
     \/ /\ Matches(r) # {}
        /\ Goto(r, "search") \/ Goto(r, "reread")
        /\ UNCHANGED doc

RereadActive(r) ==                                 \* mutant of Reread
  /\ open[r].pc = "reread"
  /\ \/ \E d \in Matches(r) : doc[d].active /\ AnswerWith(r, d)
     \/ /\ \A d \in Matches(r) : ~doc[d].active
        /\ open' = [open EXCEPT ![r].pc = "done", ![r].status = "missing"]
  /\ UNCHANGED doc

\* The FindOne after a reported duplicate; not finding anything is an error.
Reread(r) ==
  /\ open[r].pc = "reread"
  /\ \/ \E d \in Matches(r) : AnswerWith(r, d)
     \/ /\ Matches(r) = {}
        /\ open' = [open EXCEPT ![r].pc = "done", ![r].status = "missing"]
  /\ UNCHANGED doc

\* A failed call, a cancelled request or a dead process.
Abort(r) ==
  /\ open[r].pc \notin {"idle", "done"}
  /\ open' = [open EXCEPT ![r].pc = "done", ![r].status = "error"]
  /\ UNCHANGED doc

\* The active flag is cleared by hand.
Deactivate(d) ==
  /\ d \in Stored /\ doc[d].active
  /\ doc' = [doc EXCEPT ![d].active = FALSE]
  /\ UNCHANGED open

Step(r) == Arrive(r) \/ Search(r) \/ Insert(r) \/ Reread(r)

Next == \E r \in Opens : Step(r) \/ Abort(r) \/ Deactivate(r)

Spec == Init /\ [][Next]_vars

\* Every call of a request under way is answered.
LiveSpec == Spec /\ \A r \in Opens : WF_vars(Search(r) \/ Insert(r) \/ Reread(r))

\* Types of the channel documents and of the requests.
TypeOK ==
  /\ doc \in [Opens -> Doc]
  /\ open \in [Opens -> Open]
-----------------------------------------------------------------------------
(* Properties *)

Pair(d) == {doc[d].key[1], doc[d].key[2]}

\* Two users share one channel at most, whichever of them opens it and however
\* the requests race.
OneChannelPerPair ==
  \A c, d \in Stored : Pair(c) = Pair(d) => c = d

\* Every open of a pair that is answered is answered with the same channel, a
\* stored one of these two and nobody else.
OpensAgree ==
  \A r, s \in Opens :
    /\ open[r].status = "ok" =>
         /\ open[r].found \in Stored
         /\ Pair(open[r].found) = {open[r].actor, open[r].peer}
    /\ /\ open[r].status = "ok" /\ open[s].status = "ok"
       /\ {open[r].actor, open[r].peer} = {open[s].actor, open[s].peer}
       => open[r].found = open[s].found

\* A request that loses the race always finds the channel of the winner.
LoserFindsWinner == \A r \in Opens : open[r].status # "missing"

\* Losing the race does not keep a request in the upsert for ever.
OpensAnswered ==
  \A r \in Opens : open[r].pc = "search" ~> open[r].pc = "done"
=============================================================================

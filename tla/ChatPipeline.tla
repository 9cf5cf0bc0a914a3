---------------------------- MODULE ChatPipeline ----------------------------
(***************************************************************************)
(* The store and a client that follows one channel the way README.md:98    *)
(* asks of it: it applies events in the order of their versions, drops the *)
(* ones it is past, keeps the newer revision of a message, and loads the   *)
(* history again, page by page, wherever a version or a sequence is        *)
(* missing.  Between the outbox and the client an event may be lost,       *)
(* delayed, reordered or repeated, which takes in all that the topic of    *)
(* EventTopic may do.  The client is external; the pages are the code's.   *)
(***************************************************************************)
EXTENDS ChatStore

CONSTANTS
  Viewer,     \* the user of the client
  Viewed,     \* the channel it follows
  PageLimit   \* messages asked for at a time, 1 to 100

ASSUME ViewedAssumption ==
  Viewed \in Channels /\ Viewer \in Users /\ PageLimit \in Nat \ {0}

VARIABLES
  view,  \* [MsgIds -> Copy]: what the client shows
  feed   \* how far it is

cvars == <<view, feed>>
pvars == <<messages, channels, states, outbox, req, view, feed>>

Copy == [seq : Nat, rev : Nat, recalled : BOOLEAN,
         content : Bodies \cup EditReqs \cup {Blank}]
Feed == [pc : {"live", "get", "find", "gone"},
         applied : Nat,    \* the last version applied
         target  : Nat,    \* the version that made it load the history
         before  : Nat]    \* before_seq of the next page, 0 for the newest

NoCopy == [seq |-> 0, rev |-> 0, recalled |-> FALSE, content |-> Blank]
CopyOf(d) == [seq |-> d.seq, rev |-> d.rev, recalled |-> d.recalled,
              content |-> d.content]

Seen    == {m \in MsgIds : view[m].seq > 0}
Loading == feed.pc \in {"get", "find"}

\* A client begins with the history as it stands.
PInit ==
  /\ Init
  /\ view = [m \in MsgIds |-> NoCopy]
  /\ feed = [pc |-> "get", applied |-> 0, target |-> 0, before |-> 0]
-----------------------------------------------------------------------------
(* Events *)

\* Neither a version nor a sequence is missing before this event.
Follows(e) ==
  /\ e.version = feed.applied + 1
  /\ e.type # "read" => \A k \in 1..(e.seq - 1) : \E m \in Seen : view[m].seq = k

\* Events that come while the history is loaded are left for later.
Receive(e) ==
  /\ feed.pc = "live"
  /\ e.ch = Viewed /\ e.version > feed.applied
  /\ \/ /\ Follows(e)
        /\ view' = IF e.type # "read" /\ e.rev > view[e.msg].rev
                   THEN [view EXCEPT ![e.msg] = CopyOf(e)] ELSE view
        /\ feed' = [feed EXCEPT !.applied = e.version]
     \/ /\ ~Follows(e)
        /\ feed' = [feed EXCEPT !.pc = "get", !.target = e.version, !.before = 0]
        /\ UNCHANGED view
  /\ UNCHANGED vars
-----------------------------------------------------------------------------
(* Pages *)

BelowOrAt(c, before) ==                            \* mutant of Below
  {m \in InChannel(c) : before > 0 => messages[m].seq <= before}
BelowOffByOne(c, before) ==                        \* mutant of Below
  {m \in InChannel(c) : before > 0 => messages[m].seq + 1 < before}

\* The filter on before_seq.
Below(c, before) ==
  {m \in InChannel(c) : before > 0 => messages[m].seq < before}

PagesOldestFirst(c, before) ==                     \* mutant of Pages
  {page \in SUBSET Below(c, before) :
     /\ Cardinality(page) = PageLimit \/ page = Below(c, before)
     /\ Cardinality(page) <= PageLimit
     /\ \A m \in page, n \in Below(c, before) \ page :
          messages[m].seq < messages[n].seq}

\* Repository.List: the newest PageLimit messages below before, of which there
\* is one set only, as sequences are distinct.
Pages(c, before) ==
  {page \in SUBSET Below(c, before) :
     /\ Cardinality(page) = PageLimit \/ page = Below(c, before)
     /\ Cardinality(page) <= PageLimit
     /\ \A m \in page, n \in Below(c, before) \ page :
          messages[n].seq < messages[m].seq}

\* Service.List, first call.
LoadGet ==
  /\ feed.pc = "get"
  /\ feed' = [feed EXCEPT !.pc = IF CanAccess(Viewer, Viewed) THEN "find" ELSE "gone"]
  /\ UNCHANGED view
  /\ UNCHANGED vars

\* Service.List, second call.  A page that is not full is the last one.
LoadFind ==
  /\ feed.pc = "find"
  /\ \E page \in Pages(Viewed, feed.before) :
       /\ view' = [m \in MsgIds |->
            IF m \in page /\ messages[m].rev > view[m].rev
            THEN CopyOf(messages[m]) ELSE view[m]]
       /\ \/ /\ Cardinality(page) < PageLimit
             /\ feed' = [feed EXCEPT !.pc = "live", !.before = 0, !.applied = feed.target]
          \/ /\ Cardinality(page) = PageLimit
             /\ \E m \in page :
                  /\ \A n \in page : messages[m].seq <= messages[n].seq
                  /\ feed' = [feed EXCEPT !.pc = "get", !.before = messages[m].seq]
  /\ UNCHANGED vars

Client == LoadGet \/ LoadFind \/ \E e \in outbox : Receive(e)

PNext == (Next /\ UNCHANGED cvars) \/ Client

PSpec == PInit /\ [][PNext]_pvars

\* A client goes on with what it has begun.
PLiveSpec == PSpec /\ WF_pvars(LoadGet \/ LoadFind)

\* Types of the client; those of the store are ChatStore's.
ClientTypeOK ==
  /\ view \in [MsgIds -> Copy]
  /\ feed \in Feed
-----------------------------------------------------------------------------
(* Properties *)

\* README.md:98: a client that has come to a version shows every change of a
\* message up to that version, at its revision or a later one, also those
\* whose event was lost or never got into the outbox.
ViewCoversVersions ==
  \A r \in MsgIds \cup ReviseReqs :
    /\ req[r].version \in 1..feed.applied
    /\ req[r].ch = Viewed
    /\ Subject(r) \in Stored
    => view[Subject(r)].rev >= req[r].doc.rev

\* A client never shows what the store did not say: no revision ahead of the
\* message, nor another text of the same revision, nor, while the channel is
\* in use, a message that is not there.
ViewIsTrue ==
  \A m \in Seen :
    /\ channels[Viewed].active => m \in InChannel(Viewed)
    /\ m \in Stored =>
         /\ view[m].seq = messages[m].seq
         /\ view[m].rev <= messages[m].rev
         /\ view[m].rev = messages[m].rev => view[m] = CopyOf(messages[m])

\* Whenever the client is not at a load, the messages it shows have the
\* sequences 1, 2, ... without a gap: the pages fit together though messages
\* are posted while they are read.
ViewContiguous ==
  feed.pc = "live" /\ channels[Viewed].active =>
    \A m \in Seen : \A k \in 1..(view[m].seq - 1) : \E n \in Seen : view[n].seq = k

\* A load comes to an end however many messages are posted meanwhile.
LoadEnds == Loading ~> ~Loading
=============================================================================

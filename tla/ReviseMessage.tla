--------------------------- MODULE ReviseMessage ----------------------------
(***************************************************************************)
(* Editing and recalling a message: Service.Edit and Service.Recall, and   *)
(* the compare-and-set of Repository.mutate they share.                    *)
(***************************************************************************)
EXTENDS ChatDocs

\* Service.Edit turns an invalid content away before any MongoDB call, and
\* authorized() a message that does not exist.
ReviseRefused(r) ==
  /\ At(r, "idle")
  /\ \/ r \in EditReqs /\ Answer(r, "invalid")
     \/ Stored # MsgIds /\ Answer(r, "not_found")
  /\ UNCHANGED docs

\* authorized(), first call: the message is read; what it says now is what
\* the rest of the request goes by.
ReviseGet(r) ==
  /\ At(r, "idle")
  /\ \E u \in Users, m \in Stored :
       req' = [req EXCEPT ![r].pc = "authorize", ![r].actor = u,
                          ![r].ch = messages[m].ch, ![r].msg = m,
                          ![r].doc = messages[m]]
  /\ UNCHANGED docs

\* authorized(), second call, and the checks of Edit and Recall: a recalled
\* message cannot be edited, and recalling it again changes nothing.
Authorize(r) ==
  /\ At(r, "authorize")
  /\ LET access == CanAccess(req[r].actor, req[r].ch)
         own    == req[r].doc.sender = req[r].actor
         gone   == req[r].doc.recalled
     IN \/ ~access /\ Answer(r, "not_found")
        \/ access /\ ~own /\ Answer(r, "forbidden")
        \/ access /\ own /\ gone /\ r \in EditReqs /\ Answer(r, "conflict")
        \/ access /\ own /\ gone /\ r \in RecallReqs /\ Answer(r, "unchanged")
        \/ access /\ own /\ ~gone /\ Goto(r, "cas")
  /\ UNCHANGED docs

UnchangedSender(r) ==                              \* mutant of Unchanged
  LET m == req[r].msg IN m \in Stored /\ messages[m].sender = req[r].doc.sender
UnchangedButRevision(r) ==                         \* mutant of Unchanged
  UnchangedSender(r) /\ ~messages[req[r].msg].recalled

\* The filter of the update: still the revision read, still not recalled.
Unchanged(r) ==
  LET m == req[r].msg IN
  /\ m \in Stored
  /\ messages[m].sender = req[r].doc.sender
  /\ messages[m].rev = req[r].doc.rev
  /\ ~messages[m].recalled

RevisedNoInc(r, doc) ==                            \* mutant of Revised
  [doc EXCEPT !.content = IF r \in EditReqs THEN r ELSE Blank,
              !.recalled = r \in RecallReqs]

\* The update itself.  Each edit brings a content of its own.
Revised(r, doc) ==
  [doc EXCEPT !.content = IF r \in EditReqs THEN r ELSE Blank,
              !.rev = @ + 1,
              !.recalled = r \in RecallReqs]

CompareAndSetReturnsBefore(r) ==                   \* mutant of CompareAndSet
  /\ At(r, "cas")
  /\ LET m == req[r].msg IN
       \/ /\ Unchanged(r)
          /\ messages' = [messages EXCEPT ![m] = Revised(r, @)]
          /\ Goto(r, "bump")
       \/ ~Unchanged(r) /\ Answer(r, "conflict") /\ UNCHANGED messages
  /\ UNCHANGED <<channels, states, outbox>>

CompareAndSet(r) ==
  /\ At(r, "cas")
  /\ LET m   == req[r].msg
         new == Revised(r, messages[m])
     IN \/ /\ Unchanged(r)
           /\ messages' = [messages EXCEPT ![m] = new]
           /\ req' = [req EXCEPT ![r].pc = "bump", ![r].doc = new]
        \/ /\ ~Unchanged(r)
           /\ Answer(r, "conflict")
           /\ UNCHANGED messages
  /\ UNCHANGED <<channels, states, outbox>>

\* The version of the channel.  The message stays changed when the channel
\* turns out to be inactive.
ReviseBump(r) ==
  /\ At(r, "bump")
  /\ LET ch == channels[req[r].ch] IN
       \/ ch.active /\ TakeVersion(r, [ch EXCEPT !.version = @ + 1])
       \/ ~ch.active /\ Answer(r, "not_found") /\ UNCHANGED channels
  /\ UNCHANGED <<messages, states, outbox>>

RevisedEvent(r) ==
  /\ At(r, "event")
  /\ LET type == IF r \in EditReqs THEN "updated" ELSE "recalled" IN
       outbox' = outbox \cup {MessagePayload(r, type, req[r].msg)}
  /\ Answer(r, "revised")
  /\ UNCHANGED <<messages, channels, states>>

Revise(r) ==
  \/ ReviseRefused(r) \/ ReviseGet(r) \/ Authorize(r)
  \/ CompareAndSet(r) \/ ReviseBump(r) \/ RevisedEvent(r)
=============================================================================

----------------------------- MODULE ReadCursor -----------------------------
(***************************************************************************)
(* Advancing a read cursor: Service.Read and Repository.Read.  The upsert  *)
(* is two steps of the database: a search that matches a cursor still      *)
(* behind, and, where nothing matched, an insert that the unique index on  *)
(* (channel_id, user_id) refuses when the document is there by then.       *)
(***************************************************************************)
EXTENDS ChatDocs

Cursor(r) == states[req[r].ch][req[r].actor]
SetCursor(r) == states' = [states EXCEPT ![req[r].ch][req[r].actor] = req[r].seq]

CoveredOffByOne(c, s) == s <= channels[c].lastSeq + 1   \* mutant of Covered

\* Only what the channel's summary already covers can be marked as read.
Covered(c, s) == s <= channels[c].lastSeq

ReadGet(r) ==
  /\ At(r, "idle")
  /\ \E u \in Users, c \in Channels, s \in ReadSeqs :
       Arrive(r, [req[r] EXCEPT !.actor = u, !.ch = c, !.seq = s],
              CASE ~CanAccess(u, c) -> "not_found"
                [] ~Covered(c, s)   -> "invalid"
                [] OTHER            -> "pending",
              "update")
  /\ UNCHANGED docs

BehindAnyway(r) == Cursor(r) > 0                        \* mutant of Behind
Behind(r) == Cursor(r) > 0 /\ Cursor(r) < req[r].seq

UpdateCursor(r) ==
  /\ At(r, "update")
  /\ \/ Behind(r) /\ SetCursor(r) /\ Goto(r, "fetch")
     \/ ~Behind(r) /\ Goto(r, "upsert") /\ UNCHANGED states
  /\ UNCHANGED <<messages, channels, outbox>>

UpsertCursorAnnounced(r) ==                             \* mutant of UpsertCursor
  /\ At(r, "upsert")
  /\ IF Cursor(r) = 0 THEN SetCursor(r) ELSE UNCHANGED states
  /\ Goto(r, "fetch")
  /\ UNCHANGED <<messages, channels, outbox>>

\* The insert of the upsert, or the duplicate key that is taken to mean that
\* the cursor is far enough already.
UpsertCursor(r) ==
  /\ At(r, "upsert")
  /\ \/ Cursor(r) = 0 /\ SetCursor(r) /\ Goto(r, "fetch")
     \/ Cursor(r) > 0 /\ Goto(r, "peek") /\ UNCHANGED states
  /\ UNCHANGED <<messages, channels, outbox>>

\* The cursor is read back by a call of its own; others may have moved it on.
FetchCursor(r) ==
  /\ At(r, "fetch")
  /\ req' = [req EXCEPT ![r].pc = "bump", ![r].read = Cursor(r)]
  /\ UNCHANGED docs

PeekCursor(r) ==
  /\ At(r, "peek")
  /\ req' = [req EXCEPT ![r].pc = "done", ![r].status = "unchanged",
                        ![r].read = Cursor(r)]
  /\ UNCHANGED docs

ReadBump(r) ==
  /\ At(r, "bump")
  /\ LET ch == channels[req[r].ch] IN
       \/ /\ CanAccess(req[r].actor, req[r].ch)
          /\ TakeVersion(r, [ch EXCEPT !.version = @ + 1])
       \/ /\ ~CanAccess(req[r].actor, req[r].ch)
          /\ Answer(r, "not_found")
          /\ UNCHANGED channels
  /\ UNCHANGED <<messages, states, outbox>>

AdvancedEvent(r) ==
  /\ At(r, "event")
  /\ outbox' = outbox \cup
       {[id |-> r, type |-> "read", ch |-> req[r].ch,
         version |-> req[r].version, user |-> req[r].actor,
         lastRead |-> req[r].read]}
  /\ Answer(r, "advanced")
  /\ UNCHANGED <<messages, channels, states>>

Read(r) ==
  \/ ReadGet(r) \/ UpdateCursor(r) \/ UpsertCursor(r) \/ FetchCursor(r)
  \/ PeekCursor(r) \/ ReadBump(r) \/ AdvancedEvent(r)
=============================================================================

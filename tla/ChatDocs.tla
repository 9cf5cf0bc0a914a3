------------------------------ MODULE ChatDocs ------------------------------
(***************************************************************************)
(* The MongoDB documents of the chat service and the HTTP requests that    *)
(* work on them.  MongoDB runs standalone: every call changes or reads one *)
(* document atomically and nothing spans two calls, so a request is a      *)
(* little process whose pc names the MongoDB call it makes next.           *)
(*                                                                         *)
(* A request identifier stands for one HTTP request and is used once.  The *)
(* ObjectID of a message and the UUID of an event are minted by the        *)
(* request that inserts them, so both are named after that request.        *)
(***************************************************************************)
EXTENDS Naturals

CONSTANTS
  Users,           \* user ids: the "sub" of a verified token
  Channels,        \* ObjectIDs of the direct channels
  Participants,    \* [Channels -> SUBSET Users], fixed when a channel is made
  Keys,            \* client_message_id values
  Bodies,          \* what is posted: type and content, for an AI reply content
                   \* and expected_last_seq, which goes into the hash only
  Malformed,       \* the payload that stands for all the validation rejects
  CreateReqs,      \* requests POST  /channels/:id/messages
  AIReqs,          \* requests POST  /channels/:id/ai-replies
  EditReqs,        \* requests PATCH /messages/:id
  RecallReqs,      \* requests POST  /messages/:id/recall
  ReadReqs,        \* requests PUT   /channels/:id/read-cursor
  ReadSeqs,        \* last_read_seq values the clients send
  WithReplies,     \* whether CreateReqs may carry a reply_to_message_id
  Deactivatable,   \* channels whose active flag an operator may clear
  MaxAttempts,     \* tries of the insert loop (64 in the code)
  None             \* absent user, channel, key, payload or message

MsgIds     == CreateReqs \cup AIReqs
ReviseReqs == EditReqs \cup RecallReqs
Reqs       == MsgIds \cup ReviseReqs \cup ReadReqs

ASSUME ParticipantsAssumption == Participants \in [Channels -> SUBSET Users]
ASSUME AttemptsAssumption     == MaxAttempts \in Nat \ {0}
ASSUME ReadSeqsAssumption     == ReadSeqs \subseteq Nat \ {0}
ASSUME RequestsAssumption ==
  /\ CreateReqs \cap AIReqs = {}
  /\ EditReqs \cap RecallReqs = {}
  /\ MsgIds \cap (ReviseReqs \cup ReadReqs) = {}
  /\ ReviseReqs \cap ReadReqs = {}
  /\ None \notin Reqs \cup Channels \cup Users

VARIABLES
  messages,  \* [MsgIds -> Message], seq = 0 where there is no document
  channels,  \* [Channels -> Channel]
  states,    \* [Channels -> [Users -> Nat]]: last_read_seq, 0 = no document
  outbox,    \* the event documents inserted so far
  req        \* [Reqs -> Request]: the requests

docs == <<messages, channels, states, outbox>>
vars == <<messages, channels, states, outbox, req>>
-----------------------------------------------------------------------------
(* Documents *)

Blank == ""                                  \* content of a recalled message

\* SHA-256 of the JSON of a request: requests of one key have the same hash
\* exactly when they are of the same route, payload (the type and the content, or
\* the content and the expected_last_seq of an AI reply) and message replied to.
Hashes == {"user", "ai"} \X Bodies \X (MsgIds \cup {None})

Message ==
  [ch : Channels \cup {None}, sender : Users \cup {None},
   kind : {"user", "ai"}, key : Keys \cup {None}, hash : Hashes \cup {None},
   reply : MsgIds \cup {None}, seq : Nat, rev : Nat, recalled : BOOLEAN,
   content : Bodies \cup EditReqs \cup {Blank}]

NoDoc ==
  [ch |-> None, sender |-> None, kind |-> "user", key |-> None,
   hash |-> None, reply |-> None, seq |-> 0, rev |-> 0, recalled |-> FALSE,
   content |-> Blank]

Channel == [active : BOOLEAN, lastSeq : Nat, lastMsg : MsgIds \cup {None},
            version : Nat]

NewChannel == [active |-> TRUE, lastSeq |-> 0, lastMsg |-> None, version |-> 0]

Stored       == {m \in MsgIds : messages[m].seq > 0}
InChannel(c) == {m \in Stored : messages[m].ch = c}

\* Channel Get of the service, and the filter of the channel writes: the
\* channel is active and the user one of its two participants.
CanAccess(u, c) == channels[c].active /\ u \in Participants[c]

(* Events.  rev tells the versions of a message apart; the rest of the      *)
(* payload is a copy of the message as the request last held it.            *)
MessageEvent ==
  [id : MsgIds \cup ReviseReqs, type : {"created", "updated", "recalled"},
   ch : Channels, version : Nat, msg : MsgIds, seq : Nat, rev : Nat,
   recalled : BOOLEAN, content : Bodies \cup EditReqs \cup {Blank}]

CursorEvent ==
  [id : ReadReqs, type : {"read"}, ch : Channels, version : Nat,
   user : Users, lastRead : Nat]
-----------------------------------------------------------------------------
(* Requests *)

SendPCs   == {"reply", "source", "lookup", "channel", "latest", "insert",
              "relookup", "summary", "undo", "event"}
RevisePCs == {"authorize", "cas", "bump", "event"}
ReadPCs   == {"update", "upsert", "fetch", "peek", "bump", "event"}
PCs       == {"idle", "done"} \cup SendPCs \cup RevisePCs \cup ReadPCs

Statuses ==
  {"pending",                                        \* no answer yet
   "created", "existing", "revised", "unchanged", "advanced",     \* 201, 200
   "invalid", "forbidden", "not_found", "conflict", "exhausted",  \* 4xx
   "error"}                            \* 500, or no answer at all: see Abort

Request ==
  [pc       : PCs,
   status   : Statuses,
   actor    : Users \cup {None},
   ch       : Channels \cup {None},
   key      : Keys \cup {None},
   body     : Bodies \cup {None},
   reply    : MsgIds \cup {None},    \* reply_to_message_id
   msg      : MsgIds \cup {None},    \* the message addressed or answered
   doc      : Message,               \* that message, as last read or written
   seq      : Nat,                   \* sequence to insert; last_read_seq
   first    : Nat,                   \* auxiliary: first sequence tried
   attempt  : Nat,                   \* failed inserts so far
   version  : Nat,                   \* last_event_version just assigned
   read     : Nat]                   \* last_read_seq read back

Idle ==
  [pc |-> "idle", status |-> "pending", actor |-> None, ch |-> None,
   key |-> None, body |-> None, reply |-> None, msg |-> None, doc |-> NoDoc,
   seq |-> 0, first |-> 0, attempt |-> 0, version |-> 0, read |-> 0]

At(r, p)     == req[r].pc = p
Goto(r, p)   == req' = [req EXCEPT ![r].pc = p]
Answer(r, s) == req' = [req EXCEPT ![r].pc = "done", ![r].status = s]

\* A request arrives with the inputs in and is either turned away with a
\* verdict or goes on to the call next.
Arrive(r, in, verdict, next) ==
  req' = [req EXCEPT ![r] =
            [in EXCEPT !.pc = IF verdict = "pending" THEN next ELSE "done",
                       !.status = verdict]]

\* The version of the channel is advanced and remembered by the request.
TakeVersion(r, ch) ==
  /\ channels' = [channels EXCEPT ![req[r].ch] = ch]
  /\ req' = [req EXCEPT ![r].version = ch.version, ![r].pc = "event"]

\* messageEventPayload in its envelope.
MessagePayload(r, type, m) ==
  [id |-> r, type |-> type, ch |-> req[r].ch, version |-> req[r].version,
   msg |-> m, seq |-> req[r].doc.seq, rev |-> req[r].doc.rev,
   recalled |-> req[r].doc.recalled, content |-> req[r].doc.content]
=============================================================================

---------------------------- MODULE ChatHistory -----------------------------
(***************************************************************************)
(* What the message repository promises: each channel is a history of      *)
(* messages numbered without gaps, one for each idempotency key; a message *)
(* may be revised until it is recalled, and once announced it stays; the   *)
(* marks of the readers only move forward and only over what has been      *)
(* announced.  Each action is one atomic step, with no request, retry,     *)
(* summary or collision in sight.                                          *)
(***************************************************************************)
EXTENDS Naturals

CONSTANTS Users, Channels, Ids, Keys, Contents, Blank, None

VARIABLES
  open,       \* [Channels -> BOOLEAN]
  post,       \* [Ids -> Post]: seq = 0 where nothing is posted
  text,       \* [Ids -> Text]: what the message says now
  announced,  \* the messages the channel has been told of
  mark        \* [Channels -> [Users -> Nat]]: how far the user has read

hvars == <<open, post, text, announced, mark>>

Unposted == [ch |-> None, sender |-> None, key |-> None, seq |-> 0]
Unsaid   == [rev |-> 0, recalled |-> FALSE, content |-> Blank]

Posts(c)   == {i \in Ids : post[i].seq > 0 /\ post[i].ch = c}
SeqsOf(c)  == {post[i].seq : i \in Posts(c)}

HInit ==
  /\ open = [c \in Channels |-> TRUE]
  /\ post = [i \in Ids |-> Unposted]
  /\ text = [i \in Ids |-> Unsaid]
  /\ announced = {}
  /\ mark = [c \in Channels |-> [u \in Users |-> 0]]

\* A message joins the end of the history, under a key of its own.  In a
\* channel that has been closed it may take any free number s.
PostMessage(i) ==
  /\ post[i] = Unposted
  /\ \E c \in Channels, u \in Users, k \in Keys, b \in Contents :
       LET s == post'[i].seq IN
         /\ s \in Nat \ SeqsOf(c) /\ s > 0
         /\ open[c] => SeqsOf(c) = 1..(s - 1)
         /\ \A j \in Posts(c) : ~(post[j].sender = u /\ post[j].key = k)
         /\ post' = [post EXCEPT ![i] =
                       [ch |-> c, sender |-> u, key |-> k, seq |-> s]]
         /\ text' = [text EXCEPT ![i] =
                       [rev |-> 1, recalled |-> FALSE, content |-> b]]
  /\ UNCHANGED <<open, announced, mark>>

Announce(i) ==
  /\ post[i] # Unposted
  /\ open[post[i].ch]
  /\ i \notin announced
  /\ announced' = announced \cup {i}
  /\ UNCHANGED <<open, post, text, mark>>

\* Only from a closed channel, and only what nobody was told of.
Withdraw(i) ==
  /\ post[i] # Unposted
  /\ ~open[post[i].ch]
  /\ i \notin announced
  /\ post' = [post EXCEPT ![i] = Unposted]
  /\ text' = [text EXCEPT ![i] = Unsaid]
  /\ UNCHANGED <<open, announced, mark>>

ReviseText(i) ==
  /\ post[i] # Unposted
  /\ ~text[i].recalled
  /\ \E gone \in BOOLEAN : \E b \in IF gone THEN {Blank} ELSE Contents :
       text' = [text EXCEPT ![i] =
                  [rev |-> text[i].rev + 1, recalled |-> gone, content |-> b]]
  /\ UNCHANGED <<open, post, announced, mark>>

MarkRead(c, u) ==
  /\ \E i \in announced : \E s \in (mark[c][u] + 1)..post[i].seq :
       /\ post[i].ch = c
       /\ mark' = [mark EXCEPT ![c][u] = s]
  /\ UNCHANGED <<open, post, text, announced>>

Close(c) ==
  /\ open[c]
  /\ open' = [open EXCEPT ![c] = FALSE]
  /\ UNCHANGED <<post, text, announced, mark>>

HNext ==
  \/ \E i \in Ids : PostMessage(i) \/ Announce(i) \/ Withdraw(i) \/ ReviseText(i)
  \/ \E c \in Channels, u \in Users : MarkRead(c, u)
  \/ \E c \in Channels : Close(c)

HSpec == HInit /\ [][HNext]_hvars
=============================================================================

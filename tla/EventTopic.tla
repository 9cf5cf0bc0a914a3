----------------------------- MODULE EventTopic -----------------------------
(***************************************************************************)
(* What the outbox, the relays and Kafka promise together to those who     *)
(* follow the topic: an event first arrives once it is in the outbox and   *)
(* the older events of its channel that were there before it are published *)
(* or parked; it is published only if it has arrived; and it is either     *)
(* published or parked, once and for all.  It may also never arrive, or    *)
(* arrive after it was parked, and again.  Leases, batches, retries and    *)
(* writers under way do not show.                                          *)
(***************************************************************************)
EXTENDS Naturals, Sequences

CONSTANTS Events, ChannelOf, Version

VARIABLES
  fate,     \* [Events -> {"absent", "pending", "published", "failed"}]
  arrived,  \* the topic: events in the order they first got there
  ahead     \* [Events -> SUBSET Events]: what an event found in the outbox

tvars == <<fate, arrived, ahead>>

Arrived == {arrived[i] : i \in 1..Len(arrived)}

TInit ==
  /\ fate = [e \in Events |-> "absent"]
  /\ arrived = <<>>
  /\ ahead = [e \in Events |-> {}]

Put(e) ==
  /\ fate[e] = "absent"
  /\ fate' = [fate EXCEPT ![e] = "pending"]
  /\ ahead' = [ahead EXCEPT ![e] =
       {f \in Events : /\ ChannelOf[f] = ChannelOf[e] /\ Version[f] < Version[e]
                       /\ fate[f] # "absent"}]
  /\ UNCHANGED arrived

Deliver(e) ==
  /\ fate[e] # "absent" /\ e \notin Arrived
  /\ \A f \in ahead[e] : fate[f] \in {"published", "failed"}
  /\ arrived' = Append(arrived, e)
  /\ UNCHANGED <<fate, ahead>>

Publish(e) ==
  /\ fate[e] = "pending" /\ e \in Arrived
  /\ fate' = [fate EXCEPT ![e] = "published"]
  /\ UNCHANGED <<arrived, ahead>>

Park(e) ==
  /\ fate[e] = "pending"
  /\ fate' = [fate EXCEPT ![e] = "failed"]
  /\ UNCHANGED <<arrived, ahead>>

TNext == \E e \in Events : Put(e) \/ Deliver(e) \/ Publish(e) \/ Park(e)

TSpec == TInit /\ [][TNext]_tvars
=============================================================================

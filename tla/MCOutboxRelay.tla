--------------------------- MODULE MCOutboxRelay ---------------------------
(***************************************************************************)
(* Values of the constants of OutboxRelay for TLC.                         *)
(***************************************************************************)
EXTENDS OutboxRelay, TLC

CONSTANTS e1, e2, e3, c1, c2

\* e1 and e2 follow one another in c1; e3 is in c2.
MCChannelOf == (e1 :> c1) @@ (e2 :> c1) @@ (e3 :> c2)
MCVersion   == (e1 :> 1) @@ (e2 :> 2) @@ (e3 :> 1)
MCCreatedAt == (e1 :> 1) @@ (e2 :> 2) @@ (e3 :> 3)

\* Both events in one channel.
PairChannelOf == (e1 :> c1) @@ (e2 :> c1)
PairVersion   == (e1 :> 1) @@ (e2 :> 2)
PairCreatedAt == (e1 :> 1) @@ (e2 :> 2)

\* A single event.
OneChannelOf == e1 :> c1
OneVersion   == e1 :> 1
OneCreatedAt == e1 :> 1

RelaySymmetry == Permutations(Relays)
=============================================================================

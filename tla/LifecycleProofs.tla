-------------------------- MODULE LifecycleProofs ---------------------------
(***************************************************************************)
(* Proofs about Lifecycle.  The invariant says what is open at each place  *)
(* of Run, which is what the order of its defers amounts to.               *)
(***************************************************************************)
EXTENDS Lifecycle, TLAPS

\* Nothing of the relay and the server is there yet.
Bare == relay = "off" /\ writer = "none" /\ server = "off"

\* A relay only starts with a configuration OutboxRelay takes for granted.
Sound == cfg.lease > cfg.publish /\ cfg.publish > 0

\* What is open at each place of Run.
Built ==
  /\ main = "config" => mongo = "none" /\ Bare
  /\ main \in {"connect", "ping", "indexes", "publisher"} => Bare /\ Sound
  /\ main = "connect" => mongo = "none"
  /\ main \in {"ping", "indexes", "publisher", "disconnect"} => mongo = "open"
  /\ main = "indexes" => built < 3
  /\ main \in {"config", "connect", "ping"} => built = 0
  /\ main = "publisher" => built = 3
  /\ main \in {"serve", "drain", "stopRelay", "waitRelay", "closeWriter"} =>
       /\ mongo = "open" /\ writer = "open" /\ relay # "off" /\ built = 3 /\ Sound
  /\ main = "closeWriter" => relay = "done"
  /\ main \in {"disconnect", "exit"} =>
       \/ Bare /\ code = 1
       \/ relay = "done" /\ writer = "closed" /\ built = 3
  /\ main = "exit" => mongo = "closed" \/ (mongo = "none" /\ Bare /\ code = 1)

\* How the server and its connections stand at each place of Run.
Served ==
  /\ server \in {"off", "starting", "refused"} => Open = {}
  /\ main = "serve" => server \in {"starting", "listening", "refused", "broken"}
  /\ main = "drain" <=> server = "closing"
  /\ main \in {"stopRelay", "waitRelay", "closeWriter", "disconnect", "exit"} =>
       server \in {"off", "refused", "broken", "closed"}
  /\ server = "closed" =>
       \A c \in Conns : /\ conn[c] # "accepted"
                        /\ ~late => conn[c] # "running"
  /\ main \in {"stopRelay", "waitRelay", "closeWriter", "disconnect", "exit"} /\ code = 0 =>
       ctx /\ server = "closed" /\ ~late
  /\ main = "drain" => ctx
  /\ late => server = "closed"

Inv == TypeOK /\ Built /\ Served
-----------------------------------------------------------------------------
LEMMA InitInv == Init => Inv
<1> SUFFICES ASSUME Init PROVE Inv
  OBVIOUS
<1> USE DEF Init
<1>1. built \in 0..3 /\ code \in {0, 1}
  BY DEF TypeOK
<1>0. TypeOK
  BY <1>1, Zenon DEF TypeOK
<1>2. Built
  BY DEF Built, Bare
<1>3. Open = {}
  BY DEF Open
<1>4. Served
  BY <1>3 DEF Served
<1> QED
  BY <1>0, <1>2, <1>4 DEF Inv

\* One step per action.
LEMMA NextInv == Inv /\ [Next]_vars => Inv'
<1> SUFFICES ASSUME Inv, [Next]_vars PROVE Inv'
  OBVIOUS
<1> USE DEF Inv, TypeOK, Built, Served, Bare, Sound, Goto, Fail, others, serving
<1>1. CASE Signal
  BY <1>1 DEF Signal, Open
<1>2. CASE LoadRuntimeConfig
  BY <1>2 DEF LoadRuntimeConfig, Accepted, Open
<1>3. CASE ConnectMongo
  BY <1>3 DEF ConnectMongo, Open
<1>4. CASE PingMongo
  BY <1>4 DEF PingMongo, Open
<1>5. CASE EnsureIndexes
  BY <1>5 DEF EnsureIndexes, Open
<1>6. CASE StartOutboxRelay
  BY <1>6 DEF StartOutboxRelay, Open
<1>7. CASE Select
  BY <1>7 DEF Select, Open
<1>8. CASE Drain
  <2>1. CASE Open = {} /\ Goto("stopRelay") /\ UNCHANGED <<conn, late>>
    <3>1. \A c \in Conns : conn[c] # "accepted" /\ conn[c] # "running"
      BY <2>1 DEF Open
    <3>2. TypeOK'
      BY <1>8, <2>1 DEF Drain
    <3>3. Built'
      BY <1>8, <2>1 DEF Drain
    <3>4. Served'
      BY <1>8, <2>1, <3>1 DEF Drain
    <3> QED
      BY <3>2, <3>3, <3>4
  <2>2. CASE /\ late' = TRUE
             /\ conn' = [c \in Conns |-> IF conn[c] = "accepted" THEN "done" ELSE conn[c]]
             /\ Fail("stopRelay")
    <3>1. \A c \in Conns : conn'[c] # "accepted"
      BY <1>8, <2>2 DEF Drain
    <3>2. conn' \in [Conns -> {"none", "accepted", "running", "done"}]
      BY <1>8, <2>2 DEF Drain
    <3>3. TypeOK'
      BY <1>8, <2>2, <3>2 DEF Drain
    <3>4. Built'
      BY <1>8, <2>2 DEF Drain
    <3>5. Served'
      BY <1>8, <2>2, <3>1 DEF Drain
    <3> QED
      BY <3>3, <3>4, <3>5
  <2> QED
    BY <1>8, <2>1, <2>2 DEF Drain
<1>9. CASE StopRelay
  BY <1>9 DEF StopRelay, Open
<1>10. CASE WaitRelay
  BY <1>10 DEF WaitRelay, Open
<1>11. CASE CloseWriter
  BY <1>11 DEF CloseWriter, Open
<1>12. CASE Disconnect
  BY <1>12 DEF Disconnect, Open
<1>13. CASE main # "exit" /\ RelayEnds
  BY <1>13 DEF RelayEnds, Open
<1>14. CASE main # "exit" /\ Listen
  BY <1>14 DEF Listen, Open
<1>15. ASSUME NEW c \in Conns, Accept(c) \/ Begin(c) \/ End(c) PROVE Inv'
  BY <1>15 DEF Accept, Begin, End, Open
<1>16. CASE UNCHANGED vars
  BY <1>16 DEF vars, Open
<1> QED
  BY <1>1, <1>2, <1>3, <1>4, <1>5, <1>6, <1>7, <1>8, <1>9, <1>10, <1>11,
     <1>12, <1>13, <1>14, <1>15, <1>16 DEF Next, Run

LEMMA Invariant == Spec => []Inv
<1>1. Inv /\ [Next]_vars => Inv'
  BY NextInv
<1> QED
  BY InitInv, <1>1, PTL DEF Spec
-----------------------------------------------------------------------------
\* The relay never works without MongoDB, its writer or a sound configuration:
\* Run waits for it before it closes them.
THEOREM RelayHasItsMeans == Spec => []RelayWithinItsMeans
<1>1. Inv => RelayWithinItsMeans
  BY DEF Inv, TypeOK, Built, Bare, Sound, RelayWithinItsMeans
<1> QED
  BY Invariant, <1>1, PTL

\* A handler that loses MongoDB outlasted the shutdown timeout, or the server
\* had failed.
THEOREM HandlersKeepMongo == Spec => []CutOffOnlyWhenLate
<1>1. Inv => CutOffOnlyWhenLate
  BY DEF Inv, TypeOK, Built, Served, Bare, Running, Open, CutOffOnlyWhenLate
<1> QED
  BY Invariant, <1>1, PTL

\* Exit code 0 means that a signal came and that no request was cut off.
THEOREM ExitIsClean == Spec => []CleanExit
<1>1. Inv => CleanExit
  BY DEF Inv, TypeOK, Built, Served, Bare, Open, CleanExit
<1> QED
  BY Invariant, <1>1, PTL

\* Every way out of Run, failures of the startup included, closes what is open.
THEOREM AllIsClosed == Spec => []NothingLeftOpen
<1>1. Inv => NothingLeftOpen
  BY DEF Inv, TypeOK, Built, Bare, NothingLeftOpen
<1> QED
  BY Invariant, <1>1, PTL

\* No handler begins before the indexes are built, nor after the end of MongoDB.
THEOREM HandlersWait == Spec => ServedOnlyWhenReady
<1> DEFINE Ready == \A c \in Conns : conn[c] # "running" /\ conn'[c] = "running" =>
                      built = 3 /\ (mongo = "open" \/ server = "broken")
<1>1. Inv /\ [Next]_vars => [Ready]_vars
  <2> SUFFICES ASSUME Inv, Next, NEW c \in Conns,
                      conn[c] # "running", conn'[c] = "running"
               PROVE  built = 3 /\ (mongo = "open" \/ server = "broken")
    OBVIOUS
  <2>1. conn[c] = "accepted"
    BY DEF Next, Signal, Run, RelayEnds, Listen, Accept, Begin, End, Inv, TypeOK,
           LoadRuntimeConfig, ConnectMongo, PingMongo, EnsureIndexes, Open,
           StartOutboxRelay, Select, Drain, StopRelay, WaitRelay, CloseWriter,
           Disconnect, others, serving
  <2>2. main \notin {"disconnect", "exit"} \/ server \in {"broken", "closed"}
    BY <2>1 DEF Inv, Built, Served, Open, Bare, TypeOK
  <2> QED
    BY <2>1, <2>2 DEF Inv, TypeOK, Built, Served, Bare, Open, Next
<1> QED
  BY Invariant, <1>1, PTL DEF ServedOnlyWhenReady, Spec

\* Close waits for a relay that is there and whose context is cancelled.
RelayTold == main = "waitRelay" => stop /\ relay # "off"

\* Close, which waits for the relay without a timeout, never waits for one that
\* has not been told to end: also where Run ends with no signal, because the
\* server failed (internal/initialize/run.go:201-207).
THEOREM RelayIsTold == Spec => []RelayTold
<1>1. Init => RelayTold
  BY DEF Init, RelayTold
<1>2. Inv /\ RelayTold /\ [Next]_vars => RelayTold'
  <2> SUFFICES ASSUME Inv, RelayTold, [Next]_vars, main' = "waitRelay"
               PROVE  stop' /\ relay' # "off"
    BY DEF RelayTold
  <2>1. CASE StopRelay
    BY <2>1 DEF StopRelay, Inv, Built
  <2>2. CASE main = "waitRelay"
    BY <2>2
    DEF RelayTold, vars, Next, Signal, Run, RelayEnds, Listen, Accept, Begin, End,
        LoadRuntimeConfig, ConnectMongo, PingMongo, EnsureIndexes, StartOutboxRelay,
        Select, Drain, StopRelay, WaitRelay, CloseWriter, Disconnect, others, serving
  <2> QED
    BY <2>1, <2>2
    DEF vars, Next, Signal, Run, RelayEnds, Listen, Accept, Begin, End, Goto, Fail,
        LoadRuntimeConfig, ConnectMongo, PingMongo, EnsureIndexes, StartOutboxRelay,
        Select, Drain, WaitRelay, CloseWriter, Disconnect, others, serving
<1> QED BY <1>1, <1>2, Invariant, PTL DEF Spec
=============================================================================

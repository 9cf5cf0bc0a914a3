----------------------------- MODULE Lifecycle ------------------------------
(***************************************************************************)
(* A process of the service from main to its exit: Run builds one part on  *)
(* the other, serves, and takes them down in the opposite order, by defers *)
(* that every failure runs through as well.  Meanwhile a signal may come,  *)
(* connections are served and the relay works on its own.                  *)
(***************************************************************************)
EXTENDS Naturals

CONSTANTS
  Conns,    \* HTTP connections, each with one request
  Configs   \* the configurations a process may be started with

\* What the checks of the configuration tell apart.
Config ==
  [complete  : BOOLEAN,                        \* every required setting is there
   key       : {"missing", "garbled", "good"}, \* Keycloak's public key
   mode      : {"known", "unknown"},           \* server.mode
   brokers   : {"blank", "commas", "named"},   \* kafka.brokers
   lease     : Nat,                            \* kafka.outbox-lease-duration
   publish   : Nat]                            \* kafka.publish-timeout

ASSUME ConfigsAssumption == Configs \subseteq Config

VARIABLES
  cfg,      \* the configuration
  main,     \* where Run is
  ctx,      \* whether the signal has come
  mongo,    \* the MongoDB client
  built,    \* collections that have their indexes
  server,   \* the HTTP server
  conn,     \* [Conns -> ...]: its connections
  relay,    \* the goroutine of the relay
  stop,     \* whether its context was cancelled by Close
  writer,   \* the Kafka writer
  late,     \* auxiliary: Shutdown ran out of time
  code      \* exit code

vars == <<cfg, main, ctx, mongo, built, server, conn, relay, stop, writer, late, code>>

\* The variables the parts of Run leave alone.
others == <<cfg, ctx, conn>>

Init ==
  /\ cfg \in Configs
  /\ main = "config" /\ ctx = FALSE /\ code = 0
  /\ mongo = "none" /\ built = 0
  /\ server = "off" /\ conn = [c \in Conns |-> "none"] /\ late = FALSE
  /\ relay = "off" /\ stop = FALSE /\ writer = "none"

Open    == {c \in Conns : conn[c] \in {"accepted", "running"}}
Running == {c \in Conns : conn[c] = "running"}

\* Run goes on at p, or fails and goes on there with the defers so far.
Goto(p) == main' = p /\ UNCHANGED code
Fail(p) == main' = p /\ code' = 1

\* SIGINT or SIGTERM; further ones change nothing.
Signal ==
  /\ ~ctx /\ main # "exit"
  /\ ctx' = TRUE
  /\ UNCHANGED <<cfg, main, mongo, built, server, conn, relay, stop, writer, late, code>>
-----------------------------------------------------------------------------
(* Starting *)

\* LoadConfig.  A list of brokers that holds nothing but commas gets through.
Accepted ==
  /\ cfg.complete /\ cfg.key # "missing" /\ cfg.brokers # "blank"
  /\ cfg.publish > 0 /\ cfg.lease > cfg.publish

\* loadRuntimeConfig: LoadConfig, NewKeycloakVerifier and setGinMode.
LoadRuntimeConfig ==
  /\ main = "config"
  /\ IF Accepted /\ cfg.key = "good" /\ cfg.mode = "known"
     THEN Goto("connect") ELSE Fail("exit")
  /\ UNCHANGED <<mongo, built, server, relay, stop, writer, late>>
  /\ UNCHANGED others

ConnectMongo ==
  /\ main = "connect"
  /\ \/ mongo' = "open" /\ Goto("ping")
     \/ Fail("exit") /\ UNCHANGED mongo
  /\ UNCHANGED <<built, server, relay, stop, writer, late>>
  /\ UNCHANGED others

\* The startup context ends with the signal and after 20 seconds.
PingMongo ==
  /\ main = "ping"
  /\ \/ ~ctx /\ Goto("indexes")
     \/ Fail("disconnect")
  /\ UNCHANGED <<mongo, built, server, relay, stop, writer, late>>
  /\ UNCHANGED others

EnsureIndexesLater ==                              \* mutant of EnsureIndexes
  /\ main = "indexes"
  /\ built' = built + 1 /\ Goto("publisher")
  /\ UNCHANGED <<mongo, server, relay, stop, writer, late>>
  /\ UNCHANGED others

\* Channels, messages and outbox, one after the other.
EnsureIndexes ==
  /\ main = "indexes"
  /\ \/ /\ ~ctx
        /\ built' = built + 1
        /\ Goto(IF built + 1 = 3 THEN "publisher" ELSE "indexes")
     \/ Fail("disconnect") /\ UNCHANGED built
  /\ UNCHANGED <<mongo, server, relay, stop, writer, late>>
  /\ UNCHANGED others

StartOutboxRelayExits ==                           \* mutant of StartOutboxRelay
  /\ main = "publisher"
  /\ cfg.brokers # "named"
  /\ Fail("exit")
  /\ UNCHANGED <<mongo, built, server, relay, stop, writer, late>>
  /\ UNCHANGED others

\* NewKafkaPublisher, and the relay, whose context is the signal's.
StartOutboxRelay ==
  /\ main = "publisher"
  /\ \/ /\ cfg.brokers = "named"
        /\ writer' = "open" /\ relay' = "running" /\ server' = "starting"
        /\ Goto("serve")
     \/ /\ cfg.brokers # "named"
        /\ Fail("disconnect")
        /\ UNCHANGED <<writer, relay, server>>
  /\ UNCHANGED <<mongo, built, stop, late>>
  /\ UNCHANGED others
-----------------------------------------------------------------------------
(* Serving *)

serving == <<cfg, main, ctx, mongo, built, relay, stop, writer, late, code>>

\* ListenAndServe, in a goroutine of its own: it listens or cannot, and may end
\* with an error later on, with its connections still open.
Listen ==
  /\ \/ server = "starting" /\ server' \in {"listening", "refused"}
     \/ server = "listening" /\ server' = "broken"
  /\ UNCHANGED conn
  /\ UNCHANGED serving

Accept(c) ==
  /\ conn[c] = "none" /\ server = "listening"
  /\ conn' = [conn EXCEPT ![c] = "accepted"]
  /\ UNCHANGED server
  /\ UNCHANGED serving

\* The handler runs; on a connection accepted before, also while the server
\* is shut down.
Begin(c) ==
  /\ conn[c] = "accepted"
  /\ conn' = [conn EXCEPT ![c] = "running"]
  /\ UNCHANGED server
  /\ UNCHANGED serving

\* The handler returns, or the connection goes without a request.
End(c) ==
  /\ c \in Open
  /\ conn' = [conn EXCEPT ![c] = "done"]
  /\ UNCHANGED server
  /\ UNCHANGED serving
-----------------------------------------------------------------------------
(* Stopping *)

SelectNoError ==                                   \* mutant of Select
  /\ main = "serve"
  /\ \/ server \in {"refused", "broken"} /\ Goto("stopRelay") /\ UNCHANGED server
     \/ ctx /\ server' = "closing" /\ Goto("drain")
  /\ UNCHANGED <<mongo, built, relay, stop, writer, late>>
  /\ UNCHANGED others

\* The select of serveHTTP.
Select ==
  /\ main = "serve"
  /\ \/ server \in {"refused", "broken"} /\ Fail("stopRelay") /\ UNCHANGED server
     \/ ctx /\ server' = "closing" /\ Goto("drain")
  /\ UNCHANGED <<mongo, built, relay, stop, writer, late>>
  /\ UNCHANGED others

DrainAtOnce ==                                     \* mutant of Drain
  /\ main = "drain"
  /\ server' = "closed"
  /\ Goto("stopRelay")
  /\ UNCHANGED <<cfg, ctx, conn, mongo, built, relay, stop, writer, late>>

\* Shutdown waits for the connections, for as long as its timeout; Close then
\* cuts them off, and a handler under way goes on.
Drain ==
  /\ main = "drain"
  /\ server' = "closed"
  /\ \/ Open = {} /\ Goto("stopRelay") /\ UNCHANGED <<conn, late>>
     \/ /\ late' = TRUE
        /\ conn' = [c \in Conns |-> IF conn[c] = "accepted" THEN "done" ELSE conn[c]]
        /\ Fail("stopRelay")
  /\ UNCHANGED <<cfg, ctx, mongo, built, relay, stop, writer>>

StopRelayBySignal ==                               \* mutant of StopRelay
  /\ main = "stopRelay"
  /\ Goto("waitRelay")
  /\ UNCHANGED <<mongo, built, server, relay, stop, writer, late>>
  /\ UNCHANGED others

StopRelay ==
  /\ main = "stopRelay"
  /\ stop' = TRUE
  /\ Goto("waitRelay")
  /\ UNCHANGED <<mongo, built, server, relay, writer, late>>
  /\ UNCHANGED others

\* The loop of the relay sees its context cancelled, by Close or by the signal,
\* and releases the lease with a context of its own.
RelayEnds ==
  /\ \/ relay = "running" /\ (ctx \/ stop) /\ relay' = "releasing"
     \/ relay = "releasing" /\ relay' = "done"
  /\ UNCHANGED <<main, mongo, built, server, stop, writer, late, code>>
  /\ UNCHANGED others

WaitRelayNot ==                                    \* mutant of WaitRelay
  /\ main = "waitRelay"
  /\ Goto("closeWriter")
  /\ UNCHANGED <<mongo, built, server, relay, stop, writer, late>>
  /\ UNCHANGED others

WaitRelay ==
  /\ main = "waitRelay"
  /\ relay = "done"
  /\ Goto("closeWriter")
  /\ UNCHANGED <<mongo, built, server, relay, stop, writer, late>>
  /\ UNCHANGED others

CloseWriter ==
  /\ main = "closeWriter"
  /\ writer' = "closed"
  /\ Goto("disconnect")
  /\ UNCHANGED <<mongo, built, server, relay, stop, late>>
  /\ UNCHANGED others

Disconnect ==
  /\ main = "disconnect"
  /\ mongo' = "closed"
  /\ Goto("exit")
  /\ UNCHANGED <<built, server, relay, stop, writer, late>>
  /\ UNCHANGED others
-----------------------------------------------------------------------------
Run ==
  \/ LoadRuntimeConfig \/ ConnectMongo \/ PingMongo \/ EnsureIndexes
  \/ StartOutboxRelay \/ Select \/ Drain \/ StopRelay \/ WaitRelay
  \/ CloseWriter \/ Disconnect

\* Nothing moves any more once main has returned.
Next ==
  /\ main # "exit"
  /\ \/ Signal \/ Run \/ RelayEnds \/ Listen
     \/ \E c \in Conns : Accept(c) \/ Begin(c) \/ End(c)

Spec == Init /\ [][Next]_vars

\* Run and the relay go on: each of their calls has a timeout.  Handlers need
\* not end, nor the signal come.
LiveSpec == Spec /\ WF_vars(Run) /\ WF_vars(main # "exit" /\ RelayEnds)

\* Types of a process.
TypeOK ==
  /\ cfg \in Configs
  /\ main \in {"config", "connect", "ping", "indexes", "publisher", "serve",
               "drain", "stopRelay", "waitRelay", "closeWriter", "disconnect", "exit"}
  /\ ctx \in BOOLEAN /\ stop \in BOOLEAN /\ late \in BOOLEAN
  /\ mongo \in {"none", "open", "closed"}
  /\ built \in 0..3
  /\ server \in {"off", "starting", "listening", "refused", "broken", "closing", "closed"}
  /\ conn \in [Conns -> {"none", "accepted", "running", "done"}]
  /\ relay \in {"off", "running", "releasing", "done"}
  /\ writer \in {"none", "open", "closed"}
  /\ code \in {0, 1}
-----------------------------------------------------------------------------
(* Properties *)

\* No handler begins before all the unique indexes are there, on which the
\* numbering of messages rests, nor after MongoDB is disconnected, except where
\* the server has failed with its connections open.
ServedOnlyWhenReady ==
  [][\A c \in Conns : conn[c] # "running" /\ conn'[c] = "running" =>
       built = 3 /\ (mongo = "open" \/ server = "broken")]_vars

\* The relay works only while its MongoDB client and its writer are open, down
\* to the release of its lease, and with a lease that exceeds the publish
\* timeout (TimesAssumption of OutboxRelay).
RelayWithinItsMeans ==
  relay \in {"running", "releasing"} =>
    /\ mongo = "open" /\ writer = "open"
    /\ cfg.lease > cfg.publish /\ cfg.publish > 0

\* A handler loses MongoDB under way only if it outlasts the shutdown timeout or
\* the server has failed.
CutOffOnlyWhenLate ==
  mongo = "closed" /\ Running # {} => late \/ server = "broken"

\* An exit with code 0 is one that was asked for and left no request behind.
CleanExit ==
  main = "exit" /\ code = 0 =>
    ctx /\ Open = {} /\ relay = "done" /\ writer = "closed" /\ mongo = "closed"

\* Whatever part of Run fails, all that was opened before is closed.
NothingLeftOpen ==
  main = "exit" => mongo # "open" /\ writer # "open" /\ relay \in {"off", "done"}

\* The process ends after a signal, at whatever point of Run it comes and
\* though handlers hang, and after a failure of the server.
Ends == ctx \/ server \in {"refused", "broken"} ~> main = "exit"
=============================================================================

-------------------------- MODULE NamespaceResolvers --------------------------
(***************************************************************************)
(* The DNS forwarder of one run: listeners in the network namespaces of    *)
(* the transfers, a goroutine per listener and per query, and a shutdown   *)
(* that must reach every one of them (internal/namespaceresolvers).        *)
(* A query is a number; what it asks and which host resolver answers are   *)
(* not modelled here.                                                      *)
(***************************************************************************)
EXTENDS Naturals, FiniteSets

CONSTANTS
  Servers,      \* the listeners
  Streams,      \* those of them that accept TCP connections
  MaxQueries,   \* bound: queries and connections the listeners receive
  MaxTries      \* bound: exchanges for one query (attempts times servers)

ASSUME ResolverAssumption ==
  Streams \subseteq Servers /\ MaxQueries \in Nat /\ MaxTries \in Nat \ {0}

Queries == 1..MaxQueries

VARIABLES
  rpc,          \* "idle", "opening", "open", "closing", "closed", "refused"
  forwards,     \* the set has a forwarder: no resolver was named explicitly
  server,       \* "off", "bound", "listen", "got" (a query is read), "done"
  handler,      \* stage of the goroutine of a query
  source,       \* the server that received the query
  tries,        \* exchanges of the query so far
  activeTCP,    \* client connections of the handlers
  upstream,     \* queries with a tracked connection to a host resolver
  contextDone,  \* the context of the dials is done: the run's, or the forwarder's own
  shutdown,     \* where beginShutdown and confirmWorkersStopped stand
  closing,      \* no further handler is accepted
  upstreamClosed,  \* upstreamConnections.closed
  doomed,       \* the client connections stopAcceptingHandlers saw
  closedConn    \* connections that shutdown has closed: client and upstream

workerVars == <<server, handler, source, tries, activeTCP, upstream>>
shutdownVars == <<contextDone, shutdown, closing, upstreamClosed, doomed, closedConn>>
resolverVars == <<rpc, forwards, workerVars, shutdownVars>>

ResolversInit ==
  /\ rpc = "idle" /\ forwards = FALSE
  /\ server = [s \in Servers |-> "off"]
  /\ handler = [q \in Queries |-> "none"]
  /\ source = [q \in Queries |-> CHOOSE s \in Servers : TRUE]
  /\ tries = [q \in Queries |-> 0]
  /\ activeTCP = {} /\ upstream = {}
  /\ contextDone = FALSE
  /\ shutdown = "no" /\ closing = FALSE /\ upstreamClosed = FALSE
  /\ doomed = {}
  /\ closedConn = [client |-> {}, upstream |-> {}]

\* The process ends and takes its sockets and goroutines with it.
ResolversDie ==
  /\ rpc' = "idle" /\ forwards' = FALSE
  /\ server' = [s \in Servers |-> "off"]
  /\ handler' = [q \in Queries |-> "none"]
  /\ source' = [q \in Queries |-> CHOOSE s \in Servers : TRUE]
  /\ tries' = [q \in Queries |-> 0]
  /\ activeTCP' = {} /\ upstream' = {}
  /\ contextDone' = FALSE
  /\ shutdown' = "no" /\ closing' = FALSE /\ upstreamClosed' = FALSE
  /\ doomed' = {}
  /\ closedConn' = [client |-> {}, upstream |-> {}]

WorkersLeft ==
  \/ \E s \in Servers : server[s] \in {"listen", "got"}
  \/ \E q \in Queries : handler[q] \notin {"none", "over"}

WorkersDone == shutdown = "done"

\* The run is cancelled, and with it the child of its context that newDNSForwarder
\* makes; the listeners and the connections stay open.
CancelContext ==
  /\ ~contextDone
  /\ contextDone' = TRUE
  /\ UNCHANGED <<rpc, forwards, workerVars, shutdown, closing, upstreamClosed, doomed, closedConn>>

-----------------------------------------------------------------------------
(* Open                                                                    *)

\* Open with explicit resolvers: a sealed file and no forwarder.
OpenExplicit ==
  /\ rpc = "opening"
  /\ rpc' = "open" /\ forwards' = FALSE
  /\ UNCHANGED <<workerVars, shutdownVars>>

\* openForwarder, one namespace after the other
Listen(s) ==
  /\ rpc = "opening" /\ server[s] = "off"
  /\ server' = [server EXCEPT ![s] = "bound"]
  /\ UNCHANGED <<rpc, forwards, handler, source, tries, activeTCP, upstream, shutdownVars>>

\* startServers
StartServers ==
  /\ rpc = "opening" /\ \A s \in Servers : server[s] = "bound"
  /\ server' = [s \in Servers |-> "listen"]
  /\ rpc' = "open" /\ forwards' = TRUE
  /\ UNCHANGED <<handler, source, tries, activeTCP, upstream, shutdownVars>>

\* The file or a listener cannot be opened: forwarder.close before any server runs.
OpenFails ==
  /\ rpc = "opening"
  /\ rpc' = "refused"
  /\ server' = [s \in Servers |-> "off"]
  /\ UNCHANGED <<forwards, handler, source, tries, activeTCP, upstream, shutdownVars>>

-----------------------------------------------------------------------------
(* serveUDP and serveTCP                                                   *)

\* ReadFrom or Accept returns a query or a connection.
Receive(s) ==
  /\ server[s] = "listen" /\ shutdown \in {"no", "cancel", "accept", "upstream"}
  /\ \E q \in Queries : handler[q] = "none"
  /\ server' = [server EXCEPT ![s] = "got"]
  /\ UNCHANGED <<rpc, forwards, handler, source, tries, activeTCP, upstream, shutdownVars>>

\* Mutant: startHandler does not look at closing.
StartHandlerAlways(s) ==
  /\ server[s] = "got"
  /\ \E q \in Queries :
        /\ handler[q] = "none" /\ \A p \in 1..(q - 1) : handler[p] # "none"
        /\ handler' = [handler EXCEPT ![q] = IF s \in Streams THEN "client" ELSE "dial"]
        /\ source' = [source EXCEPT ![q] = s]
        /\ activeTCP' = IF s \in Streams THEN activeTCP \cup {q} ELSE activeTCP
        /\ server' = [server EXCEPT ![s] = "listen"]
  /\ UNCHANGED <<rpc, forwards, tries, upstream, shutdownVars>>

\* startHandler: under handlerMu, refused once closing is set.
StartHandler(s) ==
  /\ server[s] = "got"
  /\ IF closing
     THEN server' = [server EXCEPT ![s] = "done"] /\ UNCHANGED <<handler, source, activeTCP>>
     ELSE \E q \in Queries :
            /\ handler[q] = "none" /\ \A p \in 1..(q - 1) : handler[p] # "none"
            /\ handler' = [handler EXCEPT ![q] = IF s \in Streams THEN "client" ELSE "dial"]
            /\ source' = [source EXCEPT ![q] = s]
            /\ activeTCP' = IF s \in Streams THEN activeTCP \cup {q} ELSE activeTCP
            /\ server' = [server EXCEPT ![s] = "listen"]
  /\ UNCHANGED <<rpc, forwards, tries, upstream, shutdownVars>>

\* A listener reports an error: the server tries again unless the context is done.
ListenerFails(s) ==
  /\ server[s] = "listen" /\ contextDone
  /\ server' = [server EXCEPT ![s] = "done"]
  /\ UNCHANGED <<rpc, forwards, handler, source, tries, activeTCP, upstream, shutdownVars>>

\* A closed listener reports an error for certain.
ServerEnds(s) ==
  /\ shutdown \in {"connections", "servers", "handlers", "done"}
  /\ ListenerFails(s)

-----------------------------------------------------------------------------
(* The goroutine of a query                                                *)

Step(q, to) == handler' = [handler EXCEPT ![q] = to]
OfStream(q) == source[q] \in Streams

\* finishHandler: the goroutine ends.
FinishHandler(q) ==
  /\ Step(q, "over")
  /\ activeTCP' = activeTCP \ {q}
  /\ source' = [source EXCEPT ![q] = CHOOSE s \in Servers : TRUE]
  /\ tries' = [tries EXCEPT ![q] = 0]

\* serveTCPConnection reads a query; the client may keep silent for ever.
ReadQuery(q) ==
  /\ handler[q] = "client" /\ q \notin closedConn.client
  /\ Step(q, "dial")
  /\ tries' = [tries EXCEPT ![q] = 0]
  /\ UNCHANGED <<rpc, forwards, server, source, activeTCP, upstream, shutdownVars>>

\* The connection is closed, by the client or by shutdown, or the query is bad.
ClientGone(q) ==
  /\ handler[q] = "client"
  /\ FinishHandler(q)
  /\ UNCHANGED <<rpc, forwards, server, upstream, shutdownVars>>

\* The next server or attempt of exchange, or the failure answer.
AfterFailure(q) == IF tries[q] < MaxTries THEN "dial" ELSE "respond"

\* exchange: DialContext, refused when the context of the forwarder is done.
Dial(q) ==
  /\ handler[q] = "dial"
  /\ tries' = [tries EXCEPT ![q] = @ + 1]
  /\ Step(q, IF ~contextDone THEN "dialing"
             ELSE IF tries[q] + 1 < MaxTries THEN "dial" ELSE "respond")
  /\ UNCHANGED <<rpc, forwards, server, source, activeTCP, upstream, shutdownVars>>

\* A dial that has begun succeeds, fails, is cancelled or times out.
Dialed(q) ==
  /\ handler[q] = "dialing"
  /\ Step(q, "connected") \/ Step(q, AfterFailure(q))
  /\ UNCHANGED <<rpc, forwards, server, source, tries, activeTCP, upstream, shutdownVars>>

\* track: refused once the connections are closed.
Track(q) ==
  /\ handler[q] = "connected"
  /\ IF upstreamClosed
     THEN Step(q, AfterFailure(q)) /\ UNCHANGED upstream
     ELSE Step(q, "exchange") /\ upstream' = upstream \cup {q}
  /\ UNCHANGED <<rpc, forwards, server, source, tries, activeTCP, shutdownVars>>

\* exchangeUDP, exchangeTCP and release: an answer, an error or the deadline.  A
\* truncated or invalid answer, like an error, leads to another exchange.
Exchanged(q) ==
  /\ handler[q] = "exchange"
  /\ upstream' = upstream \ {q}
  /\ Step(q, "respond") \/ (tries[q] < MaxTries /\ Step(q, "dial"))
  /\ UNCHANGED <<rpc, forwards, server, source, tries, activeTCP, shutdownVars>>

\* The answer is written to a stream, which goes on.
Respond(q) ==
  /\ handler[q] = "respond" /\ OfStream(q) /\ q \notin closedConn.client
  /\ Step(q, "client")
  /\ UNCHANGED <<rpc, forwards, server, source, tries, activeTCP, upstream, shutdownVars>>

\* The answer is written to a datagram socket, or cannot be written or made.
RespondLast(q) ==
  /\ handler[q] = "respond"
  /\ FinishHandler(q)
  /\ UNCHANGED <<rpc, forwards, server, upstream, shutdownVars>>

-----------------------------------------------------------------------------
(* forwarder.close: beginShutdown runs once, whoever calls it.             *)

ShutdownTo(where) == shutdown' = where /\ UNCHANGED <<rpc, forwards, workerVars>>

\* forwarder.cancel: the context of every dial is done.
ShutdownCancel ==
  /\ rpc = "closing" /\ forwards /\ shutdown = "no"
  /\ contextDone' = TRUE
  /\ ShutdownTo("cancel")
  /\ UNCHANGED <<closing, upstreamClosed, doomed, closedConn>>

\* stopAcceptingHandlers
StopAcceptingHandlers ==
  /\ shutdown = "cancel"
  /\ closing' = TRUE
  /\ doomed' = activeTCP
  /\ ShutdownTo("accept")
  /\ UNCHANGED <<contextDone, upstreamClosed, closedConn>>

\* upstreamConnections.close
CloseUpstream ==
  /\ shutdown = "accept"
  /\ upstreamClosed' = TRUE
  /\ closedConn' = [closedConn EXCEPT !.upstream = upstream]
  /\ ShutdownTo("upstream")
  /\ UNCHANGED <<contextDone, closing, doomed>>

CloseListeners ==
  /\ shutdown = "upstream"
  /\ ShutdownTo("connections")
  /\ UNCHANGED <<contextDone, closing, upstreamClosed, doomed, closedConn>>

CloseConnections ==
  /\ shutdown = "connections"
  /\ closedConn' = [closedConn EXCEPT !.client = doomed]
  /\ ShutdownTo("servers")
  /\ UNCHANGED <<contextDone, closing, upstreamClosed, doomed>>

\* confirmWorkersStopped: servers.Wait
ServersStopped ==
  /\ shutdown = "servers" /\ \A s \in Servers : server[s] = "done"
  /\ ShutdownTo("handlers")
  /\ UNCHANGED <<contextDone, closing, upstreamClosed, doomed, closedConn>>

\* confirmWorkersStopped: handlers.Wait
HandlersStopped ==
  /\ shutdown = "handlers" /\ \A q \in Queries : handler[q] \in {"none", "over"}
  /\ ShutdownTo("done")
  /\ UNCHANGED <<contextDone, closing, upstreamClosed, doomed, closedConn>>

-----------------------------------------------------------------------------
(* NamespaceResolverSet.Close                                              *)

BeginResolverClose ==
  /\ rpc = "open"
  /\ rpc' = "closing"
  /\ UNCHANGED <<forwards, workerVars, shutdownVars>>

\* The workers are known to have stopped: the file is closed too.
ResolversClosed ==
  /\ rpc = "closing" /\ (forwards => WorkersDone)
  /\ rpc' = "closed"
  /\ UNCHANGED <<forwards, workerVars, shutdownVars>>

\* The context of Close is done first: the set stays open for another Close.
ResolverCloseTimesOut ==
  /\ rpc = "closing" /\ forwards /\ shutdown \in {"servers", "handlers"}
  /\ rpc' = "open"
  /\ UNCHANGED <<forwards, workerVars, shutdownVars>>

-----------------------------------------------------------------------------
ServerStep(s) == StartHandler(s) \/ ServerEnds(s)
HandlerStep(q) ==
  \/ Dial(q) \/ Dialed(q) \/ Track(q) \/ Exchanged(q)
  \/ (~OfStream(q) \/ q \in closedConn.client) /\ RespondLast(q)
  \/ q \in closedConn.client /\ ClientGone(q)
ClientStep(q) ==
  \/ ReadQuery(q) \/ ClientGone(q) \/ Respond(q) \/ (OfStream(q) /\ RespondLast(q))
ShutdownStep ==
  \/ ShutdownCancel \/ StopAcceptingHandlers \/ CloseUpstream \/ CloseListeners
  \/ CloseConnections \/ ServersStopped \/ HandlersStopped
WorkerStep ==
  \/ \E s \in Servers : Receive(s) \/ ServerStep(s) \/ ListenerFails(s)
  \/ \E q \in Queries : HandlerStep(q) \/ ClientStep(q)
  \/ ShutdownStep

ResolversTypeOK ==
  /\ rpc \in {"idle", "opening", "open", "closing", "closed", "refused"}
  /\ forwards \in BOOLEAN
  /\ server \in [Servers -> {"off", "bound", "listen", "got", "done"}]
  /\ handler \in [Queries -> {"none", "client", "dial", "dialing", "connected", "exchange", 
                              "respond", "over"}]
  /\ DOMAIN source = Queries /\ tries \in [Queries -> 0..MaxTries]
  /\ activeTCP \subseteq Queries /\ upstream \subseteq Queries /\ doomed \subseteq Queries
  /\ shutdown \in {"no", "cancel", "accept", "upstream", "connections", "servers",
                   "handlers", "done"}
  /\ contextDone \in BOOLEAN /\ closing \in BOOLEAN /\ upstreamClosed \in BOOLEAN
  /\ closedConn \in [client : SUBSET Queries, upstream : SUBSET Queries]

\* The forwarder reads the queries of every namespace and asks the host's resolvers.
Resolving == forwards => ~contextDone /\ \A s \in Servers : server[s] \in {"listen", "got"}

\* A closed set has no goroutine left that could use its namespaces.
ClosedHasNoWorker == rpc = "closed" \/ WorkersDone => ~WorkersLeft

\* Once beginShutdown has run, nothing a goroutine of the forwarder can block
\* on is open: neither a silent client's connection nor one to a host resolver.
ShutdownReachesAll ==
  shutdown \in {"servers", "handlers", "done"} =>
    \A q \in Queries :
      /\ handler[q] = "client" \/ (handler[q] = "respond" /\ OfStream(q))
           => q \in closedConn.client
      /\ handler[q] = "exchange" => q \in closedConn.upstream

-----------------------------------------------------------------------------
(* The invariant behind them.                                              *)

\* Goroutines exist with a forwarder only, and end before its shutdown does.
WorkersInv ==
  /\ ~forwards => /\ shutdown = "no"
                  /\ \A s \in Servers : server[s] \in {"off", "bound"}
                  /\ \A q \in Queries : handler[q] = "none"
  /\ ~contextDone => Resolving /\ shutdown = "no"
  /\ rpc \in {"idle", "opening", "refused"} => ~forwards
  /\ rpc = "closed" /\ forwards => shutdown = "done"
  /\ closing <=> shutdown \notin {"no", "cancel"}
  /\ upstreamClosed <=> shutdown \notin {"no", "cancel", "accept"}
  /\ shutdown \in {"handlers", "done"} => \A s \in Servers : server[s] = "done"
  /\ shutdown = "done" => \A q \in Queries : handler[q] \in {"none", "over"}

\* The connections that a goroutine uses are known to the shutdown.
HandlersInv ==
  /\ \A q \in Queries :
       /\ handler[q] \notin {"none", "over"} /\ OfStream(q) => q \in activeTCP
       /\ handler[q] = "client" => OfStream(q)
       /\ handler[q] = "exchange" => q \in upstream
       /\ handler[q] = "none" => tries[q] = 0
       /\ handler[q] = "dial" => tries[q] < MaxTries
  /\ closing => activeTCP \subseteq doomed
  /\ upstreamClosed => upstream \subseteq closedConn.upstream
  /\ shutdown \in {"servers", "handlers", "done"} => closedConn.client = doomed

ResolversInv == ResolversTypeOK /\ WorkersInv /\ HandlersInv
=============================================================================

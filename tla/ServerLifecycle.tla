-------------------------- MODULE ServerLifecycle ---------------------------
(***************************************************************************)
(* Start and stop of the registry process (internal/app/run.go and         *)
(* internal/common/grpcserver): the main goroutine, the goroutine that     *)
(* serves gRPC, and the requests in flight on both servers.  The gRPC      *)
(* transport and the HTTP engine are libraries: they stop by draining, and *)
(* cut off what has not finished when their deadline passes.               *)
(***************************************************************************)
EXTENDS Naturals

CONSTANT MaxInFlight   \* bound on concurrent requests of a server
ASSUME MaxInFlightAssumption == MaxInFlight \in Nat

VARIABLES
  main,       \* where Run is
  serve,      \* where the goroutine that calls grpcServer.Serve is
  transport,  \* the gRPC transport
  health,     \* what the gRPC health service answers
  http,       \* the HTTP server
  db,         \* the connection pool
  inFlight,   \* requests whose clients wait for an answer
  signalled   \* ctx.Done()

vars == <<main, serve, transport, health, http, db, inFlight, signalled>>

Servers == {"grpc", "http"}

TypeOK ==
  /\ main \in {"bootstrap", "assemble", "start", "abort", "abort_wait", "select", "stop",
               "stop_transport", "stop_wait", "shutdown", "shutdown_wait", "close", "exited"}
  /\ serve \in {"none", "announce", "call", "serving", "leave", "send", "ended"}
  /\ transport \in {"none", "ready", "serving", "connected", "draining", "stopped"}
  /\ health \in {"SERVING", "NOT_SERVING"}
  /\ http \in {"none", "open", "draining", "stopped"}
  /\ db \in {"none", "open", "closed"}
  /\ inFlight \in [Servers -> 0..MaxInFlight]
  /\ signalled \in BOOLEAN

Init ==
  /\ main = "bootstrap" /\ serve = "none"
  /\ transport = "none" /\ health = "NOT_SERVING" /\ http = "none"
  /\ db = "none"
  /\ inFlight = [s \in Servers |-> 0]
  /\ signalled = FALSE

-----------------------------------------------------------------------------
\* Run: bootstrap.

\* NewDependencies opens the database, and closes it if it is of no use.
OpenDatabase ==
  /\ main = "bootstrap"
  /\ \/ main' = "assemble" /\ db' = "open"
     \/ main' = "exited" /\ UNCHANGED db
     \/ main' = "exited" /\ db' = "closed"
  /\ UNCHANGED <<serve, transport, health, http, inFlight, signalled>>

\* grpcserver.New listens and withdraws the SERVING a health service is created
\* with; it is not serving yet.
NewServer ==
  /\ main = "assemble"
  /\ \/ main' = "start" /\ transport' = "ready" /\ health' = "NOT_SERVING" /\ UNCHANGED db
     \/ main' = "exited" /\ db' = "closed" /\ UNCHANGED <<transport, health>>
  /\ UNCHANGED <<serve, http, inFlight, signalled>>

\* The HTTP server is up before gRPC is served.
Start ==
  /\ main = "start"
  /\ \/ main' = "select" /\ http' = "open" /\ serve' = "announce"
     \/ main' = "abort" /\ UNCHANGED <<http, serve>>
  /\ UNCHANGED <<transport, health, db, inFlight, signalled>>

-----------------------------------------------------------------------------
\* The goroutine of grpcServer.Serve.

Announce ==
  /\ serve = "announce"
  /\ health' = "SERVING"
  /\ serve' = "call"
  /\ UNCHANGED <<main, transport, http, db, inFlight, signalled>>

\* A transport that was told to stop does not start.
CallServe ==
  /\ serve = "call"
  /\ IF transport = "ready"
     THEN transport' = "serving" /\ serve' = "serving"
     ELSE serve' = "leave" /\ UNCHANGED transport
  /\ UNCHANGED <<main, health, http, db, inFlight, signalled>>

\* transport.Serve returns: it was stopped, or its listener failed, which leaves
\* the connections it has.
ServeReturns ==
  /\ serve = "serving"
  /\ \/ transport = "stopped" /\ UNCHANGED transport
     \/ transport = "serving" /\ transport' = "connected"
  /\ serve' = "leave"
  /\ UNCHANGED <<main, health, http, db, inFlight, signalled>>

\* Mutant: Serve leaves the health status to Stop.
LeaveSilently ==
  /\ serve = "leave"
  /\ serve' = "send"
  /\ UNCHANGED <<main, transport, health, http, db, inFlight, signalled>>

Leave ==
  /\ serve = "leave"
  /\ health' = "NOT_SERVING"
  /\ serve' = "send"
  /\ UNCHANGED <<main, transport, http, db, inFlight, signalled>>

\* grpcErrors has room for its only value.
SendError ==
  /\ serve = "send"
  /\ serve' = "ended"
  /\ UNCHANGED <<main, transport, health, http, db, inFlight, signalled>>

-----------------------------------------------------------------------------
\* Run: shutdown.

Select ==
  /\ main = "select"
  /\ signalled \/ serve = "ended"
  /\ main' = "stop"
  /\ UNCHANGED <<serve, transport, health, http, db, inFlight, signalled>>

\* Stop says NOT_SERVING, and then stops the transport.
StopServing ==
  /\ main \in {"stop", "abort"}
  /\ health' = "NOT_SERVING"
  /\ main' = IF main = "stop" THEN "stop_transport" ELSE "abort_wait"
  /\ UNCHANGED <<serve, transport, http, db, inFlight, signalled>>

StopTransport ==
  /\ main = "stop_transport"
  /\ transport' = "draining"
  /\ main' = "stop_wait"
  /\ UNCHANGED <<serve, health, http, db, inFlight, signalled>>

\* Mutant: the transport is left to drain without a deadline.
TransportDrained ==
  /\ main = "stop_wait"
  /\ inFlight["grpc"] = 0
  /\ transport' = "stopped"
  /\ main' = "shutdown"
  /\ UNCHANGED <<serve, health, http, db, inFlight, signalled>>

\* It has drained, or stopCtx ends and cuts off the rest.
TransportStopped ==
  /\ main = "stop_wait"
  /\ transport' = "stopped"
  /\ inFlight' = [inFlight EXCEPT !["grpc"] = 0]
  /\ main' = "shutdown"
  /\ UNCHANGED <<serve, health, http, db, signalled>>

\* Mutant: the HTTP server is shut down by a goroutine nobody waits for.
ShutdownInBackground ==
  /\ main = "shutdown"
  /\ http' = "draining"
  /\ main' = "close"
  /\ UNCHANGED <<serve, transport, health, db, inFlight, signalled>>

Shutdown ==
  /\ main = "shutdown"
  /\ http' = "draining"
  /\ main' = "shutdown_wait"
  /\ UNCHANGED <<serve, transport, health, db, inFlight, signalled>>

\* It has drained, or the graceful-shutdown timeout cuts off the rest.
HTTPStopped ==
  /\ main = "shutdown_wait"
  /\ http' = "stopped"
  /\ inFlight' = [inFlight EXCEPT !["http"] = 0]
  /\ main' = "close"
  /\ UNCHANGED <<serve, transport, health, db, signalled>>

\* The HTTP server did not start: gRPC stops before it was served.
AbortStart ==
  /\ main = "abort_wait"
  /\ transport' = "stopped"
  /\ main' = "close"
  /\ UNCHANGED <<serve, health, http, db, inFlight, signalled>>

\* The deferred deps.Close; the process ends, and its goroutines with it.
CloseDatabase ==
  /\ main = "close"
  /\ db' = "closed"
  /\ main' = "exited"
  /\ UNCHANGED <<serve, transport, health, http, inFlight, signalled>>

-----------------------------------------------------------------------------
\* The world.

Signal ==
  /\ ~signalled
  /\ main # "exited"
  /\ signalled' = TRUE
  /\ UNCHANGED <<main, serve, transport, health, http, db, inFlight>>

Accepts(s) == IF s = "grpc" THEN transport \in {"serving", "connected"} ELSE http = "open"

Accept(s) ==
  /\ main # "exited"
  /\ Accepts(s)
  /\ inFlight[s] < MaxInFlight
  /\ inFlight' = [inFlight EXCEPT ![s] = @ + 1]
  /\ UNCHANGED <<main, serve, transport, health, http, db, signalled>>

Complete(s) ==
  /\ main # "exited"
  /\ inFlight[s] > 0
  /\ inFlight' = [inFlight EXCEPT ![s] = @ - 1]
  /\ UNCHANGED <<main, serve, transport, health, http, db, signalled>>

Run ==
  \/ OpenDatabase \/ NewServer \/ Start
  \/ Select \/ StopServing \/ StopTransport \/ TransportStopped
  \/ Shutdown \/ HTTPStopped \/ AbortStart \/ CloseDatabase

Serve ==
  /\ main # "exited"
  /\ Announce \/ CallServe \/ ServeReturns \/ Leave \/ SendError

Next ==
  \/ Run
  \/ Serve
  \/ Signal
  \/ \E s \in Servers : Accept(s) \/ Complete(s)

Spec == Init /\ [][Next]_vars

\* Go runs both goroutines; the deadlines of the two drains pass.
FairSpec == Spec /\ WF_vars(Run) /\ WF_vars(Serve)

-----------------------------------------------------------------------------
\* No client waits for an answer from a process whose database is closed,
\* however the drains, the deadlines and a failing listener interleave
\* (run.go:18, 40).
NoRequestWithoutDatabase ==
  (inFlight["grpc"] > 0 \/ inFlight["http"] > 0) => db = "open"

\* The health service says SERVING only while the transport is about to serve,
\* serves or has just failed: Serve takes the status back even when it announced
\* it after Stop had withdrawn it (grpcserver/server.go:67, 96, 98, 106).
HealthHonest == health = "SERVING" => serve \in {"call", "serving", "leave"}

\* A signal or a failed listener ends the process, whether requests finish or
\* not.
ProcessEnds == (signalled \/ serve = "ended") ~> main = "exited"
=============================================================================

--------------------------- MODULE LifecycleProofs ---------------------------
(***************************************************************************)
(* Proofs about the life of the server process and about the script that   *)
(* puts one release in the place of another.                               *)
(***************************************************************************)
EXTENDS ServerLifecycle, Deployment, TLAPS

-----------------------------------------------------------------------------
(***************************************************************************)
(* For any number of concurrent requests: no client waits for an answer    *)
(* while the database is closed, and the health service never says SERVING *)
(* for a transport that is gone.                                           *)
(***************************************************************************)

\* How far the main goroutine is.
Closing == {"close", "exited"}
Stopped == {"shutdown", "shutdown_wait"} \cup Closing

\* A server that has stopped takes no request and has none.
Drained ==
  /\ main \in Stopped => transport \in {"none", "stopped"} /\ inFlight["grpc"] = 0
  /\ main \in Closing => http \in {"none", "stopped"} /\ inFlight["http"] = 0

\* Before the servers exist there is no request; the database outlives both.
NotYet ==
  /\ main \in {"bootstrap", "assemble"} => transport = "none"
  /\ main \in {"start", "abort", "abort_wait"} => transport = "ready"
  /\ main \in {"bootstrap", "assemble", "start", "abort", "abort_wait"} =>
       http = "none" /\ serve = "none"
  /\ transport \in {"none", "ready"} => inFlight["grpc"] = 0
  /\ http = "none" => inFlight["http"] = 0
  /\ main \notin {"bootstrap", "exited"} => db = "open"
  /\ serve = "none" => health = "NOT_SERVING" /\ transport \notin {"serving", "connected"}

IInv == TypeOK /\ Drained /\ NotYet /\ HealthHonest

LEMMA InitIInv == Init => IInv
<1> SUFFICES ASSUME Init PROVE IInv
  OBVIOUS
<1>1. inFlight \in [Servers -> 0..MaxInFlight]
  <2>1. 0 \in 0..MaxInFlight
    BY MaxInFlightAssumption
  <2> QED
    BY <2>1 DEF Init
<1>2. inFlight["grpc"] = 0 /\ inFlight["http"] = 0
  BY DEF Init, Servers
<1>3. TypeOK
  BY <1>1 DEF Init, TypeOK
<1>4. Drained /\ NotYet /\ HealthHonest
  BY <1>2 DEF Init, Drained, NotYet, HealthHonest, Closing, Stopped
<1> QED
  BY <1>3, <1>4 DEF IInv

LEMMA RunIInv == IInv /\ Run => IInv'
<1> SUFFICES ASSUME IInv, Run PROVE IInv'
  OBVIOUS
<1> USE MaxInFlightAssumption
    DEF IInv, TypeOK, Drained, NotYet, HealthHonest, Closing, Stopped, Servers
<1>1. CASE OpenDatabase
  BY <1>1 DEF OpenDatabase
<1>2. CASE NewServer
  BY <1>2 DEF NewServer
<1>3. CASE Start
  BY <1>3 DEF Start
<1>4. CASE Select
  BY <1>4 DEF Select
<1>5. CASE StopServing
  BY <1>5 DEF StopServing
<1>6. CASE StopTransport
  BY <1>6 DEF StopTransport
<1>7. CASE TransportStopped
  BY <1>7 DEF TransportStopped
<1>8. CASE Shutdown
  BY <1>8 DEF Shutdown
<1>9. CASE HTTPStopped
  BY <1>9 DEF HTTPStopped
<1>10. CASE AbortStart
  BY <1>10 DEF AbortStart
<1>11. CASE CloseDatabase
  BY <1>11 DEF CloseDatabase
<1> QED
  BY <1>1, <1>2, <1>3, <1>4, <1>5, <1>6, <1>7, <1>8, <1>9, <1>10, <1>11 DEF Run

LEMMA ServeIInv == IInv /\ Serve => IInv'
<1> SUFFICES ASSUME IInv, Serve PROVE IInv'
  OBVIOUS
<1> USE MaxInFlightAssumption
    DEF IInv, TypeOK, Drained, NotYet, HealthHonest, Closing, Stopped, Servers
<1>1. CASE Announce
  BY <1>1 DEF Announce
<1>2. CASE CallServe
  BY <1>2 DEF CallServe
<1>3. CASE ServeReturns
  BY <1>3 DEF ServeReturns
<1>4. CASE Leave
  BY <1>4 DEF Leave
<1>5. CASE SendError
  BY <1>5 DEF SendError
<1> QED
  BY <1>1, <1>2, <1>3, <1>4, <1>5 DEF Serve

LEMMA WorldIInv ==
  ASSUME IInv, Signal \/ \E s \in Servers : Accept(s) \/ Complete(s)
  PROVE  IInv'
<1> USE MaxInFlightAssumption
    DEF IInv, TypeOK, Drained, NotYet, HealthHonest, Closing, Stopped, Servers
<1>1. CASE Signal
  BY <1>1 DEF Signal
<1>2. ASSUME NEW s \in Servers, Accept(s) PROVE IInv'
  BY <1>2 DEF Accept, Accepts
<1>3. ASSUME NEW s \in Servers, Complete(s) PROVE IInv'
  BY <1>3 DEF Complete
<1> QED
  BY <1>1, <1>2, <1>3

LEMMA NextIInv == IInv /\ [Next]_vars => IInv'
<1> SUFFICES ASSUME IInv, [Next]_vars PROVE IInv'
  OBVIOUS
<1>1. CASE Next
  BY <1>1, RunIInv, ServeIInv, WorldIInv DEF Next
<1>2. CASE UNCHANGED vars
  BY <1>2 DEF vars, IInv, TypeOK, Drained, NotYet, HealthHonest
<1> QED
  BY <1>1, <1>2

LEMMA InvariantIInv == Spec => []IInv
BY InitIInv, NextIInv, PTL DEF Spec

\* The database is closed only when both servers have drained or cut off their
\* requests (run.go:18, 40).
THEOREM DatabaseTheorem == Spec => []NoRequestWithoutDatabase
<1>1. IInv => NoRequestWithoutDatabase
  BY DEF IInv, NoRequestWithoutDatabase, TypeOK, Drained, NotYet, Closing, Stopped
<1> QED
  BY <1>1, InvariantIInv, PTL

\* No interleaving of Serve and Stop leaves SERVING behind (server.go:96-98, 106).
THEOREM HealthTheorem == Spec => []HealthHonest
<1>1. IInv => HealthHonest
  BY DEF IInv
<1> QED
  BY <1>1, InvariantIInv, PTL

\* A process that ends has let go of what it opened: wherever its start failed
\* or its shutdown was cut short, no server still listens, no client waits, and
\* the pool is closed (run.go:18, 20-25, 40).
CleanExit ==
  main = "exited" =>
    /\ db \in {"none", "closed"}
    /\ transport \in {"none", "stopped"} /\ http \in {"none", "stopped"}
    /\ \A s \in Servers : inFlight[s] = 0

PoolOwned == (main = "bootstrap" => db = "none") /\ (main = "exited" => db # "open")

\* On every way out: no database, no port, a listener that failed, a signal.
THEOREM ExitTheorem == Spec => []CleanExit
<1>1. Init => PoolOwned
  BY DEF Init, PoolOwned
<1>2. ASSUME PoolOwned, [Next]_vars PROVE PoolOwned'
  <2>1. CASE Run
    BY <1>2, <2>1
       DEF Run, OpenDatabase, NewServer, Start, Select, StopServing, StopTransport,
           TransportStopped, Shutdown, HTTPStopped, AbortStart, CloseDatabase, PoolOwned
  <2>2. CASE ~Run
    BY <1>2, <2>2
       DEF Next, Serve, Announce, CallServe, ServeReturns, Leave, SendError, Signal, Accept,
           Complete, vars, PoolOwned
  <2> QED
    BY <2>1, <2>2
<1>3. IInv /\ PoolOwned => CleanExit
  BY DEF IInv, TypeOK, PoolOwned, CleanExit, Drained, NotYet, Closing, Stopped, Servers
<1>4. PoolOwned /\ [Next]_vars => PoolOwned'
  BY <1>2
<1> QED
  BY <1>1, <1>3, <1>4, InvariantIInv, PTL DEF Spec

-----------------------------------------------------------------------------
(***************************************************************************)
(* For any number of pipelines: the link never names a release that is     *)
(* never ready, and changes only while the release it comes to name runs,  *)
(* and a job that ends as deployed leaves it with the release that runs.   *)
(***************************************************************************)

\* A job that has the lock to itself, and what it has seen.
Alone == \A j \in Jobs : pc[j] \notin {"queued", "ended"} => lock = j
SawReady == \A j \in Jobs : pc[j] = "ready" \/ pc[j] = "link" => running = j
LinksReady == \A j \in Jobs : pc[j] = "link" => running \notin Unready

DeploymentInv ==
  DeploymentTypeOK /\ Alone /\ SawReady /\ LinksReady /\ CurrentWasReady /\ DeployedRunsCurrent

LEMMA InitDeploymentInv == DeploymentInit => DeploymentInv
BY DeploymentAssumption
   DEF DeploymentInit, DeploymentInv, DeploymentTypeOK, Alone, SawReady, LinksReady,
       CurrentWasReady, DeployedRunsCurrent, Releases, Steps, Reports

\* Every step of a job preserves the invariant, because the other jobs are
\* queued, have ended, or do not have the lock it has.
LEMMA StepDeploymentInv ==
  ASSUME DeploymentInv, NEW j \in Jobs, Step(j) \/ Kill(j)
  PROVE  DeploymentInv'
<1> USE DeploymentAssumption
    DEF DeploymentInv, DeploymentTypeOK, Alone, SawReady, LinksReady, CurrentWasReady,
        DeployedRunsCurrent, Releases, Steps, Reports, GoTo, End
<1>1. CASE Acquire(j)
  BY <1>1 DEF Acquire
<1>2. CASE ReadPrevious(j)
  BY <1>2 DEF ReadPrevious
<1>3. CASE Up(j)
  BY <1>3 DEF Up, ComposeUp, ComposeFails
<1>4. CASE Ready(j)
  BY <1>4 DEF Ready, AnswersReady
<1>5. CASE Link(j)
  BY <1>5 DEF Link
<1>6. CASE RollBack(j)
  BY <1>6 DEF RollBack, ComposeUp, ComposeFails
<1>7. CASE RolledReady(j)
  BY <1>7 DEF RolledReady, AnswersReady
<1>8. CASE Kill(j)
  <2>1. /\ current' = current \/ (pc[j] = "link" /\ current' = j)
        /\ running' \in Releases
        /\ pc' \in {[pc EXCEPT ![j] = "ended"], [pc EXCEPT ![j] = "queued"]}
        /\ lock = j /\ lock' = Free /\ report' = "killed"
        /\ previous' \in [Jobs -> Releases] /\ retried' \subseteq Jobs
    BY <1>8 DEF Kill, ComposeFails, StartAgain
  <2>2. \A k \in Jobs \ {j} : pc'[k] = pc[k] /\ pc[k] \in {"queued", "ended"}
    BY <1>8, <2>1 DEF Kill
  <2>3. j \notin Unready \/ pc[j] # "link"
    OBVIOUS
  <2> QED
    BY <2>1, <2>2, <2>3
<1> QED
  BY <1>1, <1>2, <1>3, <1>4, <1>5, <1>6, <1>7, <1>8 DEF Step

LEMMA NextDeploymentInv == DeploymentInv /\ [DeploymentNext]_deploymentVars => DeploymentInv'
<1> SUFFICES ASSUME DeploymentInv, [DeploymentNext]_deploymentVars PROVE DeploymentInv'
  OBVIOUS
<1>1. CASE DeploymentNext
  BY <1>1, StepDeploymentInv DEF DeploymentNext
<1>2. CASE UNCHANGED deploymentVars
  BY <1>2 DEF deploymentVars, DeploymentInv, DeploymentTypeOK, Alone, SawReady, LinksReady,
                  CurrentWasReady, DeployedRunsCurrent
<1> QED
  BY <1>1, <1>2

LEMMA InvariantDeploymentInv == DeploymentSpec => []DeploymentInv
BY InitDeploymentInv, NextDeploymentInv, PTL DEF DeploymentSpec

\* The link never names a release that is never ready (deploy.sh:112, 137-140).
THEOREM LinkReadyTheorem == DeploymentSpec => []CurrentWasReady
<1>1. DeploymentInv => CurrentWasReady
  BY DEF DeploymentInv
<1> QED
  BY <1>1, InvariantDeploymentInv, PTL

\* The link changes only to the release whose containers run: the lock spans
\* everything from the start of the containers to the link (deploy.sh:33).
THEOREM LinkRunningTheorem == DeploymentSpec => LinkNamesRunning
<1>1. DeploymentInv /\ [DeploymentNext]_deploymentVars =>
        [current' # current => running = current']_deploymentVars
  <2> SUFFICES ASSUME DeploymentInv, DeploymentNext, current' # current PROVE running = current'
    OBVIOUS
  <2>1. PICK j \in Jobs : Step(j) \/ Kill(j)
    BY DEF DeploymentNext
  <2>2. pc[j] = "link" /\ current' = j
    BY <2>1 DEF Step, Kill, Acquire, ReadPrevious, Up, Ready, Link, RollBack, RolledReady
  <2> QED
    BY <2>2 DEF DeploymentInv, SawReady
<1> QED
  BY <1>1, InvariantDeploymentInv, PTL DEF DeploymentSpec, LinkNamesRunning

\* A job that ends as deployed leaves the link with the release that runs, in
\* whatever state it found the two (deploy.sh:137-143).
THEOREM DeployedTheorem == DeploymentSpec => []DeployedRunsCurrent
<1>1. DeploymentInv => DeployedRunsCurrent
  BY DEF DeploymentInv
<1> QED
  BY <1>1, InvariantDeploymentInv, PTL

\* Whoever waits for the lock waits for a job that is at work: neither a failed
\* nor a killed job keeps it (deploy.sh:33, 108-123).
LockIsAtWork == lock # Free => lock \in Jobs /\ pc[lock] \notin {"queued", "ended"}

\* How far a job is; the trap comes after the last regular step.
Place == [queued |-> 1, read |-> 2, up |-> 3, ready |-> 4, link |-> 5,
          roll_back |-> 6, rolled_ready |-> 7, ended |-> 8]

GetsOn(j) ==
  \/ Place[pc[j]] < Place[pc'[j]] /\ retried' = retried
  \/ j \notin retried /\ retried' = retried \cup {j}

\* Each step takes one job further, or back by the retry it has not yet used, and
\* the others nowhere: the trap does not start the deployment again, and with the
\* waits bounded every job ends.
JobsGetOn ==
  [][\E j \in Jobs : GetsOn(j) /\ \A k \in Jobs \ {j} : pc'[k] = pc[k]]_deploymentVars

\* For any number of pipelines and however many are killed, the lock never stays
\* behind, and a job goes back once at most: what JobsEnd rests on.
THEOREM QueueTheorem == DeploymentSpec => []LockIsAtWork /\ JobsGetOn
<1> USE DeploymentAssumption
<1>1. DeploymentInit => LockIsAtWork
  BY DEF DeploymentInit, LockIsAtWork
<1>2. ASSUME DeploymentInv, LockIsAtWork, NEW j \in Jobs, Step(j) \/ Kill(j)
      PROVE  /\ LockIsAtWork'
             /\ GetsOn(j)
             /\ \A k \in Jobs \ {j} : pc'[k] = pc[k]
  <2> USE <1>2
      DEF DeploymentInv, DeploymentTypeOK, Alone, LockIsAtWork, Steps, Place, GetsOn, GoTo, End
  <2>1. CASE Acquire(j)
    BY <2>1 DEF Acquire
  <2>2. CASE ReadPrevious(j)
    BY <2>2 DEF ReadPrevious
  <2>3. CASE Up(j)
    BY <2>3 DEF Up
  <2>4. CASE Ready(j)
    BY <2>4 DEF Ready
  <2>5. CASE Link(j)
    BY <2>5 DEF Link
  <2>6. CASE RollBack(j)
    BY <2>6 DEF RollBack
  <2>7. CASE RolledReady(j)
    BY <2>7 DEF RolledReady
  <2>8. CASE Kill(j)
    BY <2>8 DEF Kill, StartAgain
  <2> QED
    BY <2>1, <2>2, <2>3, <2>4, <2>5, <2>6, <2>7, <2>8 DEF Step
<1>3. DeploymentInv /\ LockIsAtWork /\ [DeploymentNext]_deploymentVars => LockIsAtWork'
  <2>1. UNCHANGED deploymentVars /\ LockIsAtWork => LockIsAtWork'
    BY DEF deploymentVars, LockIsAtWork
  <2> QED
    BY <1>2, <2>1 DEF DeploymentNext
<1>4. DeploymentInv /\ LockIsAtWork /\ [DeploymentNext]_deploymentVars =>
        [\E j \in Jobs : GetsOn(j) /\ \A k \in Jobs \ {j} : pc'[k] = pc[k]]_deploymentVars
  BY <1>2 DEF DeploymentNext
<1> QED
  BY <1>1, <1>3, <1>4, InvariantDeploymentInv, PTL DEF DeploymentSpec, JobsGetOn
=============================================================================

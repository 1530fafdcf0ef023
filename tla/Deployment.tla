----------------------------- MODULE Deployment -----------------------------
(***************************************************************************)
(* The deployment script (ci/deploy.sh) as several pipelines run it on one *)
(* host.  A job deploys one release: it takes the host's lock, starts the  *)
(* release's containers in place of the running ones, waits until they are *)
(* ready, and lets the current link name the release.  When a step fails,  *)
(* the ERR trap activates the release the link named before.  A job may be *)
(* killed between any two steps; the kernel then drops its lock, and the   *)
(* pipeline may start the script again, once (.gitlab-ci.yml).             *)
(***************************************************************************)
EXTENDS Naturals

CONSTANTS Jobs,      \* pipelines, each of which stands for the release it deploys
          Unready,   \* releases that never become ready
          None, Free

ASSUME DeploymentAssumption ==
  /\ Unready \subseteq Jobs
  /\ None \notin Jobs /\ Free \notin Jobs

VARIABLES
  lock,       \* who holds flock on .lock
  current,    \* the release the link names
  running,    \* the release whose containers run
  pc,         \* per job: its step
  previous,   \* per job: previous_release
  retried,    \* the jobs that have used their retry
  report      \* what the last job that ended reported

deploymentVars == <<lock, current, running, pc, previous, retried, report>>

Releases == Jobs \cup {None}
Steps == {"queued", "read", "up", "ready", "link", "roll_back", "rolled_ready", "ended"}
Reports == {"none", "deployed", "rolled_back", "recovery_needed", "failed", "killed"}

DeploymentTypeOK ==
  /\ lock \in Jobs \cup {Free}
  /\ current \in Releases /\ running \in Releases
  /\ pc \in [Jobs -> Steps]
  /\ previous \in [Jobs -> Releases]
  /\ retried \subseteq Jobs
  /\ report \in Reports

DeploymentInit ==
  /\ lock = Free
  /\ current = None /\ running = None
  /\ pc = [j \in Jobs |-> "queued"]
  /\ previous = [j \in Jobs |-> None]
  /\ retried = {}
  /\ report = "none"

-----------------------------------------------------------------------------
GoTo(j, step) == pc' = [pc EXCEPT ![j] = step] /\ UNCHANGED <<lock, report>>

End(j, result) ==
  /\ pc' = [pc EXCEPT ![j] = "ended"]
  /\ report' = result
  /\ lock' = IF lock = j THEN Free ELSE lock

\* Mutant: the lock is tried and not waited for.
AcquireAnyway(j) ==
  /\ pc[j] = "queued"
  /\ lock' = j
  /\ pc' = [pc EXCEPT ![j] = "read"]
  /\ UNCHANGED <<current, running, previous, retried, report>>

\* flock -x 9
Acquire(j) ==
  /\ pc[j] = "queued"
  /\ lock = Free
  /\ lock' = j
  /\ pc' = [pc EXCEPT ![j] = "read"]
  /\ UNCHANGED <<current, running, previous, retried, report>>

\* The job reads the link and unpacks its release; a failure here is before the
\* trap and ends it.
ReadPrevious(j) ==
  /\ pc[j] = "read"
  /\ \/ previous' = [previous EXCEPT ![j] = current] /\ GoTo(j, "up")
     \/ End(j, "failed") /\ UNCHANGED previous
  /\ UNCHANGED <<current, running, retried>>

\* docker compose pull and up: done, or broken off anywhere.
ComposeUp(target) == running' = target
ComposeFails(target) == running' \in {running, target, None}

\* Mutant: what the link names is taken to run.
UpUnlessCurrent(j) ==
  /\ pc[j] = "up"
  /\ \/ current = j /\ UNCHANGED running /\ GoTo(j, "ready")
     \/ current # j /\ ComposeUp(j) /\ GoTo(j, "ready")
     \/ ComposeFails(j) /\ GoTo(j, "roll_back")
  /\ UNCHANGED <<current, previous, retried>>

Up(j) ==
  /\ pc[j] = "up"
  /\ \/ ComposeUp(j) /\ GoTo(j, "ready")
     \/ ComposeFails(j) /\ GoTo(j, "roll_back")
  /\ UNCHANGED <<current, previous, retried>>

\* wait_tcp, wait_http and the registration between them: they ask whatever
\* listens on the port, a bounded number of times.
AnswersReady == running # None /\ running \notin Unready

\* Mutant: wait_http asks for ever.
ReadyForever(j) ==
  /\ pc[j] = "ready"
  /\ AnswersReady
  /\ GoTo(j, "link")
  /\ UNCHANGED <<current, running, previous, retried>>

\* Mutant: an exhausted wait is taken for success.
ReadyAnyway(j) ==
  /\ pc[j] = "ready"
  /\ GoTo(j, "link")
  /\ UNCHANGED <<current, running, previous, retried>>

Ready(j) ==
  /\ pc[j] = "ready"
  /\ \/ AnswersReady /\ GoTo(j, "link")
     \/ GoTo(j, "roll_back")
  /\ UNCHANGED <<current, running, previous, retried>>

\* ln and mv -T replace the link at once, or fail.
Link(j) ==
  /\ pc[j] = "link"
  /\ \/ current' = j /\ End(j, "deployed")
     \/ GoTo(j, "roll_back") /\ UNCHANGED current
  /\ UNCHANGED <<running, previous, retried>>

\* The trap.  It calls activate_release as the condition of an if, where a
\* failing command does not end the function: whether compose failed or not,
\* the readiness of what runs decides.
RollBack(j) ==
  /\ pc[j] = "roll_back"
  /\ \/ /\ previous[j] # None
        /\ ComposeUp(previous[j]) \/ ComposeFails(previous[j])
        /\ GoTo(j, "rolled_ready")
     \/ /\ previous[j] = None
        /\ running' \in {running, None}
        /\ End(j, "failed")
  /\ UNCHANGED <<current, previous, retried>>

RolledReady(j) ==
  /\ pc[j] = "rolled_ready"
  /\ \/ AnswersReady /\ End(j, "rolled_back")
     \/ End(j, "recovery_needed")
  /\ UNCHANGED <<current, running, previous, retried>>

\* The runner or the host ends the script; docker compose, which inherits the
\* lock's descriptor, ends with it and may have got anywhere, and the link may
\* have been replaced.  The pipeline starts the same release again, once, unless
\* the job was cancelled; what the script had read is lost.
StartAgain(j) ==
  /\ j \notin retried
  /\ retried' = retried \cup {j}
  /\ pc' = [pc EXCEPT ![j] = "queued"]
  /\ previous' = [previous EXCEPT ![j] = None]
  /\ report' = "killed"
  /\ lock' = IF lock = j THEN Free ELSE lock

Kill(j) ==
  /\ pc[j] \notin {"queued", "ended"}
  /\ \/ UNCHANGED <<current, running>>
     \/ pc[j] = "up" /\ ComposeFails(j) /\ UNCHANGED current
     \/ pc[j] = "roll_back" /\ ComposeFails(previous[j]) /\ UNCHANGED current
     \/ pc[j] = "link" /\ current' = j /\ UNCHANGED running
  /\ \/ End(j, "killed") /\ UNCHANGED <<previous, retried>>
     \/ StartAgain(j)

Step(j) ==
  \/ Acquire(j) \/ ReadPrevious(j) \/ Up(j) \/ Ready(j) \/ Link(j)
  \/ RollBack(j) \/ RolledReady(j)

DeploymentNext == \E j \in Jobs : Step(j) \/ Kill(j)

DeploymentSpec == DeploymentInit /\ [][DeploymentNext]_deploymentVars

\* Every step of the script comes to an end, the waits by their attempts; each
\* job asks for the lock twice at most, so that it gets it after the others.
FairDeploymentSpec == DeploymentSpec /\ \A j \in Jobs : WF_deploymentVars(Step(j))

-----------------------------------------------------------------------------
\* When the link changes, the containers of the release it names run: no other
\* job has started its own since this one saw them ready (deploy.sh:33, 137-140).
LinkNamesRunning == [][current' # current => running = current']_deploymentVars

\* The link, which the next rollback goes back to, never names a release that
\* is never ready, whatever other jobs failed or were killed.
CurrentWasReady == current \notin Unready

\* Whatever was killed between the containers and the link, or after it, another
\* job or an earlier start of this one, a job that ends as deployed leaves the
\* link and the containers with the same release (deploy.sh:137-143): what the
\* link names need not be what runs, so that no start may rely on it.
DeployedRunsCurrent == (lock = Free /\ report = "deployed") => running = current

\* No job waits for ever, neither for the lock nor for a release.
JobsEnd == \A j \in Jobs : <>(pc[j] = "ended")

\* What the script reports after a failed deployment, "Rolled back %s to %s."
\* (deploy.sh:122): the release the link names runs again.
RolledBackRunsCurrent == (lock = Free /\ report = "rolled_back") => running = current
=============================================================================

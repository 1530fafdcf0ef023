# Registry verification

TLA+ models of the LiveShop module registry (`business/backend`, `ci`), checked
with TLC on small instances and, where a theorem is stated, proved with TLAPS for
every value of the constants. Paths below are relative to `business/backend`
unless they start with `ci/`.

Checking by hand, in this directory:

    tlc -workers 2 -config ReleaseContract.cfg MCReleaseContract.tla
    tlapm ReleaseContractProofs.tla

`PROJECT.json` lists every run, the source lines behind every definition (`map`),
a mutant that breaks each property (`mutants`), the hazards of the code and the
theorems.

## The system

The registry keeps one aggregate: a revision, the registered releases of each
module, and the version that is active per module. Module pipelines register,
activate and deactivate releases over HTTP; the Gateway polls the routes of active
releases and Identity their capabilities over gRPC, which has no operation that
writes. Everything is stored in MySQL as one JSON row, with a second table that
lists the permission codes of active releases.

| Component | State it keeps | Operations | Hard behaviour | Correct when |
|---|---|---|---|---|
| registry aggregate (`internal/biz/model/release.go`) | revision, releases, active versions | `Register`, `Activate`, `Deactivate`, projections `Routes`, `Modules`, `CapabilityCatalogs`, `ActiveCapabilitySnapshot` | validation loops over maps whose order is random; boundaries of the prefix test | verdicts do not depend on the order; active sets are admissible; releases are immutable; a revision names one active set |
| release service (`internal/biz/release.go`) | none | guards in front of the repository | the platform guard exists only here | the control plane, once active, stays active |
| MySQL adapter (`internal/data/mysql`) | registry row, permission catalog | a locking transaction per write, retried; snapshot reads | concurrent writers, deadlocks, deadlines, broken connections, commits in doubt | it behaves like the aggregate behind one lock; row and catalog agree; the lock is given back |
| memory adapter (`internal/data/memory`) | the aggregate behind a mutex | same | none | not modelled |
| connection pool (`internal/app/dependencies.go`, `internal/data/mysql`, `internal/common/server`) | connections lent, borrowers that wait | borrow, wait, give back | writers that hold a connection while they wait for the row lock | no connection is lost; a pool full of waiting writers still makes progress; reads and probes do not wait for writers |
| snapshot readers (Gateway, Identity; other repositories) | the last snapshot | poll, apply | delayed and lost replies | equal revisions mean equal releases |
| server lifecycle (`internal/app/run.go`, `internal/common/grpcserver`, `internal/common/server`) | both servers, health status, connection pool | start, serve, stop | the serving goroutine races with shutdown; requests that do not finish | nobody waits for an answer without a database; health is honest; the process ends |
| certificate job (`cmd/grpccerts`, `tools/up-local.ps1`) | files on a volume that outlives it | inspect, reuse, replace | killed between any two system calls; root without `CAP_DAC_OVERRIDE` | success means a servable bundle; a valid CA is kept; a failure can be repaired |
| deployment script (`ci/deploy.sh`) | host lock, `current` link, containers | deploy, roll back | several pipelines on a host; steps that fail; kills and the retry after one | the link names what runs and was ready; the lock is given back |
| transport (`internal/controlplane/provisioning`, `internal/common/web`) | the exchange in progress | map a request to a call, an outcome to a status or code | a commit in doubt must get a status that claims nothing; two views of one revision over two transports | a definite status is true, now and later; a reader is never blamed; replies of one revision agree |
| workload authorization (`internal/common/grpcauth`, `internal/common/middleware`, `internal/app/dependencies.go`) | two tables built at start | decide who may ask for what | key ids and SPIFFE IDs that coincide | nobody gets through without a grant of its own; the two snapshots stay with one reader each |
| configuration (`internal/config`, `internal/app/bootstrap.go`) | none | validate, assemble | rules that only together keep the tables apart | a configuration that starts gives the tables their meaning |
| migration script (`tools/migrate.sh`, `migrations`, `deploy/compose.local.yml`) | records, tables, the registry row | check, apply statement by statement, record | broken off between any two statements, run again under a registry in use | a recorded file is complete; a broken-off job hinders no later one; the row survives |
| build scripts (`ci/build.sh`, `ci/prepare-contexts.sh`, `tools/down-local.ps1`) | none | build, clean up | none | not modelled |

They interact by calls (transport to service to adapter), by the two tables
(writers among each other and with readers), by the connections of the pool (writers,
readers and readiness probes), by polling (readers), by the health status and the
two drains (lifecycle), by the certificate volume (job and servers), by the schema
(migration job and registry), and by the host lock and the `current` link
(pipelines).

## The modules

| Module | Models | Extends or instantiates |
|---|---|---|
| `RoutePrefix` | normalisation and overlap of route prefixes | |
| `RegistryState` | the aggregate and the service's guards, each operation as a result and an effect | `RoutePrefix` |
| `RegistryInstance` | the documents the instances share | |
| `ActiveSetValidation` | the two validation loops, one step per route and page | `RegistryState` |
| `ReleaseContract` | abstract specification: what callers of `ReleaseRepository` may rely on | `RegistryState` |
| `MySQLReleaseRepository` | the adapter, one step per statement | `RegistryState`; `INSTANCE ReleaseContract` as its abstract specification |
| `SnapshotConsumers` | the contract composed with polling readers | `ReleaseContract` |
| `WorkloadAuthorization` | the rules of the configuration, the tables of both transports and their decisions | |
| `Provisioning` | the contract composed with configuration, authorization and both transports | `ReleaseContract`, `WorkloadAuthorization` |
| `ConnectionPool` | who holds and awaits connections and the row lock | |
| `ServerLifecycle` | start and stop of the process | |
| `Migration` | runs of the migration job, and the registry behind them | |
| `CertificateBundle` | runs of the certificate job | |
| `Deployment` | pipelines that run the deployment script | |
| `MC*` | instances for TLC | their subject |
| `RegistryStateProofs` | what the operations of the aggregate preserve, and what prefixes serve; cited by the proofs of all modules built on the aggregate | `RegistryState`, `TLAPS` |
| `ReleaseContractProofs`, `MySQLReleaseRepositoryProofs`, `ActiveSetValidationProofs` | theorems and proofs | their subject, `RegistryStateProofs` |
| `ConnectionPoolProofs` | theorems and proofs | `ConnectionPool`, `TLAPS` |
| `ProvisioningProofs` | theorems about what is built on the contract | `Provisioning`, `SnapshotConsumers`, `ReleaseContractProofs` |
| `LifecycleProofs` | theorems about the process and the script that deploys it | `ServerLifecycle`, `Deployment` |
| `JobProofs` | theorems about the jobs that run before the registry | `Migration`, `CertificateBundle` |

Operators whose comment begins with "Mutant:" are the plausible bugs that
`PROJECT.json` substitutes for the definition they stand before. No specification
uses them.

### How state and actions correspond to the code

**RegistryState.** A state is the Go struct with the document of a release
reduced to what the operations read: identity, digest, whether it decodes and
validates, routes, pages with a navigation entry, permissions. `RegisterResult` is
the error `Register` returns, `RegisterEffect` the struct it leaves; likewise for
the other two. `Admission` is the chain of early returns in `biz.Release`. The
audited variants decide alike, and neither repository uses the actor.

**ActiveSetValidation.** `validateActiveRoutes` and
`validateActiveNavigationGroups` range over Go maps. Each step visits any route or
page not yet visited, the owner and group tables are the maps the loops fill, and
the verdict must equal the one that `RegistryState` states over the whole set.

**ReleaseContract.** A client's request is pending until it takes effect (`Apply`)
or is refused; `Doubt` and `TakeEffectLate` are the COMMIT whose answer was lost.
Only one request can be in doubt, because its transaction still holds the row.

**MySQLReleaseRepository.** `pc` walks through `transaction` and `transactionOnce`:
`Load` (`SELECT ... FOR UPDATE`), `Decide` (the aggregate's operation in memory),
`PublishPermission` per code and `RetirePermissions` (`syncPermissionCatalog`),
`Persist`, `Commit`. `Conflict` and `Retry` are deadlocks and lock waits;
`Abandon` is any end without an answer from the server: deadline, caller gone,
crash, broken connection. The server then holds the lock until `SettleRollback` or
`SettleCommit`. The refinement maps a worker's attempt to a pending call, the
committed row to `state` and the transaction in doubt to `late`.

**SnapshotConsumers.** A poll reads one committed state; its reply is a pair of a
revision and the projection, and may be installed after any number of changes.

**WorkloadAuthorization.** A configuration is a record of what `Validate` reads.
`Trusted` is the map `trustedWorkloads` builds by key id, where the last entry wins;
`IdentitiesDistinct` is what `grpcauth.New` refuses; `HTTPVerdict` and `GRPCVerdict` are
the middleware chain and the interceptor in the order of their checks. White space
around ids, which both trim, is left out. `Verifier.Authorize` is a library: a token
carries a key id and a subject and verifies with one key.

**Provisioning.** `Start` is `bootstrap` up to the servers. A request is turned away
(`TurnAway`), becomes a call of the contract (`CallService`, `Work`, `Settle`, `Respond`)
or a read of one snapshot (`BeginRead`, `Read`, `AnswerRead`), and its outcome becomes a
status by `StatusOf`. `DomainStatus` and `DomainCode` are the two error tables; an error of the
repository is in neither, and becomes 503 over HTTP and `Internal` over gRPC. The
`effect` of an exchange is history: done, none, or open while a commit is in doubt.
The guard against a missing service in `logic.go` is never taken, since
`NewDependencies` always wires a repository; `Contributions` has no caller; the icon of a
navigation group is not part of the gRPC message.

**ConnectionPool.** `at` is what a goroutine inside `transaction`, `Snapshot` or the
readiness handler waits for or holds. `GiveBack` is `database/sql`'s: a returned
connection goes straight to somebody who waits, which of them is left open. `LockRow` is
the `SELECT ... FOR UPDATE` that waits on the transaction's own connection; `Expire` is
the end of any context or connection, after which the server may hold the lock for a
while (`Settle`). Idle connections and their life times change only which connection
is lent, and are left out.

**ServerLifecycle.** `main` is the position in `Run`, `serve` that of the goroutine
around `Serve`; `db` is opened by `NewDependencies` and closed by the deferred
`Close`. `health` is the status that `setServingStatus` sets. The gRPC transport and
the HTTP engine are libraries: they drain, and cut off what remains when
`shutdownTimeout` or the graceful-shutdown timeout passes. A listener that fails
leaves the connections it has.

**Migration.** `step` is the next statement of a job: the check of the record, the three
statements of the baseline, which MySQL commits one by one, and the record. `Break` ends
a job before any of them; a job may `Begin` again at any time, also beside another,
which is more than compose allows. Two releases may mount a different content of the file
(`DigestOf`). `ComposeUp` is the registry that `depends_on` the job's success and opens
the row; `Open` alone is the process started by itself.

**CertificateBundle.** A file is the CA it belongs to, whether it was written out,
and its owner. Each `chown`, `remove`, open and write is a step, and `Crash` may end
the run after any of them, which also stands for a system call that fails for a
reason of its own. The job is uid 0 with `CAP_CHOWN` only
(`deploy/compose.local.yml`), so that it reads, writes and removes only what uid 0
owns. The job deploys with `-owner`; `-force` is given after a failed run, by
`tools/up-local.ps1` or by whoever follows the message of main.go:58.

**Deployment.** A job is one run of the script and stands for the release it
deploys. `running` is the release whose containers run, `current` the one the link
names. `Unready` releases never answer; the others may answer or not. The
registration step is switched off for this module (`REGISTER_MODULE: false` in both
pipelines). A compose command that fails may have got anywhere, and so may one that
is killed with the script; since compose inherits the lock's descriptor, the lock is
free only when it has ended. A job that the runner kills is queued again by the
pipeline, once (`retry: max: 1`, for a failed runner and a timeout, in
`.gitlab-ci.yml`), with the same release directory and without what its first start
had read (`StartAgain`); one that is cancelled, or fails by itself, is not. The kill may
also come after the link was replaced, so that the second start finds the link naming
its own release.

## The runs

| Run | Question | Instance | Why it is enough |
|---|---|---|---|
| `ActiveSetValidation` | does the verdict depend on the map order, and does a conflict mean "they share a request"? | 3 modules, 5 variants of routes and pages each; all absolute prefixes up to 4 characters over two letters and `/` for two of them | every kind of conflict and agreement, between two and three modules, with icons in any order; equal, nested, sibling (`/s`, `/st`), root and trailing-slash pairs |
| `ReleaseContract` | do concurrent clients keep the registry's promises, and does an accepted activation repair an old active set? | 2 clients, 3 modules, 6 documents, revisions up to 3, one request in doubt; from a new registry and from every active set over the registered releases, valid or not | two documents of one version, an undecodable one, conflicts by route and by group, the control plane, repeated activation of the active version; two clients suffice for every pairwise race |
| `SnapshotConsumers` | is every active set admissible, and may a reader mix two of them? | 1 client, 1 Gateway, 1 Identity, revisions up to 3, one request in doubt | conflicting activations, late ones included; replies overtaken by activation, replacement and removal; the proofs cover any number |
| `MySQLReleaseRepository` | does the adapter implement the contract, row and catalog included? | 2 workers (symmetric), 2 modules, 3 documents, 2 permissions, 3 attempts, revisions up to 3 | both workers reach every statement, with all retries, abandoned attempts and one commit in doubt; documents conflict by route, group and permission |
| `MySQLReleaseRepositoryLive` | is every request answered, the lock given back? | 2 workers, 2 documents, 3 attempts, revisions up to 2 | liveness needs no more data than a write that competes with another |
| `Provisioning` | who gets through, under which configuration, and what may a caller conclude from an answer? | 2 clients (symmetric), 13 requests over both transports, revisions up to 3; 23 configurations and thirty or so callers, one at a time (`Sparse`), up to revision `MaxAlone` | an answer is judged against one other write or read at a time, and the write succeeds, is refused, fails and is in doubt; each rule of `Validate` is broken once, and key ids, keys, subjects and SPIFFE IDs coincide in every order, key ids also three times. A caller's admission reads the tables, not what others do, so that it need not be crossed with them |
| `ConnectionPool` | what goes on when the pool is full of waiting writers? | 2 connections, 4 writers, a read and a probe | one connection holds the lock or none does, the others wait, and there are borrowers of each kind in the queue |
| `Migration` | what do broken-off and competing jobs leave? | 3 jobs, one with an edited baseline, revisions up to 3 | a job that breaks off at each statement, one that starts over, one that overtakes it, with a registry serving or not |
| `ServerLifecycle` | shutdown against requests and the serving goroutine | 2 requests per server | one that finishes and one that does not |
| `CertificateBundle` | does every interrupted run leave something the next can use? | a CA, a certificate, a key; 4 generations, 2 runs cut short | each kind of file the inspection treats differently; the second crash hits a repair |
| `Deployment` | several pipelines, failures, kills and retries | 3 jobs, one release never ready | a job that deployed, one that fails or is killed, and one that waits for the lock; a second start that finds its own link and another job's containers |
| `DeploymentRollback` | expected violation, see below | same | |

`MaxRevision`, `MaxAttempts` (three in the code), `MaxCrashes` and `MaxInFlight` are
the only bounds; requests that do not change the revision are still served at the
limit. The one retry of a job in `Deployment` is not a bound but the pipeline's. `CHECK_DEADLOCK FALSE` stands where the system stops: the loops and the
pairs are finite, the process exits or refuses its configuration, the jobs end.

### Properties

*Validation*: `VerdictIsOrderFree`, `RefusedIsContested` (the routes of a set are
refused exactly when two releases would serve one request).
*ReleaseContract*: `ActiveAdmissible` (run `SnapshotConsumers`),
`AcknowledgedReleaseKept`, `ReleasesImmutable`, `RevisionCountsActiveSets`,
`PlatformStaysActive`, `AcceptedActivationAdmissible`. *SnapshotConsumers*:
`GrantedIsReachable` (Identity grants only what the Gateway routes to at the same
revision), `ViewsNeverRegress`. *MySQL adapter*: `TypeOK` with the limit of the
attempts, `LoadedRowIsCurrent` (what a transaction decides on is the
committed row until it commits), `CatalogMatchesActive` (an active code belongs to
the active release that declares it and the other way round),
`PermissionOwnerKept`, `ImplementsContract`, `EveryRequestAnswered`,
`RowLockReleased`. *Provisioning*: `GrantedOnly` (nobody gets through over HTTP
without an entry of its own that grants the operation), `SnapshotsSeparate` (each
gRPC snapshot has one reader), `ListedWorkloadServed` (a listed workload is shut out
exactly when the last entry with its key id is a different one, or lacks the
permission), `DefiniteAnswers` (200 has happened, 4xx never
will), `ReadsNeverBlamed`, `RepliesAgree` (answers of one revision agree, over either
transport). *Pool*: `PoolAccounted`, `NeverStuck` (some goroutine can go on without
the help of a deadline), `ReadsPassWriters`. *Migration*: `RecordedIsComplete`,
`ServingIsMigrated`, `RowKept`. *Lifecycle*: `NoRequestWithoutDatabase`, `HealthHonest`,
`ProcessEnds`. *Certificates*: `SuccessIsServable`, `NeverDenied`,
`ValidAuthorityKept`, `FailureIsRepaired`. *Deployment*: `CurrentWasReady`,
`DeployedRunsCurrent` (after a job that ends as deployed, the link names what runs,
whatever a killed job, or the killed first start of this one, left; its mutant, which
takes what the link names to be running, fails only after kills), `LinkNamesRunning`,
`JobsEnd`.

### Fairness

- MySQL adapter: a worker's steps are taken because each attempt has a deadline
  (`context.WithTimeout`, 10 s), the back-off is a timer, and the server rolls back or
  settles the transaction of a connection it has lost.
- Connection pool: a read that has its connection is answered (a plain `SELECT` takes
  no row lock, a ping reads nothing). Nothing is asked of writers, and no deadline is
  used: the properties ask what happens before one expires. A borrower that queues
  is not promised a connection: `database/sql` hands them over, but in no order the
  code could rely on, and 2 s and 5 s deadlines end the wait.
- Migration and Provisioning: safety only.
- Lifecycle: both goroutines are scheduled, and the two drains have deadlines.
  Requests need not finish.
- Certificates: a run proceeds (weak), and a forced run happens in the end
  (strong), because deployments may keep starting runs of their own in between.
  Killed runs are bounded by `MaxCrashes`; nothing succeeds while every run is
  killed.
- Deployment: each step of a script ends, the waits after 120 and 180 attempts. Each
  job asks for the lock at most twice, so that weak fairness is enough for it to get it.

### A disagreement between code and message

`ci/deploy.sh` calls `activate_release` for a rollback as the condition of an `if`
(line 121), after `set +e`. There a failing `docker compose pull` or `up` does not end
the function, and the readiness of whatever listens decides. When the deployment
failed after its containers were up (a wait that timed out, a link that could not be
made), a rollback whose compose commands fail reports "Rolled back ... to ..." while
the failed release still runs. `DeploymentRollback` shows the steps.

### A check that is weaker than it says

The comment at `internal/data/mysql/release.go:26-27` says that a process never starts
against an unmigrated database. The process asks for the registry row only, and the
baseline inserts the row before it creates `platform_permission_catalog`, in statements that
commit one by one. What keeps `ServingIsMigrated` true is `depends_on:
service_completed_successfully` in `deploy/compose.local.yml`; the run's mutant, a
registry started by itself, serves from half a schema.

## What is proved

For every set of modules, versions, documents, clients, workers, readers,
configurations, connections, pipelines and any number of requests, under the named
assumptions of the modules (documents name known modules; the markers for "absent"
are not values; the pool has at least one connection):

- `RegistryStateProofs`, of the operations and the prefixes themselves: `RetryTheorem`,
  `NormalFormTheorem`. `RetryTheorem` is what a caller relies on who repeats a request
  that was answered "unavailable": the second time changes nothing, the revision
  included. `NormalFormTheorem` says what the normalisation is for; it rests on a lemma on
  `TrimSlashes` (the longest prefix that does not end in a slash), as does the lemma
  that two normal forms overlap exactly when some path is served by both, since the
  longer of them is itself such a path (`ServedByBoth`, `LongerIsServed`), and the one
  that a prefix serves the same paths in the form the Gateway gets and in the form
  `Activate` compares (`TrimmedServesAlike`). `OneOwner` draws them together: in an
  admissible set no request outside the cluster has two owners.
- `ReleaseContractProofs`: `TypeCorrect`, `AlwaysAdmissible`, `AlwaysAcknowledged`,
  `Immutability`, `RevisionTheorem`, `PlatformTheorem`, `RepairTheorem`. The inductive
  invariant is `IInv == TInv /\ ActiveAdmissible /\ AcknowledgedReleaseKept`, where
  `TInv` adds to the types that only admitted requests are pending or in doubt; without
  it a late deactivation could name the control plane. The lemmas say what each
  operation of the aggregate preserves: registration leaves the active set alone, an
  accepted activation has been validated with the set it installs, and a deactivation
  leaves a subset, for which admissibility is inherited (`AdmissibleBelow`). What follows
  for routers and callers: `RoutingTheorem` (one owner per request, for every path),
  `RequestOwnerTheorem` (no request changes hands while the revision stays, although
  documents are registered meanwhile: `ActiveStep`), `RepairLastsTheorem` (a repaired
  database stays repaired; it needs typing alone, not how the database began) and
  `RepeatTheorem` (a stored document may be sent again at any later time).
- `MySQLReleaseRepositoryProofs`: `TypeTheorem`, `LockTheorem`, `CatalogTheorem`,
  `OwnerTheorem`, `RefinementTheorem`, `PromiseTheorem`, `DurabilityTheorem`. `IInv`
  says of the committed row that its active set is admissible and the catalog is the one
  it publishes (`RowInv`), of a transaction in doubt that it would leave such a row
  (`OrphanInv`), and of each worker (`WorkerInv`) that it serves an admitted request,
  that what it loaded is the row while it holds the lock, and how far its draft of the
  catalog has come. Admissibility is needed for the catalog: only in an admissible set
  does a code have one owner. The refinement is proved step by step: `Commit` and
  `SettleCommit` are the contract's `Apply` and `TakeEffectLate`, an abandoned commit
  its `Doubt`, statements stutter. Since the row changes only by the effect of one
  admitted request on the row (`RowMoves`), the lemmas about the aggregate give the
  contract's promises for the database too (`PromiseTheorem`: admissible, immutable, one
  active set per revision, control plane kept; `DurabilityTheorem`: a registration
  answered "ok" is stored with its digest).
- Also in `MySQLReleaseRepositoryProofs`, of the permissions: `ExclusiveTheorem` (a code
  an active release has declared is never afterwards declared by another module's, not
  even when its owner is deactivated, because the owner's row survives) and
  `SnapshotTheorem` (the catalog, kept row by row, and the snapshot, computed from the
  documents, say the same after every commit). Of the lock: `WaitTheorem` (who waits for it
  waits for a transaction that waits for nobody; its invariant `HolderWorks` is the
  converse of `LoadedRowIsCurrent`), `LetGoTheorem`, and `BoundedWorkTheorem`: each
  step of a worker uses up an attempt, a statement of the attempt or a permission to
  publish, and steps of others leave the worker as it is.
- `ActiveSetValidationProofs`: `VerdictTheorem`, `ContestTheorem`, `ActivationTheorem`.
  The invariant `LoopInv` has a part per loop. While the routes are visited, no two of
  those seen conflict (`RouteLoop`). While the pages are, each group has one entry,
  which agrees with every page visited of that group and comes from one of them, its
  icon from any that has one (`PageLoop`): two icons that conflict only by way of a
  third page without an icon are then found whichever is seen first. `ContestTheorem` is
  about prefixes of any length, by the lemmas of `RegistryStateProofs`.
  `ActivationTheorem` joins the two levels: over the set an activation would install, the
  loops end with what `ActivateResult` says in two quantified formulas, on which every
  other module builds.
- `ProvisioningProofs`: `DefiniteTheorem`, `GrantTheorem`, `SeparationTheorem`,
  `BlameTheorem`, `ListedTheorem`, `AgreementTheorem`. By the way the modules are composed
  every step of the surface is one of the contract or leaves it alone (lemma
  `Composition`), so that what `ReleaseContractProofs` shows holds here too; the invariant `PInv` adds how an
  exchange and its call keep in step, and that a request in service was let through.
  `BlameTheorem` needs the aggregate's invariant: a read fails only when an active
  version is not registered. For `AgreementTheorem` a comparison of two answers is not
  inductive, since it says nothing of the answer the next read will give. `AgreeInv`
  adds that an answer is not newer than the state, and that one of the current revision
  says what the state shows now; a step that leaves the revision leaves what is shown of
  the active releases (registrations change the rest of the catalog), and a step that
  moves it makes every answer an old one.
- Also in `ProvisioningProofs`, of the readers: `ReachabilityTheorem`,
  `MonotoneTheorem`, over the contract's own invariant (lemma `ConsumersObserve`: readers
  are composed so that they leave the contract as it is). The invariant `CInv`
  says that no reply or view is from the future, that those of one revision are
  projections of one active set, that a granted capability names a registered release,
  and that a reply is not older than the view it will replace. `GatewayTheorem` carries
  `RoutingTheorem` to the readers: with snapshots of any age, a Gateway finds one module for
  a request, two Gateways of one revision find the same, and at the current revision it is
  the one whose active release serves it. Its invariant `GInv` says of all that readers
  hold or are about to get that, revision by revision, it leaves no request two ways
  (`Unambiguous`).
- `ConnectionPoolProofs`: `PoolTypeTheorem`, `AccountTheorem`, `LockTheorem`,
  `ProgressTheorem`. The invariant is `TypeOK /\ PoolAccounted /\
  LockIsHeldOnConnection`. `ProgressTheorem` is the non-temporal content of
  `NeverStuck`: when a goroutine is busy, one of them is in a state in which it waits
  for nobody, or the server is about to free the lock.
- `LifecycleProofs`, of the process: `DatabaseTheorem`, `HealthTheorem`. The invariant
  relates the position of `Run` to what exists already (`NotYet`) and what has drained
  (`Drained`). Of the script: `LinkReadyTheorem`, `LinkRunningTheorem`,
  `DeployedTheorem`. A job between the lock and its end is alone (`Alone`); since it saw
  its release ready, no other has touched the containers (`SawReady`, `LinksReady`).
  `ExitTheorem`: on every way out the pool is closed, both servers are stopped and no
  client waits. `QueueTheorem`: the lock is always with a job at work, whichever failed or
  was killed, and each step takes its job further, or back by the retry it has not yet used.
- `JobProofs`, of the migration: `RecordTheorem`, `MigratedTheorem`, `RowTheorem`, for
  any number of jobs beside each other. `MigrationInv` says of each job which statements
  lie behind it (`BehindIt`); since no statement takes back what another made
  (`MigrationGrows`), this stays true whatever the others do. Of the certificates:
  `ServableTheorem`, `AccessTheorem`, `AuthorityTheorem`, for a bundle of any number of
  files and runs that end anywhere any number of times. `BundleInv` has a part per
  phase; the one that carries the rest is `OneAuthority`: what is on the volume is
  always of one CA, because a run writes only when it has removed everything. Therefore
  a run that finds every file usable has found one bundle, although it compares no file
  with another. `ChecksumTheorem`: the record of a migration is written once, and a job
  with an edited file never ends as successful. `RotationTheorem`: a forced run that is not
  broken off ends with a new bundle, whatever it finds. `RunEndsTheorem`: a run has a next
  step wherever it is, its file, owner or fresh CA at hand, and each step takes it to a
  later phase or leaves less to do in this one.

Named assumptions that are more than typing: among the paths of requests is one for
every prefix itself (`PathAssumption`; a client may ask for it); a page has the
fields of a navigation entry and no other (`PageAssumption`); there are more CAs than files
(`BundleAssumption`; a key pair is random, so one is always fresh); two jobs may mount
different contents (`MigrationAssumption`); the prefix of a route is a sequence of
strings (`PrefixAssumption`), one per character.

Only model-checked: the liveness properties and `NeverStuck`, which is stated with
`ENABLED`; both are out of the prover's reach. Every other property of a passing run is
a theorem. For most of the liveness properties the facts that make them true are theorems
for every size, so that TLC's runs add only the step from "each step gets nearer, and
nobody waits in a circle" to "in the end", under the fairness above:

| Only model-checked | What is proved of it |
|---|---|
| `EveryRequestAnswered` | `BoundedWorkTheorem`: no worker is set back, and its steps are bounded; `WaitTheorem`: who waits, waits for one that does not |
| `RowLockReleased` | `WaitTheorem`: an idle, answered or backing-off worker never has the lock; `LetGoTheorem`: it becomes free, or the server's to settle, before it is taken again |
| `NeverStuck` | `ProgressTheorem`: the same in terms of states that wait for nobody |
| `FailureIsRepaired` | `RotationTheorem`, `RunEndsTheorem`: a forced run has a next step until it ends with a new bundle |
| `JobsEnd` | `QueueTheorem` |
| `ProcessEnds`, `ReadsPassWriters` | nothing |

## What is not modelled

- The memory adapter: a mutex around the aggregate, `ReleaseContract` without
  failures. It is used by tests only.
- The build scripts, which keep no state.
- Of the transport: descriptive fields, localised messages, response envelopes and
  unknown HTTP routes. Of authorization: signatures, expiry and issuer of tokens and the
  TLS handshake, which libraries check. Of the configuration: reading and decoding the
  file. Of the lifecycle: the registration of surfaces and the TLS material.
- Time as a quantity: that the two drains of a shutdown follow each other, and together
  may outlast the grace period of the host, is listed as a hazard without a property.
- The edit of a baseline between two releases is in `Migration` (two contents), where
  the record says which content was applied last, not that the tables have its form:
  `CREATE TABLE IF NOT EXISTS` keeps a table a broken-off job of the other content has
  made. No text of the repository promises otherwise.
- Descriptive columns, display names, ordering of projections, formatting and
  logging. TLS, the gRPC transport, the HTTP engine, MySQL, `database/sql` and Unix are
  external and modelled from how the code uses them.

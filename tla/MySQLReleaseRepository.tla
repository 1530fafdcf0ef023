----------------------- MODULE MySQLReleaseRepository ----------------------
(***************************************************************************)
(* The MySQL adapter (internal/data/mysql): the whole aggregate is one row *)
(* of platform_registry_state, the permissions of active releases are rows *)
(* of platform_permission_catalog, and every write is a transaction that   *)
(* locks the row, loads it, applies one operation of the aggregate and     *)
(* persists the result, tried at most MaxAttempts times.                   *)
(*                                                                         *)
(* A worker is a request goroutine.  The statements of a transaction are   *)
(* its steps; between two of them the deadline may pass, the caller may    *)
(* hang up, the process may crash or the connection may break (Abandon),   *)
(* and the server may report a deadlock or a lock wait (Conflict).  The    *)
(* server outlives the connection: it holds the row lock until it has      *)
(* rolled the abandoned transaction back, or has settled a COMMIT whose    *)
(* answer was lost.                                                        *)
(***************************************************************************)
EXTENDS RegistryState

CONSTANTS Workers,
          Traffic,       \* the requests that arrive
          Permissions,   \* permission codes
          NoRequest, NoResult, NoState, NoOwner, NoOrphan,
          Free,          \* nobody holds the row lock
          Server,        \* the server holds it for a transaction nobody waits for
          MaxAttempts,   \* maxTransactionAttempts
          MaxRevision    \* bound: no request is admitted from here on

Entries == [owner : Modules \cup {NoOwner}, active : BOOLEAN, version : Versions \cup {NoVersion}]
Catalogs == [Permissions -> Entries]
EmptyCatalog == [p \in Permissions |-> [owner |-> NoOwner, active |-> FALSE, version |-> NoVersion]]

Orphans == [request : Requests, row : RegistryStates, catalog : Catalogs]

ASSUME RepositoryAssumption ==
  /\ Traffic \subseteq Requests
  /\ \A m \in Manifests : m.permissions \subseteq Permissions
  /\ MaxAttempts \in Nat \ {0}
  /\ MaxRevision \in Nat
  /\ NoRequest \notin Requests
  /\ NoResult \notin Outcomes
  /\ NoOrphan \notin Orphans
  /\ NoState \notin RegistryStates
  /\ NoOwner \notin Modules
  /\ Free # Server /\ {Free, Server} \cap Workers = {}

VARIABLES
  row,       \* committed registry row
  catalog,   \* committed permission catalog
  lock,      \* holder of the lock SELECT ... FOR UPDATE takes on the row
  orphan,    \* the transaction whose COMMIT was sent and not answered
  pc,        \* per worker: the next step of its transaction
  request,   \* per worker: the request it serves
  result,    \* per worker: the answer
  attempt,   \* per worker: attempts begun
  local,     \* per worker: the loaded aggregate, later with the operation applied
  draft,     \* per worker: the catalog as its transaction sees it
  todo       \* per worker: permissions syncPermissionCatalog has yet to publish

serverVars == <<row, catalog, lock, orphan>>
workerVars == <<pc, request, result, attempt, local, draft, todo>>
vars == <<row, catalog, lock, orphan, pc, request, result, attempt, local, draft, todo>>

InTransaction == {"load", "decide", "catalog", "persist", "commit", "commit_nothing"}
Holding == InTransaction \ {"load"}
Pcs == {"idle", "backoff", "answered"} \cup InTransaction

TypeOK ==
  /\ row \in RegistryStates
  /\ catalog \in Catalogs
  /\ lock \in Workers \cup {Free, Server}
  /\ orphan \in Orphans \cup {NoOrphan}
  /\ pc \in [Workers -> Pcs]
  /\ request \in [Workers -> Requests \cup {NoRequest}]
  /\ result \in [Workers -> Outcomes \cup {NoResult}]
  /\ attempt \in [Workers -> 0..MaxAttempts]
  /\ local \in [Workers -> RegistryStates \cup {NoState}]
  /\ draft \in [Workers -> Catalogs]
  /\ todo \in [Workers -> SUBSET Permissions]

Init ==
  /\ row = NewRegistryState
  /\ catalog = EmptyCatalog
  /\ lock = Free
  /\ orphan = NoOrphan
  /\ pc = [w \in Workers |-> "idle"]
  /\ request = [w \in Workers |-> NoRequest]
  /\ result = [w \in Workers |-> NoResult]
  /\ attempt = [w \in Workers |-> 0]
  /\ local = [w \in Workers |-> NoState]
  /\ draft = [w \in Workers |-> EmptyCatalog]
  /\ todo = [w \in Workers |-> {}]

-----------------------------------------------------------------------------
\* The ways a step leaves the control of its worker.

GoTo(w, step) == pc' = [pc EXCEPT ![w] = step] /\ UNCHANGED <<request, result>>

Reply(w, outcome) ==
  /\ pc' = [pc EXCEPT ![w] = "answered"]
  /\ result' = [result EXCEPT ![w] = outcome]
  /\ UNCHANGED request

\* What the worker worked on is gone with its transaction.
DropWork(w) ==
  /\ local' = [local EXCEPT ![w] = NoState]
  /\ draft' = [draft EXCEPT ![w] = EmptyCatalog]
  /\ todo' = [todo EXCEPT ![w] = {}]

KeepWork == UNCHANGED <<local, draft, todo>>

\* Mutant: a refusal leaves its transaction open.
UnlockNothing(w) == UNCHANGED lock

\* ROLLBACK reached the server, or there was nothing to roll back.
Unlock(w) == lock' = IF lock = w THEN Free ELSE lock

-----------------------------------------------------------------------------
\* A request arrives; biz.Release answers it or calls the repository, whose
\* transaction begins its first attempt.
Submit(w, req) ==
  /\ pc[w] = "idle"
  /\ row.revision < MaxRevision \/ Admission(req) # "admitted"
  /\ request' = [request EXCEPT ![w] = req]
  /\ IF Admission(req) = "admitted"
     THEN /\ pc' = [pc EXCEPT ![w] = "load"]
          /\ attempt' = [attempt EXCEPT ![w] = 1]
          /\ UNCHANGED result
     ELSE /\ pc' = [pc EXCEPT ![w] = "answered"]
          /\ result' = [result EXCEPT ![w] = Admission(req)]
          /\ UNCHANGED attempt
  /\ KeepWork
  /\ UNCHANGED serverVars

\* Mutant: the row is read without FOR UPDATE; the lock comes with the UPDATE.
LoadUnlocked(w) ==
  /\ pc[w] = "load"
  /\ local' = [local EXCEPT ![w] = row]
  /\ draft' = [draft EXCEPT ![w] = catalog]
  /\ GoTo(w, "decide")
  /\ UNCHANGED <<row, catalog, lock, orphan, attempt, todo>>

\* SELECT ... FOR UPDATE waits for the lock and reads the committed row.
Load(w) ==
  /\ pc[w] = "load"
  /\ lock = Free
  /\ lock' = w
  /\ local' = [local EXCEPT ![w] = row]
  /\ draft' = [draft EXCEPT ![w] = catalog]
  /\ GoTo(w, "decide")
  /\ UNCHANGED <<row, catalog, orphan, attempt, todo>>

\* The operation of the aggregate, in memory.  A refusal rolls back; repeating
\* the active version commits without a write; activation and deactivation go
\* on to the catalog, registration straight to the row.
Decide(w) ==
  LET req     == request[w]
      outcome == Result(req, local[w])
      next    == Effect(req, local[w])
  IN  /\ pc[w] = "decide"
      /\ \/ /\ outcome # "ok"
            /\ Unlock(w)
            /\ DropWork(w)
            /\ Reply(w, outcome)
         \/ /\ outcome = "ok"
            /\ req.kind = "activate"
            /\ next.revision = local[w].revision
            /\ GoTo(w, "commit_nothing")
            /\ KeepWork
            /\ UNCHANGED lock
         \/ /\ outcome = "ok"
            /\ req.kind = "activate" => next.revision # local[w].revision
            /\ local' = [local EXCEPT ![w] = next]
            /\ todo' = [todo EXCEPT ![w] =
                          IF req.kind = "activate"
                          THEN next.releases[req.module][req.version].permissions
                          ELSE {}]
            /\ GoTo(w, IF req.kind = "register" THEN "persist" ELSE "catalog")
            /\ UNCHANGED <<lock, draft>>
      /\ UNCHANGED <<row, catalog, orphan, attempt>>

\* Mutant: a duplicate key rewrites the row whoever owns it.
PublishPermissionOfAnyone(w, p) ==
  LET req == request[w]
  IN  /\ pc[w] = "catalog"
      /\ p \in todo[w]
      /\ draft' = [draft EXCEPT ![w][p] =
                     [owner |-> req.module, active |-> TRUE, version |-> req.version]]
      /\ todo' = [todo EXCEPT ![w] = @ \ {p}]
      /\ UNCHANGED <<lock, local, pc, request, result>>
      /\ UNCHANGED <<row, catalog, orphan, attempt>>

\* INSERT ... ON DUPLICATE KEY UPDATE publishes one permission unless another
\* module owns its code; the SELECT behind it finds that out and fails.
PublishPermission(w, p) ==
  LET req == request[w]
  IN  /\ pc[w] = "catalog"
      /\ p \in todo[w]
      /\ \/ /\ draft[w][p].owner \in {NoOwner, req.module}
            /\ draft' = [draft EXCEPT ![w][p] =
                           [owner |-> req.module, active |-> TRUE, version |-> req.version]]
            /\ todo' = [todo EXCEPT ![w] = @ \ {p}]
            /\ UNCHANGED <<lock, local, pc, request, result>>
         \/ /\ draft[w][p].owner \notin {NoOwner, req.module}
            /\ Unlock(w)
            /\ DropWork(w)
            /\ Reply(w, "unavailable")
      /\ UNCHANGED <<row, catalog, orphan, attempt>>

\* Mutant: deactivation retires the codes the release does not declare, too.
DeclaredByActive(w) ==
  IF request[w].kind = "activate"
  THEN local[w].releases[request[w].module][request[w].version].permissions
  ELSE row.releases[request[w].module][row.active[request[w].module]].permissions

\* What the release the module has from now on declares.
Declared(w) ==
  IF request[w].kind = "activate"
  THEN local[w].releases[request[w].module][request[w].version].permissions
  ELSE {}

\* One UPDATE retires the codes of the module that the release no longer
\* declares, all of them when it declares none or is deactivated.
RetirePermissions(w) ==
  /\ pc[w] = "catalog"
  /\ todo[w] = {}
  /\ draft' = [draft EXCEPT ![w] =
       [p \in Permissions |->
          IF @[p].owner = request[w].module /\ p \notin Declared(w)
          THEN [@[p] EXCEPT !.active = FALSE]
          ELSE @[p]]]
  /\ GoTo(w, "persist")
  /\ UNCHANGED <<serverVars, attempt, local, todo>>

\* UPDATE of the row: pending until COMMIT.
Persist(w) ==
  /\ pc[w] = "persist"
  /\ GoTo(w, "commit")
  /\ UNCHANGED <<serverVars, attempt, local, draft, todo>>

Commit(w) ==
  /\ pc[w] = "commit"
  /\ row' = local[w]
  /\ catalog' = draft[w]
  /\ lock' = Free
  /\ Reply(w, "ok")
  /\ DropWork(w)
  /\ UNCHANGED <<orphan, attempt>>

CommitNothing(w) ==
  /\ pc[w] = "commit_nothing"
  /\ lock' = Free
  /\ Reply(w, "ok")
  /\ DropWork(w)
  /\ UNCHANGED <<row, catalog, orphan, attempt>>

-----------------------------------------------------------------------------
\* Failures.

\* Error 1213 or 1205: the transaction is rolled back and backs off.
Conflict(w) ==
  /\ pc[w] \in {"load", "catalog", "persist"}
  /\ Unlock(w)
  /\ DropWork(w)
  /\ GoTo(w, "backoff")
  /\ UNCHANGED <<row, catalog, orphan, attempt>>

\* Mutant: one attempt too many.
RetryTooOften(w) ==
  /\ pc[w] = "backoff"
  /\ \/ /\ attempt[w] <= MaxAttempts
        /\ attempt' = [attempt EXCEPT ![w] = @ + 1]
        /\ GoTo(w, "load")
     \/ /\ attempt[w] > MaxAttempts
        /\ Reply(w, "unavailable")
        /\ UNCHANGED attempt
  /\ KeepWork
  /\ UNCHANGED serverVars

\* Mutant: attempts are not counted.
RetryForever(w) ==
  /\ pc[w] = "backoff"
  /\ GoTo(w, "load")
  /\ UNCHANGED attempt
  /\ KeepWork
  /\ UNCHANGED serverVars

\* The back-off timer fires: another attempt, or the last error is returned.
Retry(w) ==
  /\ pc[w] = "backoff"
  /\ \/ /\ attempt[w] < MaxAttempts
        /\ attempt' = [attempt EXCEPT ![w] = @ + 1]
        /\ GoTo(w, "load")
     \/ /\ attempt[w] = MaxAttempts
        /\ Reply(w, "unavailable")
        /\ UNCHANGED attempt
  /\ KeepWork
  /\ UNCHANGED serverVars

\* The deadline of the attempt, the end of the caller's context, the end of the
\* process or any other error: not retried.  The server finds out later; a
\* SELECT that waited when its connection broke may still be granted the lock.
Abandon(w) ==
  /\ pc[w] \in InTransaction \cup {"backoff"}
  /\ \/ lock' = IF lock = w THEN Server ELSE lock
     \/ pc[w] = "load" /\ lock = Free /\ lock' = Server
  /\ DropWork(w)
  /\ Reply(w, "unavailable")
  /\ UNCHANGED <<row, catalog, orphan, attempt>>

\* Mutant: the lock is taken to be free once nobody waits for the COMMIT.
LoseCommitUnlocking(w) ==
  /\ pc[w] = "commit"
  /\ lock' = Free
  /\ orphan' = [request |-> request[w], row |-> local[w], catalog |-> draft[w]]
  /\ DropWork(w)
  /\ Reply(w, "unavailable")
  /\ UNCHANGED <<row, catalog, attempt>>

\* COMMIT was sent; its answer is lost.
LoseCommit(w) ==
  /\ pc[w] = "commit"
  /\ lock' = Server
  /\ orphan' = [request |-> request[w], row |-> local[w], catalog |-> draft[w]]
  /\ DropWork(w)
  /\ Reply(w, "unavailable")
  /\ UNCHANGED <<row, catalog, attempt>>

\* The server executes the COMMIT it received.
SettleCommit ==
  /\ orphan # NoOrphan
  /\ row' = orphan.row
  /\ catalog' = orphan.catalog
  /\ orphan' = NoOrphan
  /\ lock' = Free
  /\ UNCHANGED workerVars

\* The server rolls back a transaction whose connection is gone.
SettleRollback ==
  /\ lock = Server
  /\ lock' = Free
  /\ orphan' = NoOrphan
  /\ UNCHANGED <<row, catalog>>
  /\ UNCHANGED workerVars

\* The answer reaches the caller; the goroutine is done.
Return(w) ==
  /\ pc[w] = "answered"
  /\ pc' = [pc EXCEPT ![w] = "idle"]
  /\ request' = [request EXCEPT ![w] = NoRequest]
  /\ result' = [result EXCEPT ![w] = NoResult]
  /\ attempt' = [attempt EXCEPT ![w] = 0]
  /\ KeepWork
  /\ UNCHANGED serverVars

-----------------------------------------------------------------------------
Statement(w) ==
  \/ Load(w) \/ Decide(w)
  \/ \E p \in Permissions : PublishPermission(w, p)
  \/ RetirePermissions(w) \/ Persist(w)
  \/ Commit(w) \/ CommitNothing(w)

Fail(w) == Conflict(w) \/ Abandon(w) \/ LoseCommit(w)

Settle == SettleCommit \/ SettleRollback

Next ==
  \/ \E w \in Workers :
       \/ \E req \in Traffic : Submit(w, req)
       \/ Statement(w) \/ Fail(w) \/ Retry(w) \/ Return(w)
  \/ Settle

Spec == Init /\ [][Next]_vars

\* A transaction has a deadline, so that it makes a step or fails; the back-off
\* timer fires; an answer is sent; the server settles what was left to it.
Fairness ==
  /\ \A w \in Workers : /\ WF_vars(Statement(w) \/ Fail(w) \/ Retry(w))
                        /\ WF_vars(Return(w))
  /\ WF_vars(Settle)

FairSpec == Spec /\ Fairness

-----------------------------------------------------------------------------
\* The worker that holds the lock works on the row as it is committed: no other
\* transaction, nor a commit in doubt, changes it between load and commit.
LoadedRowIsCurrent ==
  /\ \A w \in Workers :
       /\ pc[w] \in Holding => lock = w
       /\ pc[w] \in {"decide", "commit_nothing"} => local[w] = row
       /\ pc[w] \in {"catalog", "persist", "commit"} =>
            /\ Result(request[w], row) = "ok"
            /\ local[w] = Effect(request[w], row)
  /\ orphan # NoOrphan => /\ lock = Server
                          /\ orphan.row = Effect(orphan.request, row)

\* The modules that declare a permission in the release they have active.
Declaring(s, p) ==
  {m \in ActiveModules(s.active) : p \in ActiveManifest(s, s.active, m).permissions}

Publishes(entries, s) ==
  \A p \in Permissions :
    IF entries[p].active
    THEN /\ Declaring(s, p) = {entries[p].owner}
         /\ entries[p].version = s.active[entries[p].owner]
    ELSE Declaring(s, p) = {}

\* The catalog is the permissions of the active releases: after every commit,
\* late ones included, a code is active exactly when the active release of its
\* owner declares it, and names that release.
CatalogMatchesActive == Publishes(catalog, row)

\* A permission code never changes hands, although its row is rewritten by every
\* activation of its owner and survives the owner's deactivation.
PermissionOwnerKept ==
  [][\A p \in Permissions :
       catalog[p].owner # NoOwner => catalog'[p].owner = catalog[p].owner]_vars

\* What callers see of a worker.
CallOf(w) ==
  [status  |-> IF pc[w] \in {"idle", "answered"} THEN pc[w] ELSE "pending",
   request |-> request[w],
   result  |-> result[w]]

Contract == INSTANCE ReleaseContract
  WITH Clients <- Workers,
       LegacyStates <- {},
       state   <- row,
       call    <- [w \in Workers |-> CallOf(w)],
       late    <- IF orphan = NoOrphan THEN NoRequest ELSE orphan.request

\* The adapter keeps the contract: transactions, retries and lost commits look
\* to callers like single steps of the aggregate.
ImplementsContract == Contract!Spec

\* Every request is answered, whatever the other workers and the server do.
EveryRequestAnswered ==
  \A w \in Workers : (pc[w] \in InTransaction \cup {"backoff"}) ~> (pc[w] = "answered")

\* The row lock never stays with a transaction: whoever holds it lets it go.
RowLockReleased == \A h \in Workers \cup {Server} : lock = h ~> lock # h
=============================================================================

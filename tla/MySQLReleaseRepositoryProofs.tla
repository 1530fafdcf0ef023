-------------------- MODULE MySQLReleaseRepositoryProofs -------------------
(***************************************************************************)
(* Proofs that the MySQL adapter keeps row and permission catalog          *)
(* consistent and implements ReleaseContract, for every number of workers, *)
(* every set of documents and every number of attempts.                    *)
(***************************************************************************)
EXTENDS MySQLReleaseRepository, RegistryStateProofs, TLAPS

(***************************************************************************)
(* The inductive invariant.  A worker serves an admitted request; what it  *)
(* loaded is current while it holds the lock; its draft is the committed   *)
(* catalog with the permissions published so far, and publishes the        *)
(* aggregate it is about to persist once the others are retired.  What a   *)
(* COMMIT in doubt would install has the same relation to the committed    *)
(* state.                                                                  *)
(***************************************************************************)
Serving(w) == pc[w] \in InTransaction \cup {"backoff"}

OwnersKept(entries) ==
  \A p \in Permissions : catalog[p].owner # NoOwner => entries[p].owner = catalog[p].owner

Published(w, p) ==
  /\ catalog[p].owner \in {NoOwner, request[w].module}
  /\ draft[w][p] = [owner |-> request[w].module, active |-> TRUE, version |-> request[w].version]

ServesAdmitted(w) ==
  /\ pc[w] = "idle" => request[w] = NoRequest /\ result[w] = NoResult
  /\ Serving(w) => request[w] \in Requests /\ Admitted(request[w]) /\ result[w] = NoResult
  /\ pc[w] = "answered" => request[w] \in Requests /\ result[w] \in Outcomes

LoadedIsCurrent(w) ==
  /\ pc[w] \in Holding => lock = w
  /\ pc[w] \in {"decide", "commit_nothing"} => local[w] = row
  /\ pc[w] = "commit_nothing" =>
       Result(request[w], row) = "ok" /\ Effect(request[w], row) = row
  /\ pc[w] \in {"catalog", "persist", "commit"} =>
       Result(request[w], row) = "ok" /\ local[w] = Effect(request[w], row)

DraftTracks(w) ==
  /\ pc[w] \in {"decide", "commit_nothing"} => draft[w] = catalog
  /\ pc[w] = "catalog" =>
       /\ request[w].kind # "register"
       /\ todo[w] \subseteq Declared(w)
       /\ \A p \in Permissions : IF p \in Declared(w) \ todo[w]
                                 THEN Published(w, p)
                                 ELSE draft[w][p] = catalog[p]
  /\ pc[w] \in {"persist", "commit"} => OwnersKept(draft[w]) /\ Publishes(draft[w], local[w])

WorkerInv(w) == ServesAdmitted(w) /\ LoadedIsCurrent(w) /\ DraftTracks(w)

RowInv == ActiveRegistered(row) /\ Admissible(row) /\ Publishes(catalog, row)

OrphanInv ==
  orphan # NoOrphan =>
    /\ lock = Server
    /\ Admitted(orphan.request)
    /\ orphan.row = Effect(orphan.request, row)
    /\ OwnersKept(orphan.catalog)
    /\ Publishes(orphan.catalog, orphan.row)

IInv == TypeOK /\ RowInv /\ OrphanInv /\ \A w \in Workers : WorkerInv(w)

-----------------------------------------------------------------------------
(***************************************************************************)
(* What the operations leave of the active set, and the catalogs that      *)
(* publish it.                                                             *)
(***************************************************************************)

\* A registration adds a release that no module has active.
LEMMA RegisterKeepsActive ==
  ASSUME NEW s \in RegistryStates, NEW m \in Manifests, ActiveRegistered(s)
  PROVE  /\ RegisterEffect(s, m).active = s.active
         /\ \A n \in ActiveModules(s.active) :
              ActiveManifest(RegisterEffect(s, m), s.active, n) = ActiveManifest(s, s.active, n)
<1> DEFINE t == RegisterEffect(s, m)
<1>1. t.active = s.active
  BY DEF RegisterEffect, RegistryStates
<1>2. \A n \in Modules, v \in Versions :
        Registered(s, n, v) => t.releases[n][v] = s.releases[n][v]
  BY ManifestAssumption DEF RegisterEffect, Registered, RegistryStates
<1>3. \A n \in ActiveModules(s.active) : n \in Modules /\ s.active[n] \in Versions
  BY DEF ActiveModules, RegistryStates, ActiveMaps
<1>4. QED
  BY <1>1, <1>2, <1>3 DEF ActiveManifest, ActiveRegistered

LEMMA ActivateShape ==
  ASSUME NEW s \in RegistryStates, NEW m \in Modules, NEW v \in Versions,
         ActivateResult(s, m, v) = "ok"
  PROVE  /\ Registered(s, m, v)
         /\ ActivateEffect(s, m, v).releases = s.releases
         /\ ActivateEffect(s, m, v).active = [s.active EXCEPT ![m] = v]
         /\ ActivateEffect(s, m, v).revision = s.revision => ActivateEffect(s, m, v) = s
BY DEF ActivateResult, ActivateEffect, ActiveWith, RegistryStates, ActiveMaps

LEMMA DeactivateShape ==
  ASSUME NEW s \in RegistryStates, NEW m \in Modules, DeactivateResult(s, m) = "ok"
  PROVE  /\ DeactivateEffect(s, m).releases = s.releases
         /\ DeactivateEffect(s, m).active = [s.active EXCEPT ![m] = NoVersion]
BY DEF DeactivateEffect, RegistryStates, ActiveMaps

\* A refused operation has no effect.
LEMMA RefusedHasNoEffect ==
  ASSUME NEW s \in RegistryStates, NEW r \in Requests, Admitted(r), Result(r, s) # "ok"
  PROVE  Effect(r, s) = s
BY AdmittedNames DEF Result, Effect, RegisterEffect, ActivateEffect, DeactivateEffect

\* The catalog of an active set is the catalog of another one with the same
\* manifests.
LEMMA SamePublished ==
  ASSUME NEW s, NEW t, NEW c, t.active = s.active,
         \A n \in ActiveModules(s.active) :
           ActiveManifest(t, s.active, n) = ActiveManifest(s, s.active, n),
         Publishes(c, s)
  PROVE  Publishes(c, t)
<1>1. \A p : Declaring(t, p) = Declaring(s, p)
  BY DEF Declaring
<1>2. QED
  BY <1>1 DEF Publishes

\* The active set t differs from s in module m, which declares D in it.
DiffersIn(s, t, m, D) ==
  /\ t.releases = s.releases
  /\ \A n \in Modules : n # m => t.active[n] = s.active[n]
  /\ t.active[m] = NoVersion => D = {}
  /\ t.active[m] # NoVersion => D = t.releases[m][t.active[m]].permissions

\* The entries d publish the codes D of a version of m, which were free or its
\* own in c, and retire the other codes of m.
PublishesAndRetires(c, d, m, D, v) ==
  \A p \in Permissions :
    /\ p \in D => /\ c[p].owner \in {NoOwner, m}
                  /\ d[p] = [owner |-> m, active |-> TRUE, version |-> v]
    /\ p \notin D /\ c[p].owner = m => d[p].owner = m /\ d[p].active = FALSE
    /\ p \notin D /\ c[p].owner # m => d[p] = c[p]

\* Such a draft is the catalog of the set the module joins or leaves.
LEMMA RetiredDraftPublishes ==
  ASSUME NEW s, NEW t, NEW c, NEW d, NEW m \in Modules, NEW D,
         DiffersIn(s, t, m, D), Publishes(c, s), PublishesAndRetires(c, d, m, D, t.active[m])
  PROVE  /\ Publishes(d, t)
         /\ \A p \in Permissions : c[p].owner # NoOwner => d[p].owner = c[p].owner
<1> USE DEF DiffersIn, PublishesAndRetires
<1> SUFFICES ASSUME NEW p \in Permissions
             PROVE  /\ IF d[p].active
                       THEN Declaring(t, p) = {d[p].owner} /\ d[p].version = t.active[d[p].owner]
                       ELSE Declaring(t, p) = {}
                    /\ c[p].owner # NoOwner => d[p].owner = c[p].owner
  BY DEF Publishes
<1>2. IF c[p].active
      THEN Declaring(s, p) = {c[p].owner} /\ c[p].version = s.active[c[p].owner]
      ELSE Declaring(s, p) = {}
  BY DEF Publishes
<1>3. Declaring(s, p) \subseteq Modules /\ Declaring(t, p) \subseteq Modules
  BY DEF Declaring, ActiveModules
<1>4. \A n \in Modules : n # m => (n \in Declaring(t, p) <=> n \in Declaring(s, p))
  BY DEF Declaring, ActiveModules, ActiveManifest
<1>5. m \in Declaring(t, p) <=> p \in D
  BY DEF Declaring, ActiveModules, ActiveManifest
<1>6. \A n \in Declaring(s, p) : n = c[p].owner
  BY <1>2
<1>7. CASE p \in D
  <2>1. c[p].owner \in {NoOwner, m} /\ d[p].owner = m /\ d[p].active /\ d[p].version = t.active[m]
    BY <1>7
  <2>2. \A n \in Declaring(s, p) : n = m
    BY <1>3, <1>6, <2>1, RepositoryAssumption
  <2>3. Declaring(t, p) = {m}
    BY <1>3, <1>4, <1>5, <1>7, <2>2
  <2>4. QED
    BY <2>1, <2>3
<1>8. CASE p \notin D /\ c[p].owner = m
  <2>1. Declaring(t, p) = {}
    BY <1>3, <1>4, <1>5, <1>6, <1>8
  <2>2. QED
    BY <1>8, <2>1
<1>9. CASE p \notin D /\ c[p].owner # m
  <2>1. Declaring(t, p) = Declaring(s, p)
    <3>1. m \notin Declaring(s, p) /\ m \notin Declaring(t, p)
      BY <1>5, <1>6, <1>9
    <3>2. \A n : n \in Declaring(t, p) <=> n \in Declaring(s, p)
      BY <1>3, <1>4, <3>1
    <3>3. QED
      BY <3>2
  <2>2. c[p].active => c[p].owner \in Modules /\ t.active[c[p].owner] = s.active[c[p].owner]
    BY <1>2, <1>3, <1>9
  <2>3. QED
    BY <1>2, <1>9, <2>1, <2>2
<1>10. QED
  BY <1>7, <1>8, <1>9

-----------------------------------------------------------------------------
(***************************************************************************)
(* The invariant holds initially, and a step of one worker leaves what     *)
(* holds of the others alone: only the holder of the lock works on the row. *)
(***************************************************************************)

LEMMA InitIInv == Init => IInv
<1> SUFFICES ASSUME Init PROVE IInv
  OBVIOUS
<1>1. row \in RegistryStates /\ ActiveModules(row.active) = {}
  BY DEF Init, NewRegistryState, RegistryStates, ActiveMaps, ActiveModules
<1>2. EmptyCatalog \in Catalogs
  BY DEF EmptyCatalog, Catalogs, Entries
<1>3. TypeOK
  BY <1>1, <1>2, RepositoryAssumption DEF Init, TypeOK, Pcs
<1>4. ActiveRegistered(row) /\ Admissible(row)
  BY <1>1 DEF ActiveRegistered, Admissible, RoutesDisjoint, NavigationAgrees, ActivePages
<1>5. Publishes(catalog, row)
  <2>1. \A p : Declaring(row, p) = {}
    BY <1>1 DEF Declaring
  <2>2. \A p \in Permissions : catalog[p].active = FALSE
    BY DEF Init, EmptyCatalog
  <2>3. QED
    BY <2>1, <2>2 DEF Publishes
<1>6. OrphanInv /\ \A w \in Workers : WorkerInv(w)
  BY DEF Init, OrphanInv, WorkerInv, ServesAdmitted, LoadedIsCurrent, DraftTracks, Serving,
         InTransaction, Holding
<1>7. QED
  BY <1>3, <1>4, <1>5, <1>6 DEF IInv, RowInv

LEMMA WorkerFrame ==
  ASSUME NEW u \in Workers, WorkerInv(u),
         pc'[u] = pc[u], request'[u] = request[u], result'[u] = result[u],
         local'[u] = local[u], draft'[u] = draft[u], todo'[u] = todo[u],
         pc[u] \in Holding => row' = row /\ catalog' = catalog /\ lock' = lock
  PROVE  WorkerInv(u)'
<1>1. ServesAdmitted(u)'
  BY DEF WorkerInv, ServesAdmitted, Serving, Admitted
<1>2. LoadedIsCurrent(u)'
  BY DEF WorkerInv, LoadedIsCurrent, Holding, InTransaction
<1>3. Declared(u)' = Declared(u)
  BY DEF Declared
<1>4. DraftTracks(u)'
  BY <1>3 DEF WorkerInv, DraftTracks, Published, OwnersKept, Publishes, Holding, InTransaction
<1>5. QED
  BY <1>1, <1>2, <1>4 DEF WorkerInv

WorkerStep(w) ==
  (\E req \in Traffic : Submit(w, req)) \/ Statement(w) \/ Fail(w) \/ Retry(w) \/ Return(w)

LEMMA OtherWorkers ==
  ASSUME IInv, NEW w \in Workers, WorkerStep(w), NEW u \in Workers, u # w
  PROVE  WorkerInv(u)'
<1> USE DEF IInv
<1>1. /\ pc'[u] = pc[u] /\ request'[u] = request[u] /\ result'[u] = result[u]
      /\ local'[u] = local[u] /\ draft'[u] = draft[u] /\ todo'[u] = todo[u]
  BY DEF TypeOK, WorkerStep, Submit, Statement, Fail, Load, Decide, PublishPermission,
         RetirePermissions, Persist, Commit, CommitNothing, Conflict, Abandon, LoseCommit,
         Retry, Return, GoTo, Reply, DropWork, KeepWork, serverVars
<1>2. ASSUME pc[u] \in Holding PROVE row' = row /\ catalog' = catalog /\ lock' = lock
  <2>1. lock = u /\ lock # w /\ lock # Free
    BY <1>2, RepositoryAssumption DEF WorkerInv, LoadedIsCurrent
  <2>2. pc[w] \notin Holding
    BY <2>1 DEF WorkerInv, LoadedIsCurrent
  <2>3. QED
    BY <2>1, <2>2
       DEF Holding, InTransaction, WorkerStep, Submit, Statement, Fail, Load, Decide,
           PublishPermission, RetirePermissions, Persist, Commit, CommitNothing, Conflict,
           Abandon, LoseCommit, Retry, Return, Unlock, serverVars
<1>3. QED
  BY <1>1, <1>2, WorkerFrame

-----------------------------------------------------------------------------
(***************************************************************************)
(* Each step of a worker.                                                  *)
(***************************************************************************)

LEMMA SharedFrame ==
  ASSUME RowInv, OrphanInv, row' = row, catalog' = catalog, orphan' = orphan,
         orphan # NoOrphan => lock' = lock
  PROVE  RowInv' /\ OrphanInv'
BY DEF RowInv, OrphanInv, ActiveRegistered, Admissible, Publishes, OwnersKept, Admitted

\* No transaction of a worker that holds the lock meets a COMMIT in doubt.
LEMMA HolderMeetsNoDoubt ==
  ASSUME IInv, NEW w \in Workers, lock = w \/ lock = Free \/ pc[w] \in Holding
  PROVE  orphan = NoOrphan
BY RepositoryAssumption DEF IInv, OrphanInv, WorkerInv, LoadedIsCurrent

LEMMA SubmitStep ==
  ASSUME IInv, NEW w \in Workers, NEW req \in Traffic, Submit(w, req)
  PROVE  TypeOK' /\ RowInv' /\ OrphanInv' /\ WorkerInv(w)'
<1>1. req \in Requests /\ (~Admitted(req) => Admission(req) \in Outcomes) /\ 1 \in 0..MaxAttempts
  BY RepositoryAssumption, AdmissionType
<1>2. TypeOK'
  BY <1>1 DEF IInv, Submit, TypeOK, KeepWork, serverVars, Pcs, InTransaction, Admitted
<1>3. RowInv' /\ OrphanInv'
  BY SharedFrame DEF IInv, Submit, serverVars
<1>4. result[w] = NoResult
  BY DEF IInv, WorkerInv, ServesAdmitted, Submit
<1>5. ServesAdmitted(w)'
  BY <1>1, <1>4 DEF IInv, TypeOK, Submit, ServesAdmitted, Serving, InTransaction, Admitted
<1>6. LoadedIsCurrent(w)' /\ DraftTracks(w)'
  BY DEF IInv, TypeOK, Submit, LoadedIsCurrent, DraftTracks, Holding, InTransaction
<1>7. QED
  BY <1>2, <1>3, <1>5, <1>6 DEF WorkerInv

LEMMA LoadStep ==
  ASSUME IInv, NEW w \in Workers, Load(w)
  PROVE  TypeOK' /\ RowInv' /\ OrphanInv' /\ WorkerInv(w)'
<1>1. TypeOK'
  BY DEF IInv, Load, TypeOK, GoTo, Pcs, InTransaction
<1>2. RowInv' /\ OrphanInv'
  BY SharedFrame, HolderMeetsNoDoubt DEF IInv, Load
<1>3. ServesAdmitted(w)'
  BY DEF IInv, WorkerInv, TypeOK, Load, GoTo, ServesAdmitted, Serving, InTransaction, Admitted
<1>4. LoadedIsCurrent(w)' /\ DraftTracks(w)'
  BY DEF IInv, TypeOK, Load, GoTo, LoadedIsCurrent, DraftTracks
<1>5. QED
  BY <1>1, <1>2, <1>3, <1>4 DEF WorkerInv

\* A worker that answers is served; what it worked on is gone.
LEMMA AnsweredInv ==
  ASSUME IInv, NEW w \in Workers, Serving(w), NEW o \in Outcomes, Reply(w, o)
  PROVE  /\ WorkerInv(w)'
         /\ pc' \in [Workers -> Pcs] /\ request' \in [Workers -> Requests \cup {NoRequest}]
         /\ result' \in [Workers -> Outcomes \cup {NoResult}]
<1>1. request[w] \in Requests
  BY DEF IInv, WorkerInv, ServesAdmitted
<1>2. ServesAdmitted(w)'
  BY <1>1 DEF IInv, TypeOK, Reply, ServesAdmitted, Serving, InTransaction
<1>3. LoadedIsCurrent(w)' /\ DraftTracks(w)'
  BY DEF IInv, TypeOK, Reply, LoadedIsCurrent, DraftTracks, Holding, InTransaction
<1>4. QED
  BY <1>2, <1>3 DEF WorkerInv, IInv, TypeOK, Reply, Pcs

LEMMA DropWorkType ==
  ASSUME IInv, NEW w \in Workers, DropWork(w)
  PROVE  /\ local' \in [Workers -> RegistryStates \cup {NoState}]
         /\ draft' \in [Workers -> Catalogs]
         /\ todo' \in [Workers -> SUBSET Permissions]
<1>1. EmptyCatalog \in Catalogs
  BY DEF EmptyCatalog, Catalogs, Entries
<1>2. QED
  BY <1>1 DEF IInv, TypeOK, DropWork

LEMMA OutcomesThere == "ok" \in Outcomes /\ "unavailable" \in Outcomes
BY DEF Outcomes

LEMMA DecideStep ==
  ASSUME IInv, NEW w \in Workers, Decide(w)
  PROVE  TypeOK' /\ RowInv' /\ OrphanInv' /\ WorkerInv(w)'
<1> DEFINE r == request[w]
<1>1. /\ pc[w] = "decide" /\ r \in Requests /\ Admitted(r) /\ result[w] = NoResult
      /\ lock = w /\ local[w] = row /\ draft[w] = catalog /\ row \in RegistryStates
  BY DEF IInv, TypeOK, WorkerInv, ServesAdmitted, LoadedIsCurrent, DraftTracks, Serving,
         InTransaction, Holding, Decide
<1>2. RowInv' /\ OrphanInv'
  BY <1>1, SharedFrame, HolderMeetsNoDoubt DEF IInv, Decide
<1>3. CASE Result(r, row) # "ok"
  <2>1. Unlock(w) /\ DropWork(w) /\ Reply(w, Result(r, row)) /\ UNCHANGED <<row, catalog, orphan, attempt>>
    BY <1>1, <1>3 DEF Decide
  <2>2. Result(r, row) \in Outcomes /\ Serving(w)
    BY <1>1, ResultType DEF Serving, InTransaction
  <2>3. TypeOK' /\ WorkerInv(w)'
    BY <2>1, <2>2, AnsweredInv, DropWorkType DEF IInv, TypeOK, Unlock
  <2>4. QED
    BY <1>2, <2>3
<1>4. CASE Result(r, row) = "ok" /\ r.kind = "activate" /\ Effect(r, row).revision = row.revision
  <2>1. GoTo(w, "commit_nothing") /\ KeepWork /\ UNCHANGED <<row, catalog, orphan, attempt, lock>>
    BY <1>1, <1>4 DEF Decide
  <2>2. Effect(r, row) = row
    <3>1. r.module \in Modules /\ r.version \in Versions
      BY <1>1, <1>4, AdmittedNames
    <3>2. ActivateResult(row, r.module, r.version) = "ok"
          /\ Effect(r, row) = ActivateEffect(row, r.module, r.version)
      BY <1>4, KindOfOperation
    <3>3. ActivateEffect(row, r.module, r.version).revision = row.revision
      BY <1>4, <3>2
    <3>4. ActivateEffect(row, r.module, r.version) = row
      BY <1>1, <3>1, <3>2, <3>3, ActivateShape
    <3>5. QED
      BY <3>2, <3>4
  <2>3. TypeOK'
    BY <2>1 DEF IInv, TypeOK, GoTo, KeepWork, Pcs, InTransaction
  <2>4. ServesAdmitted(w)'
    BY <1>1, <2>1 DEF IInv, TypeOK, GoTo, ServesAdmitted, Serving, InTransaction, Admitted
  <2>5. LoadedIsCurrent(w)' /\ DraftTracks(w)'
    BY <1>1, <1>4, <2>1, <2>2 DEF IInv, TypeOK, GoTo, KeepWork, LoadedIsCurrent, DraftTracks
  <2>6. QED
    BY <1>2, <2>3, <2>4, <2>5 DEF WorkerInv
<1>5. CASE Result(r, row) = "ok" /\ (r.kind = "activate" => Effect(r, row).revision # row.revision)
  <2> DEFINE next == Effect(r, row)
             publish == IF r.kind = "activate"
                        THEN next.releases[r.module][r.version].permissions ELSE {}
             step == IF r.kind = "register" THEN "persist" ELSE "catalog"
  <2>1. /\ local' = [local EXCEPT ![w] = next]
        /\ todo' = [todo EXCEPT ![w] = publish]
        /\ GoTo(w, step)
        /\ UNCHANGED <<lock, draft, row, catalog, orphan, attempt>>
    BY <1>1, <1>5 DEF Decide
  <2>2. next \in RegistryStates
    BY <1>1, EffectType
  <2>3. publish \subseteq Permissions
    <3>1. CASE r.kind = "activate"
      <4>0. r.module \in Modules /\ r.version \in Versions
        BY <1>1, <3>1, AdmittedNames
      <4>1. Registered(row, r.module, r.version) /\ next.releases = row.releases
        <5>1. ActivateResult(row, r.module, r.version) = "ok"
              /\ next = ActivateEffect(row, r.module, r.version)
          BY <1>5, <3>1, KindOfOperation
        <5>2. /\ Registered(row, r.module, r.version)
              /\ ActivateEffect(row, r.module, r.version).releases = row.releases
          BY <1>1, <4>0, <5>1, ActivateShape
        <5>3. QED
          BY <5>1, <5>2
      <4>2. next.releases[r.module][r.version] \in Manifests
        BY <1>1, <4>0, <4>1 DEF Registered, RegistryStates
      <4>3. QED
        BY <4>2, RepositoryAssumption
    <3>2. QED
      BY <3>1
  <2>4. TypeOK'
    BY <2>1, <2>2, <2>3 DEF IInv, TypeOK, GoTo, Pcs, InTransaction
  <2>5. /\ pc'[w] = step /\ request'[w] = r /\ result'[w] = NoResult /\ local'[w] = next
        /\ draft'[w] = catalog' /\ todo'[w] = publish /\ lock' = w /\ row' = row /\ catalog' = catalog
    BY <1>1, <2>1 DEF IInv, TypeOK, GoTo
  <2>6. ServesAdmitted(w)'
    BY <1>1, <2>5 DEF ServesAdmitted, Serving, InTransaction, Admitted
  <2>7. LoadedIsCurrent(w)'
    BY <1>1, <1>5, <2>5 DEF LoadedIsCurrent
  <2>8. DraftTracks(w)'
    <3>1. CASE r.kind = "register"
      <4>1. next = RegisterEffect(row, r.manifest) /\ r.manifest \in Manifests
        BY <1>1, <3>1, AdmittedNames, KindOfOperation
      <4>2. Publishes(catalog, next)
        BY <1>1, <4>1, RegisterKeepsActive, SamePublished DEF IInv, RowInv
      <4>3. Publishes(draft'[w], local'[w])
        BY <2>5, <4>2
      <4>4. OwnersKept(draft[w])'
        BY <2>5 DEF OwnersKept
      <4>5. QED
        BY <2>5, <3>1, <4>3, <4>4 DEF DraftTracks, Publishes
    <3>2. CASE r.kind # "register"
      <4>1. Declared(w)' = publish
        BY <2>5 DEF Declared
      <4>2. /\ pc'[w] = "catalog" /\ request'[w].kind # "register"
            /\ todo'[w] = Declared(w)' /\ draft'[w] = catalog'
        BY <2>5, <3>2, <4>1
      <4>3. QED
        BY <4>2 DEF DraftTracks
    <3>3. QED
      BY <3>1, <3>2
  <2>9. QED
    BY <1>2, <2>4, <2>6, <2>7, <2>8 DEF WorkerInv
<1>6. QED
  BY <1>3, <1>4, <1>5

\* What a worker knows of its request between the decision and the COMMIT.
LEMMA WritingFacts ==
  ASSUME IInv, NEW w \in Workers, pc[w] \in {"catalog", "persist", "commit"}
  PROVE  /\ Serving(w) /\ request[w] \in Requests /\ Admitted(request[w]) /\ result[w] = NoResult
         /\ lock = w /\ orphan = NoOrphan /\ row \in RegistryStates
         /\ Result(request[w], row) = "ok"
         /\ local[w] = Effect(request[w], row) /\ local[w] \in RegistryStates
<1>1. /\ Serving(w) /\ request[w] \in Requests /\ Admitted(request[w]) /\ result[w] = NoResult
      /\ lock = w /\ row \in RegistryStates
      /\ Result(request[w], row) = "ok" /\ local[w] = Effect(request[w], row)
  BY DEF IInv, TypeOK, WorkerInv, ServesAdmitted, LoadedIsCurrent, Serving, InTransaction, Holding
<1>2. QED
  BY <1>1, EffectType, HolderMeetsNoDoubt

\* The set a catalog transaction is about to install: the module with the
\* version the request names, or without one, and the others as they are.
LEMMA CatalogFacts ==
  ASSUME IInv, NEW w \in Workers, pc[w] = "catalog"
  PROVE  /\ request[w].module \in Modules
         /\ local[w].releases = row.releases
         /\ request[w].kind = "activate" =>
              /\ request[w].version \in Versions
              /\ local[w].active = [row.active EXCEPT ![request[w].module] = request[w].version]
         /\ request[w].kind # "activate" =>
              local[w].active = [row.active EXCEPT ![request[w].module] = NoVersion]
<1> DEFINE r == request[w]
<1>1. /\ r \in Requests /\ Admitted(r) /\ row \in RegistryStates
      /\ Result(r, row) = "ok" /\ local[w] = Effect(r, row) /\ r.kind # "register"
  BY WritingFacts DEF IInv, WorkerInv, DraftTracks
<1>2. CASE r.kind = "activate"
  <2>1. r.module \in Modules /\ r.version \in Versions
    BY <1>1, <1>2, AdmittedNames
  <2>2. ActivateResult(row, r.module, r.version) = "ok"
        /\ local[w] = ActivateEffect(row, r.module, r.version)
    BY <1>1, <1>2, KindOfOperation
  <2>3. /\ ActivateEffect(row, r.module, r.version).releases = row.releases
        /\ ActivateEffect(row, r.module, r.version).active = [row.active EXCEPT ![r.module] = r.version]
    BY <1>1, <2>1, <2>2, ActivateShape
  <2>4. QED
    BY <1>2, <2>1, <2>2, <2>3
<1>3. CASE r.kind = "deactivate"
  <2>1. r.module \in Modules
    BY <1>1, <1>3, AdmittedNames
  <2>2. DeactivateResult(row, r.module) = "ok" /\ local[w] = DeactivateEffect(row, r.module)
    BY <1>1, <1>3, KindOfOperation
  <2>3. /\ DeactivateEffect(row, r.module).releases = row.releases
        /\ DeactivateEffect(row, r.module).active = [row.active EXCEPT ![r.module] = NoVersion]
    BY <1>1, <2>1, <2>2, DeactivateShape
  <2>4. QED
    BY <1>3, <2>1, <2>2, <2>3
<1>4. QED
  BY <1>1, <1>2, <1>3, AdmittedNames

LEMMA PublishStep ==
  ASSUME IInv, NEW w \in Workers, NEW p \in Permissions, PublishPermission(w, p)
  PROVE  TypeOK' /\ RowInv' /\ OrphanInv' /\ WorkerInv(w)'
<1> DEFINE r == request[w]
<1>1. pc[w] = "catalog" /\ p \in todo[w]
  BY DEF PublishPermission
<1>2. RowInv' /\ OrphanInv'
  BY <1>1, WritingFacts, SharedFrame DEF IInv, PublishPermission
<1>3. CASE draft[w][p].owner \notin {NoOwner, r.module}
  <2>1. Unlock(w) /\ DropWork(w) /\ Reply(w, "unavailable") /\ UNCHANGED <<row, catalog, orphan, attempt>>
    BY <1>3 DEF PublishPermission
  <2>2. TypeOK' /\ WorkerInv(w)'
    BY <1>1, <2>1, WritingFacts, AnsweredInv, OutcomesThere, DropWorkType DEF IInv, TypeOK, Unlock
  <2>3. QED
    BY <1>2, <2>2
<1>4. CASE draft[w][p].owner \in {NoOwner, r.module}
  <2> DEFINE entry == [owner |-> r.module, active |-> TRUE, version |-> r.version]
  <2>1. /\ draft' = [draft EXCEPT ![w] = [draft[w] EXCEPT ![p] = entry]]
        /\ todo' = [todo EXCEPT ![w] = todo[w] \ {p}]
        /\ UNCHANGED <<lock, local, pc, request, result, row, catalog, orphan, attempt>>
    BY <1>4 DEF PublishPermission
  <2>2. p \in Declared(w) /\ todo[w] \subseteq Declared(w)
    BY <1>1 DEF IInv, WorkerInv, DraftTracks
  <2>3. r.kind = "activate"
    BY <2>2 DEF Declared
  <2>4. entry \in Entries
    BY <1>1, <2>3, CatalogFacts DEF Entries
  <2>5. draft[w] \in Catalogs /\ [draft[w] EXCEPT ![p] = entry] \in Catalogs
    BY <2>4 DEF IInv, TypeOK, Catalogs
  <2>6. TypeOK'
    BY <2>1, <2>5 DEF IInv, TypeOK
  <2>7. ServesAdmitted(w)' /\ LoadedIsCurrent(w)'
    BY <2>1 DEF IInv, WorkerInv, ServesAdmitted, LoadedIsCurrent, Serving, Admitted
  <2>8. DraftTracks(w)'
    <3>1. /\ pc'[w] = "catalog" /\ request' = request /\ catalog' = catalog
          /\ draft'[w] = [draft[w] EXCEPT ![p] = entry] /\ todo'[w] = todo[w] \ {p}
      BY <1>1, <2>1 DEF IInv, TypeOK
    <3>2. Declared(w)' = Declared(w)
      BY <2>1 DEF Declared
    <3>3. draft[w][p] = catalog[p]
      BY <1>1, <2>2 DEF IInv, WorkerInv, DraftTracks
    <3>4. Published(w, p)'
      BY <1>4, <2>5, <3>1, <3>3 DEF Published, Catalogs
    <3>5. ASSUME NEW q \in Permissions, q # p
          PROVE  /\ draft'[w][q] = draft[w][q]
                 /\ Published(w, q) => Published(w, q)'
      BY <2>5, <3>1, <3>5 DEF Published, Catalogs
    <3>6. \A q \in Permissions : IF q \in Declared(w)' \ todo'[w]
                                 THEN Published(w, q)'
                                 ELSE draft'[w][q] = catalog'[q]
      BY <1>1, <2>2, <3>1, <3>2, <3>4, <3>5 DEF IInv, WorkerInv, DraftTracks
    <3>7. QED
      BY <2>2, <2>3, <3>1, <3>2, <3>6 DEF DraftTracks
  <2>9. QED
    BY <1>2, <2>6, <2>7, <2>8 DEF WorkerInv
<1>5. QED
  BY <1>3, <1>4

LEMMA RetireStep ==
  ASSUME IInv, NEW w \in Workers, RetirePermissions(w)
  PROVE  TypeOK' /\ RowInv' /\ OrphanInv' /\ WorkerInv(w)'
<1> DEFINE m == request[w].module
           c == draft[w]
           d == [p \in Permissions |->
                   IF c[p].owner = m /\ p \notin Declared(w) THEN [c[p] EXCEPT !.active = FALSE] ELSE c[p]]
<1>1. /\ pc[w] = "catalog" /\ todo[w] = {}
      /\ draft' = [draft EXCEPT ![w] = d]
      /\ GoTo(w, "persist") /\ UNCHANGED <<row, catalog, lock, orphan, attempt, local, todo>>
  BY DEF RetirePermissions, serverVars
<1>2. c \in Catalogs
  BY DEF IInv, TypeOK
<1>3. \A p \in Permissions : d[p] \in Entries
  BY <1>2 DEF Catalogs, Entries
<1>4. d \in Catalogs
  BY <1>3 DEF Catalogs
<1>5. TypeOK'
  BY <1>1, <1>4 DEF IInv, TypeOK, GoTo, Pcs, InTransaction
<1>6. RowInv' /\ OrphanInv'
  BY <1>1, SharedFrame DEF IInv
<1>7. /\ pc'[w] = "persist" /\ request' = request /\ result' = result /\ local' = local
      /\ draft'[w] = d /\ row' = row /\ catalog' = catalog /\ lock' = lock
  BY <1>1 DEF IInv, TypeOK, GoTo
<1>8. ServesAdmitted(w)' /\ LoadedIsCurrent(w)'
  BY <1>1, <1>7 DEF IInv, WorkerInv, ServesAdmitted, LoadedIsCurrent, Serving, InTransaction,
     Holding, Admitted
<1>9. OwnersKept(d) /\ Publishes(d, local[w])
  <2> DEFINE D == Declared(w)
             t == local[w]
  <2>1. /\ m \in Modules /\ t.releases = row.releases
        /\ row \in RegistryStates /\ t \in RegistryStates /\ catalog \in Catalogs
    BY <1>1, CatalogFacts, WritingFacts DEF IInv, TypeOK
  <2>2. DiffersIn(row, t, m, D) /\ (D # {} => t.active[m] = request[w].version)
    <3>1. row.active \in [Modules -> Versions \cup {NoVersion}]
      BY <2>1 DEF RegistryStates, ActiveMaps
    <3>2. CASE request[w].kind = "activate"
      <4>1. request[w].version \in Versions /\ t.active = [row.active EXCEPT ![m] = request[w].version]
        BY <1>1, <3>2, CatalogFacts
      <4>2. D = t.releases[m][request[w].version].permissions
        BY <3>2 DEF Declared
      <4>3. QED
        BY <2>1, <3>1, <4>1, <4>2, AbsentAssumption DEF DiffersIn
    <3>3. CASE request[w].kind # "activate"
      <4>1. t.active = [row.active EXCEPT ![m] = NoVersion] /\ D = {}
        BY <1>1, <3>3, CatalogFacts DEF Declared
      <4>2. QED
        BY <2>1, <3>1, <4>1 DEF DiffersIn
    <3>4. QED
      BY <3>2, <3>3
  <2>3. ASSUME NEW p \in Permissions
        PROVE  /\ p \in D => /\ catalog[p].owner \in {NoOwner, m}
                             /\ d[p] = [owner |-> m, active |-> TRUE, version |-> t.active[m]]
               /\ p \notin D /\ catalog[p].owner = m => d[p].owner = m /\ d[p].active = FALSE
               /\ p \notin D /\ catalog[p].owner # m => d[p] = catalog[p]
    <3>1. IF p \in D THEN Published(w, p) ELSE c[p] = catalog[p]
      BY <1>1 DEF IInv, WorkerInv, DraftTracks
    <3>2. CASE p \in D
      BY <2>2, <3>1, <3>2 DEF Published
    <3>3. CASE p \notin D
      <4>1. c[p] = catalog[p] /\ catalog[p] \in Entries
        BY <2>1, <3>1, <3>3 DEF Catalogs
      <4>2. QED
        BY <3>3, <4>1 DEF Entries
    <3>4. QED
      BY <3>2, <3>3
  <2>4. PublishesAndRetires(catalog, d, m, D, t.active[m])
    BY <2>3 DEF PublishesAndRetires
  <2>5. Publishes(catalog, row)
    BY DEF IInv, RowInv
  <2>6. /\ Publishes(d, t)
        /\ \A p \in Permissions : catalog[p].owner # NoOwner => d[p].owner = catalog[p].owner
    <3> HIDE DEF d, D, t, m
    <3>1. QED
      BY <2>1, <2>2, <2>4, <2>5, RetiredDraftPublishes
  <2>7. QED
    BY <2>6 DEF OwnersKept
<1>10. OwnersKept(draft[w])' /\ Publishes(draft[w], local[w])'
  <2>1. draft'[w] = d /\ local'[w] = local[w] /\ catalog' = catalog
    BY <1>7
  <2>2. QED
    BY <1>9, <2>1 DEF OwnersKept, Publishes
<1>11. DraftTracks(w)'
  BY <1>7, <1>10 DEF DraftTracks
<1>12. QED
  BY <1>5, <1>6, <1>8, <1>11 DEF WorkerInv

LEMMA PersistStep ==
  ASSUME IInv, NEW w \in Workers, Persist(w)
  PROVE  TypeOK' /\ RowInv' /\ OrphanInv' /\ WorkerInv(w)'
<1>1. /\ pc[w] = "persist" /\ pc'[w] = "commit" /\ GoTo(w, "commit")
      /\ UNCHANGED <<request, result, row, catalog, lock, orphan, attempt, local, draft, todo>>
  BY DEF IInv, TypeOK, Persist, GoTo, serverVars
<1>2. TypeOK'
  BY <1>1 DEF IInv, TypeOK, GoTo, Pcs, InTransaction
<1>3. RowInv' /\ OrphanInv'
  BY <1>1, SharedFrame DEF IInv
<1>4. WorkerInv(w)'
  BY <1>1 DEF IInv, WorkerInv, ServesAdmitted, LoadedIsCurrent, DraftTracks, Serving,
     InTransaction, Holding, Admitted, OwnersKept, Publishes
<1>5. QED
  BY <1>2, <1>3, <1>4

\* The effect of an admitted request on the row is a row again.
LEMMA RowStep ==
  ASSUME IInv, NEW r \in Requests, Admitted(r), row' = Effect(r, row), Publishes(catalog', row')
  PROVE  row' \in RegistryStates /\ RowInv'
<1>1. row \in RegistryStates /\ ActiveRegistered(row) /\ Admissible(row)
  BY DEF IInv, TypeOK, RowInv
<1>2. ActiveRegistered(row') /\ Admissible(row')
  BY <1>1, EffectAdmissible
<1>3. QED
  BY <1>1, <1>2, EffectType DEF RowInv, ActiveRegistered, Admissible, Publishes

LEMMA CommitStep ==
  ASSUME IInv, NEW w \in Workers, Commit(w)
  PROVE  TypeOK' /\ RowInv' /\ OrphanInv' /\ WorkerInv(w)'
<1>1. /\ pc[w] = "commit" /\ row' = local[w] /\ catalog' = draft[w] /\ lock' = Free
      /\ Reply(w, "ok") /\ DropWork(w) /\ UNCHANGED <<orphan, attempt>>
  BY DEF Commit
<1>2. orphan = NoOrphan /\ Serving(w) /\ request[w] \in Requests /\ Admitted(request[w])
      /\ row' = Effect(request[w], row)
  BY <1>1, WritingFacts
<1>3. Publishes(catalog', row')
  BY <1>1 DEF IInv, WorkerInv, DraftTracks
<1>4. row' \in RegistryStates /\ RowInv'
  BY <1>2, <1>3, RowStep
<1>5. TypeOK' /\ WorkerInv(w)'
  BY <1>1, <1>2, <1>4, AnsweredInv, OutcomesThere, DropWorkType DEF IInv, TypeOK
<1>6. OrphanInv'
  BY <1>1, <1>2 DEF OrphanInv
<1>7. QED
  BY <1>4, <1>5, <1>6

LEMMA CommitNothingStep ==
  ASSUME IInv, NEW w \in Workers, CommitNothing(w)
  PROVE  TypeOK' /\ RowInv' /\ OrphanInv' /\ WorkerInv(w)'
<1>1. /\ pc[w] = "commit_nothing" /\ lock' = Free /\ Reply(w, "ok") /\ DropWork(w)
      /\ UNCHANGED <<row, catalog, orphan, attempt>>
  BY DEF CommitNothing
<1>2. Serving(w) /\ orphan = NoOrphan
  BY <1>1, HolderMeetsNoDoubt DEF Serving, InTransaction, Holding
<1>3. TypeOK' /\ WorkerInv(w)'
  BY <1>1, <1>2, AnsweredInv, OutcomesThere, DropWorkType DEF IInv, TypeOK
<1>4. QED
  BY <1>1, <1>2, <1>3, SharedFrame DEF IInv

LEMMA ConflictStep ==
  ASSUME IInv, NEW w \in Workers, Conflict(w)
  PROVE  TypeOK' /\ RowInv' /\ OrphanInv' /\ WorkerInv(w)'
<1>1. /\ Serving(w) /\ pc' = [pc EXCEPT ![w] = "backoff"] /\ UNCHANGED <<request, result>>
      /\ Unlock(w) /\ DropWork(w) /\ UNCHANGED <<row, catalog, orphan, attempt>>
  BY DEF Conflict, GoTo, Serving, InTransaction
<1>2. TypeOK'
  BY <1>1, DropWorkType DEF IInv, TypeOK, Unlock, Pcs
<1>3. RowInv' /\ OrphanInv'
  BY <1>1, SharedFrame, HolderMeetsNoDoubt DEF IInv, Unlock
<1>4. WorkerInv(w)'
  BY <1>1 DEF IInv, TypeOK, WorkerInv, ServesAdmitted, LoadedIsCurrent, DraftTracks, Serving,
     InTransaction, Holding, Admitted
<1>5. QED
  BY <1>2, <1>3, <1>4

LEMMA RetryStep ==
  ASSUME IInv, NEW w \in Workers, Retry(w)
  PROVE  TypeOK' /\ RowInv' /\ OrphanInv' /\ WorkerInv(w)'
<1>1. Serving(w) /\ KeepWork /\ UNCHANGED <<row, catalog, lock, orphan>>
  BY DEF Retry, Serving, serverVars
<1>2. RowInv' /\ OrphanInv'
  BY <1>1, SharedFrame DEF IInv
<1>3. CASE /\ attempt[w] < MaxAttempts /\ attempt' = [attempt EXCEPT ![w] = @ + 1]
           /\ GoTo(w, "load")
  <2>1. attempt[w] + 1 \in 0..MaxAttempts
    BY <1>3, RepositoryAssumption DEF IInv, TypeOK
  <2>2. TypeOK'
    BY <1>1, <1>3, <2>1 DEF IInv, TypeOK, GoTo, KeepWork, Pcs, InTransaction
  <2>3. WorkerInv(w)'
    BY <1>1, <1>3 DEF IInv, TypeOK, GoTo, WorkerInv, ServesAdmitted, LoadedIsCurrent, DraftTracks,
       Serving, InTransaction, Holding, Admitted
  <2>4. QED
    BY <1>2, <2>2, <2>3
<1>4. CASE Reply(w, "unavailable") /\ UNCHANGED attempt
  BY <1>1, <1>2, <1>4, AnsweredInv, OutcomesThere DEF IInv, TypeOK, KeepWork
<1>5. QED
  BY <1>3, <1>4 DEF Retry

LEMMA AbandonStep ==
  ASSUME IInv, NEW w \in Workers, Abandon(w)
  PROVE  TypeOK' /\ RowInv' /\ OrphanInv' /\ WorkerInv(w)'
<1>1. /\ Serving(w) /\ DropWork(w) /\ Reply(w, "unavailable")
      /\ UNCHANGED <<row, catalog, orphan, attempt>>
      /\ lock' \in {lock, Server}
      /\ lock' = lock \/ lock \in {w, Free}
  BY DEF Abandon, Serving
<1>2. TypeOK' /\ WorkerInv(w)'
  BY <1>1, AnsweredInv, OutcomesThere, DropWorkType DEF IInv, TypeOK
<1>3. RowInv' /\ OrphanInv'
  BY <1>1, SharedFrame, HolderMeetsNoDoubt DEF IInv
<1>4. QED
  BY <1>2, <1>3

LEMMA LoseCommitStep ==
  ASSUME IInv, NEW w \in Workers, LoseCommit(w)
  PROVE  TypeOK' /\ RowInv' /\ OrphanInv' /\ WorkerInv(w)'
<1> DEFINE o == [request |-> request[w], row |-> local[w], catalog |-> draft[w]]
<1>1. /\ pc[w] = "commit" /\ lock' = Server /\ orphan' = o
      /\ DropWork(w) /\ Reply(w, "unavailable") /\ UNCHANGED <<row, catalog, attempt>>
  BY DEF LoseCommit
<1>2. /\ Serving(w) /\ request[w] \in Requests /\ Admitted(request[w])
      /\ local[w] = Effect(request[w], row) /\ local[w] \in RegistryStates
  BY <1>1, WritingFacts
<1>3. o \in Orphans
  BY <1>2 DEF IInv, TypeOK, Orphans
<1>4. TypeOK' /\ WorkerInv(w)'
  BY <1>1, <1>2, <1>3, AnsweredInv, OutcomesThere, DropWorkType DEF IInv, TypeOK
<1>5. RowInv'
  BY <1>1 DEF IInv, RowInv, ActiveRegistered, Admissible, Publishes
<1>6. OwnersKept(draft[w]) /\ Publishes(draft[w], local[w])
  BY <1>1 DEF IInv, WorkerInv, DraftTracks
<1>7. OrphanInv'
  BY <1>1, <1>2, <1>6 DEF OrphanInv, OwnersKept, Publishes, Admitted
<1>8. QED
  BY <1>4, <1>5, <1>7

LEMMA ReturnStep ==
  ASSUME IInv, NEW w \in Workers, Return(w)
  PROVE  TypeOK' /\ RowInv' /\ OrphanInv' /\ WorkerInv(w)'
<1>1. 0 \in 0..MaxAttempts
  BY RepositoryAssumption
<1>2. TypeOK'
  BY <1>1 DEF IInv, TypeOK, Return, KeepWork, serverVars, Pcs
<1>3. RowInv' /\ OrphanInv'
  BY SharedFrame DEF IInv, Return, serverVars
<1>4. WorkerInv(w)'
  BY DEF IInv, TypeOK, Return, WorkerInv, ServesAdmitted, LoadedIsCurrent, DraftTracks, Serving,
     InTransaction, Holding
<1>5. QED
  BY <1>2, <1>3, <1>4

\* The server settles what was left to it: nobody holds the lock meanwhile.
LEMMA SettleStep ==
  ASSUME IInv, Settle
  PROVE  IInv'
<1>1. lock = Server /\ lock' = Free /\ UNCHANGED workerVars /\ orphan' = NoOrphan
  BY DEF IInv, OrphanInv, Settle, SettleCommit, SettleRollback
<1>2. ASSUME NEW u \in Workers PROVE WorkerInv(u)'
  <2>1. pc[u] \notin Holding /\ WorkerInv(u)
    BY <1>1, RepositoryAssumption DEF IInv, WorkerInv, LoadedIsCurrent
  <2>2. QED
    BY <1>1, <2>1, WorkerFrame DEF workerVars
<1>3. OrphanInv'
  BY <1>1 DEF OrphanInv
<1>4. row' \in RegistryStates /\ catalog' \in Catalogs /\ RowInv'
  <2>1. CASE SettleCommit
    <3>1. /\ orphan \in Orphans /\ Admitted(orphan.request)
          /\ row' = orphan.row /\ catalog' = orphan.catalog
          /\ row' = Effect(orphan.request, row) /\ Publishes(orphan.catalog, orphan.row)
      BY <2>1 DEF IInv, TypeOK, OrphanInv, SettleCommit
    <3>2. orphan.request \in Requests /\ catalog' \in Catalogs
      BY <3>1 DEF Orphans
    <3>3. QED
      BY <3>1, <3>2, RowStep
  <2>2. CASE SettleRollback
    BY <2>2 DEF IInv, TypeOK, SettleRollback, RowInv, ActiveRegistered, Admissible, Publishes
  <2>3. QED
    BY <2>1, <2>2 DEF Settle
<1>5. TypeOK'
  BY <1>1, <1>4 DEF IInv, TypeOK, workerVars
<1>6. QED
  BY <1>2, <1>3, <1>4, <1>5 DEF IInv

-----------------------------------------------------------------------------
(***************************************************************************)
(* The properties.                                                         *)
(***************************************************************************)

LEMMA InvariantStep == IInv /\ [Next]_vars => IInv'
<1> SUFFICES ASSUME IInv, [Next]_vars PROVE IInv'
  OBVIOUS
<1>1. ASSUME NEW w \in Workers, WorkerStep(w) PROVE IInv'
  <2>1. TypeOK' /\ RowInv' /\ OrphanInv' /\ WorkerInv(w)'
    BY <1>1, SubmitStep, LoadStep, DecideStep, PublishStep, RetireStep, PersistStep, CommitStep,
       CommitNothingStep, ConflictStep, AbandonStep, LoseCommitStep, RetryStep, ReturnStep
       DEF WorkerStep, Statement, Fail
  <2>2. \A u \in Workers : WorkerInv(u)'
    BY <1>1, <2>1, OtherWorkers
  <2>3. QED
    BY <2>1, <2>2 DEF IInv
<1>2. CASE UNCHANGED vars
  <2>1. TypeOK' /\ RowInv' /\ OrphanInv'
    BY <1>2, SharedFrame DEF IInv, TypeOK, vars
  <2>2. \A u \in Workers : WorkerInv(u)'
    BY <1>2, WorkerFrame DEF IInv, vars
  <2>3. QED
    BY <2>1, <2>2 DEF IInv
<1>3. QED
  BY <1>1, <1>2, SettleStep DEF Next, WorkerStep

LEMMA AlwaysIInv == Spec => []IInv
BY InitIInv, InvariantStep, PTL DEF Spec

\* The variables keep their types: no attempt beyond the last one is begun, and
\* nothing but a loaded aggregate is ever committed.
THEOREM TypeTheorem == Spec => []TypeOK
BY AlwaysIInv, PTL DEF IInv

\* The holder of the row lock works on the committed row (mysql/release.go:104),
\* a COMMIT whose answer was lost included, for any number of workers.
THEOREM LockTheorem == Spec => []LoadedRowIsCurrent
<1>1. IInv => LoadedRowIsCurrent
  BY DEF IInv, OrphanInv, WorkerInv, LoadedIsCurrent, LoadedRowIsCurrent
<1>2. QED
  BY <1>1, AlwaysIInv, PTL

\* After every commit the catalog is what the active releases declare
\* (mysql/release.go:165-206), for any documents and permission codes.
THEOREM CatalogTheorem == Spec => []CatalogMatchesActive
<1>1. IInv => CatalogMatchesActive
  BY DEF IInv, RowInv, CatalogMatchesActive
<1>2. QED
  BY <1>1, AlwaysIInv, PTL

\* A permission code never changes hands (mysql/release.go:174-192).
THEOREM OwnerTheorem == Spec => PermissionOwnerKept
<1>1. IInv /\ [Next]_vars =>
        [\A p \in Permissions :
           catalog[p].owner # NoOwner => catalog'[p].owner = catalog[p].owner]_vars
  <2> SUFFICES ASSUME IInv, [Next]_vars, catalog' # catalog PROVE OwnersKept(catalog')
    BY DEF OwnersKept
  <2>1. ASSUME NEW w \in Workers, Commit(w) PROVE OwnersKept(catalog')
    BY <2>1 DEF Commit, IInv, WorkerInv, DraftTracks
  <2>2. CASE SettleCommit
    BY <2>2 DEF SettleCommit, IInv, OrphanInv
  <2>3. QED
    BY <2>1, <2>2
       DEF Next, Submit, Statement, Fail, Load, Decide, PublishPermission, RetirePermissions,
           Persist, CommitNothing, Conflict, Abandon, LoseCommit, Retry, Return, Settle,
           SettleRollback, serverVars, vars
<1>2. QED
  BY <1>1, AlwaysIInv, PTL DEF Spec, PermissionOwnerKept

\* A code that the active release of a module declares is from then on declared
\* by active releases of that module only, whichever releases are activated and
\* deactivated in between and by whom: a permission granted for one module never
\* comes to mean something in another (mysql/release.go:174-192).  The aggregate
\* by itself does not promise this; the catalog does, which remembers the owner
\* of a code that nobody declares.
THEOREM ExclusiveTheorem ==
  ASSUME NEW code \in Permissions, NEW m \in Modules
  PROVE  Spec => [](m \in Declaring(row, code) => [](Declaring(row, code) \subseteq {m}))
<1> DEFINE Owned == catalog[code].owner = m
           Declares == m \in Declaring(row, code)
           Alone == Declaring(row, code) \subseteq {m}
<1>1. IInv /\ Declares => Owned
  BY DEF IInv, RowInv, Publishes
<1>2. IInv /\ Owned => Alone
  BY DEF IInv, RowInv, Publishes
<1>3. Owned /\ [\A p \in Permissions :
                  catalog[p].owner # NoOwner => catalog'[p].owner = catalog[p].owner]_vars
        => Owned'
  BY RepositoryAssumption DEF vars
<1> HIDE DEF Owned, Declares, Alone
<1>4. Spec => [](Declares => []Alone)
  BY <1>1, <1>2, <1>3, AlwaysIInv, OwnerTheorem, PTL DEF PermissionOwnerKept
<1>5. QED
  BY <1>4 DEF Declares, Alone

-----------------------------------------------------------------------------
(***************************************************************************)
(* The refinement.  The operations Contract instantiates are the           *)
(* operations of the aggregate, definition by definition.                  *)
(***************************************************************************)

LEMMA SamePrefixes ==
  ASSUME NEW v, NEW w
  PROVE  /\ Contract!NormalizedRoutePrefix(v) = NormalizedRoutePrefix(v)
         /\ Contract!RoutePrefixesOverlap(v, w) = RoutePrefixesOverlap(v, w)
<1>1. Contract!NormalizedRoutePrefix(v) = NormalizedRoutePrefix(v)
  BY DEF Contract!NormalizedRoutePrefix, NormalizedRoutePrefix, Contract!TrimSlashes, TrimSlashes,
         Contract!Slash, Slash, Contract!Root, Root
<1>2. Contract!RoutePrefixesOverlap(v, w) = RoutePrefixesOverlap(v, w)
  BY DEF Contract!RoutePrefixesOverlap, RoutePrefixesOverlap, Contract!Strings!IsPrefix,
         Strings!IsPrefix, Contract!Slash, Slash, Contract!Root, Root
<1>3. QED
  BY <1>1, <1>2

LEMMA SameActiveSets ==
  ASSUME NEW s, NEW a, NEW m, NEW v
  PROVE  /\ Contract!ActiveModules(a) = ActiveModules(a)
         /\ Contract!ActiveManifest(s, a, m) = ActiveManifest(s, a, m)
         /\ Contract!ActiveWith(s, m, v) = ActiveWith(s, m, v)
         /\ Contract!Registered(s, m, v) = Registered(s, m, v)
BY DEF Contract!ActiveManifest, ActiveManifest, Contract!ActiveModules, ActiveModules,
       Contract!ActiveWith, ActiveWith, Contract!Registered, Registered

LEMMA SameValidation ==
  ASSUME NEW s, NEW a
  PROVE  /\ Contract!RoutesDisjoint(s, a) = RoutesDisjoint(s, a)
         /\ Contract!NavigationAgrees(s, a) = NavigationAgrees(s, a)
<1>1. \A p, q : Contract!RoutesConflict(p, q) = RoutesConflict(p, q)
  BY SamePrefixes DEF Contract!RoutesConflict, RoutesConflict
<1>2. Contract!RoutesDisjoint(s, a) = RoutesDisjoint(s, a)
  BY <1>1, SameActiveSets DEF Contract!RoutesDisjoint, RoutesDisjoint
<1>3. \A p, q : Contract!PagesAgree(p, q) = PagesAgree(p, q)
  BY DEF Contract!PagesAgree, PagesAgree, Contract!IconsConflict, IconsConflict
<1>4. Contract!ActivePages(s, a) = ActivePages(s, a)
  BY SameActiveSets DEF Contract!ActivePages, ActivePages
<1>5. Contract!NavigationAgrees(s, a) = NavigationAgrees(s, a)
  BY <1>3, <1>4 DEF Contract!NavigationAgrees, NavigationAgrees
<1>6. QED
  BY <1>2, <1>5

LEMMA SameOperations ==
  ASSUME NEW s, NEW r
  PROVE  /\ Contract!Admission(r) = Admission(r)
         /\ Contract!Result(r, s) = Result(r, s)
         /\ Contract!Effect(r, s) = Effect(r, s)
<1>1. Contract!Admission(r) = Admission(r)
  BY DEF Contract!Admission, Admission
<1>2. \A m : /\ Contract!RegisterResult(s, m) = RegisterResult(s, m)
             /\ Contract!RegisterEffect(s, m) = RegisterEffect(s, m)
  BY SameActiveSets DEF Contract!RegisterResult, RegisterResult, Contract!RegisterEffect, RegisterEffect
<1>3. \A m, v : /\ Contract!ActivateResult(s, m, v) = ActivateResult(s, m, v)
                /\ Contract!ActivateEffect(s, m, v) = ActivateEffect(s, m, v)
  BY SameActiveSets, SameValidation
     DEF Contract!ActivateResult, ActivateResult, Contract!ActivateEffect, ActivateEffect
<1>4. \A m : /\ Contract!DeactivateResult(s, m) = DeactivateResult(s, m)
             /\ Contract!DeactivateEffect(s, m) = DeactivateEffect(s, m)
  BY DEF Contract!DeactivateResult, DeactivateResult, Contract!DeactivateEffect, DeactivateEffect
<1>5. QED
  BY <1>1, <1>2, <1>3, <1>4 DEF Contract!Result, Result, Contract!Effect, Effect

\* What the contract sees of the adapter.
callBar == [w \in Workers |-> CallOf(w)]
lateBar == IF orphan = NoOrphan THEN NoRequest ELSE orphan.request

LEMMA CallShapes ==
  ASSUME IInv, NEW w \in Workers
  PROVE  /\ pc[w] = "idle" => CallOf(w) = Contract!Idle
         /\ Serving(w) => CallOf(w) = Contract!Pending(request[w])
         /\ pc[w] = "answered" => CallOf(w) = Contract!Answered(request[w], result[w])
BY DEF IInv, WorkerInv, ServesAdmitted, Serving, InTransaction, CallOf, Contract!Idle,
       Contract!Pending, Contract!Answered

\* A worker's step leaves the others where they are.
LEMMA OthersKeep ==
  ASSUME IInv, NEW w \in Workers, WorkerStep(w), NEW u \in Workers, u # w
  PROVE  pc'[u] = pc[u] /\ request'[u] = request[u] /\ result'[u] = result[u]
BY DEF IInv, TypeOK, WorkerStep, Submit, Statement, Fail, Load, Decide, PublishPermission,
       RetirePermissions, Persist, Commit, CommitNothing, Conflict, Abandon, LoseCommit,
       Retry, Return, GoTo, Reply

LEMMA CallFrame ==
  ASSUME IInv, NEW w \in Workers, WorkerStep(w)
  PROVE  callBar' = [callBar EXCEPT ![w] = CallOf(w)']
<1>1. \A u \in Workers : u # w => CallOf(u)' = CallOf(u)
  BY OthersKeep DEF CallOf
<1>2. QED
  BY <1>1 DEF callBar

\* A worker that goes on keeps its call; one that answers answers its request.
LEMMA GoToKeepsCall ==
  ASSUME IInv, NEW w \in Workers, WorkerStep(w), Serving(w), NEW step, GoTo(w, step),
         step \in InTransaction \cup {"backoff"}
  PROVE  callBar' = callBar
<1>1. CallOf(w)' = CallOf(w)
  BY DEF IInv, TypeOK, GoTo, CallOf, Serving, InTransaction
<1>2. QED
  BY <1>1, CallFrame DEF callBar

LEMMA ReplyAnswers ==
  ASSUME IInv, NEW w \in Workers, WorkerStep(w), Serving(w), NEW o, Reply(w, o)
  PROVE  /\ callBar[w] = Contract!Pending(request[w])
         /\ callBar' = [callBar EXCEPT ![w] = Contract!Answered(request[w], o)]
<1>1. CallOf(w)' = Contract!Answered(request[w], o)
  BY DEF IInv, TypeOK, Reply, CallOf, Contract!Answered
<1>2. QED
  BY <1>1, CallShapes, CallFrame DEF callBar

LEMMA Answers ==
  ASSUME NEW w \in Workers, NEW r, NEW o, callBar[w] = Contract!Pending(r),
         callBar' = [callBar EXCEPT ![w] = Contract!Answered(r, o)]
  PROVE  Contract!IsPending(w) /\ callBar[w].request = r /\ Contract!Answer(w, o)
<1>1. callBar[w].status = "pending" /\ callBar[w].request = r
  BY DEF Contract!Pending
<1>2. Contract!IsPending(w)
  BY <1>1 DEF callBar, Contract!IsPending
<1>3. callBar' = [callBar EXCEPT ![w] = Contract!Answered(callBar[w].request, o)]
  BY <1>1
<1>4. Contract!Answer(w, o)
  BY <1>3 DEF callBar, Contract!Answer
<1>5. QED
  BY <1>1, <1>2, <1>4

LEMMA NoDoubtSeen == orphan = NoOrphan => lateBar = NoRequest
BY DEF lateBar

LEMMA SubmitRefines ==
  ASSUME IInv, NEW w \in Workers, NEW req \in Traffic, Submit(w, req)
  PROVE  Contract!Invoke(w, req)
<1>1. callBar[w] = Contract!Idle /\ result[w] = NoResult
  BY CallShapes DEF callBar, Submit, IInv, WorkerInv, ServesAdmitted
<1>2. CallOf(w)' = IF Admission(req) = "admitted" THEN Contract!Pending(req)
                   ELSE Contract!Answered(req, Admission(req))
  BY <1>1 DEF IInv, TypeOK, Submit, CallOf, Contract!Pending, Contract!Answered
<1>3. callBar' = [callBar EXCEPT ![w] = IF Admission(req) = "admitted" THEN Contract!Pending(req)
                                        ELSE Contract!Answered(req, Admission(req))]
  BY <1>2, CallFrame DEF WorkerStep
<1>4. row' = row /\ lateBar' = lateBar /\ (row.revision < MaxRevision \/ Admission(req) # "admitted")
  BY DEF Submit, serverVars, lateBar
<1>5. QED
  BY <1>1, <1>3, <1>4, SameOperations DEF Contract!Invoke, callBar, lateBar

LEMMA TakesEffect ==
  ASSUME IInv, NEW w \in Workers, WorkerStep(w), Serving(w), Reply(w, Result(request[w], row)),
         row' = Effect(request[w], row), orphan = NoOrphan, orphan' = orphan
  PROVE  Contract!Apply(w)
<1>1. /\ callBar[w] = Contract!Pending(request[w])
      /\ callBar' = [callBar EXCEPT ![w] = Contract!Answered(request[w], Result(request[w], row))]
  BY ReplyAnswers
<1>2. /\ Contract!IsPending(w) /\ callBar[w].request = request[w]
      /\ Contract!Answer(w, Result(request[w], row))
  BY <1>1, Answers
<1>3. lateBar = NoRequest /\ lateBar' = NoRequest
  BY NoDoubtSeen DEF lateBar
<1>4. QED
  BY <1>2, <1>3, SameOperations DEF Contract!Apply, callBar, lateBar

LEMMA GivesUp ==
  ASSUME IInv, NEW w \in Workers, WorkerStep(w), Serving(w), Reply(w, "unavailable"),
         row' = row, orphan' = orphan
  PROVE  Contract!Refuse(w)
<1>1. Contract!IsPending(w) /\ Contract!Answer(w, "unavailable")
  BY ReplyAnswers, Answers
<1>2. lateBar' = lateBar
  BY DEF lateBar
<1>3. QED
  BY <1>1, <1>2 DEF Contract!Refuse, lateBar

LEMMA LoseCommitRefines ==
  ASSUME IInv, NEW w \in Workers, LoseCommit(w)
  PROVE  Contract!Doubt(w)
<1>1. /\ WorkerStep(w) /\ Serving(w) /\ Reply(w, "unavailable") /\ row' = row
      /\ orphan = NoOrphan /\ orphan'.request = request[w] /\ orphan' # NoOrphan
  <2>1. pc[w] = "commit" /\ orphan'.request = request[w]
    BY DEF LoseCommit
  <2>2. orphan' \in Orphans
    BY <2>1, WritingFacts DEF IInv, TypeOK, LoseCommit, Orphans
  <2>3. QED
    BY <2>1, <2>2, WritingFacts, RepositoryAssumption DEF LoseCommit, WorkerStep, Fail
<1>2. /\ Contract!IsPending(w) /\ callBar[w].request = request[w]
      /\ Contract!Answer(w, "unavailable")
  BY <1>1, ReplyAnswers, Answers
<1>3. lateBar = NoRequest /\ lateBar' = request[w]
  BY <1>1 DEF lateBar
<1>4. QED
  BY <1>1, <1>2, <1>3 DEF Contract!Doubt, callBar, lateBar

LEMMA ReturnRefines ==
  ASSUME IInv, NEW w \in Workers, Return(w)
  PROVE  Contract!Return(w)
<1>1. callBar[w].status = "answered"
  BY DEF callBar, CallOf, Return
<1>2. CallOf(w)' = Contract!Idle
  BY DEF IInv, TypeOK, Return, CallOf, Contract!Idle
<1>3. callBar' = [callBar EXCEPT ![w] = Contract!Idle]
  BY <1>2, CallFrame DEF WorkerStep
<1>4. row' = row /\ lateBar' = lateBar
  BY DEF Return, serverVars, lateBar
<1>5. QED
  BY <1>1, <1>3, <1>4 DEF Contract!Return, callBar, lateBar

LEMMA SettleRefines ==
  ASSUME IInv, Settle
  PROVE  Contract!TakeEffectLate \/ Contract!NeverTakeEffect \/ UNCHANGED Contract!vars
<1>1. callBar' = callBar /\ lateBar' = NoRequest
  BY DEF Settle, SettleCommit, SettleRollback, workerVars, callBar, CallOf, lateBar
<1>2. orphan # NoOrphan => /\ lateBar = orphan.request /\ lateBar # NoRequest
                           /\ orphan.row = Effect(lateBar, row)
  BY RepositoryAssumption DEF IInv, TypeOK, OrphanInv, Orphans, lateBar
<1>3. CASE SettleCommit
  <2>1. lateBar # NoRequest /\ row' = Contract!Effect(lateBar, row)
    BY <1>2, <1>3, SameOperations DEF SettleCommit
  <2>2. Contract!TakeEffectLate
    BY <1>1, <2>1 DEF Contract!TakeEffectLate, callBar, lateBar
  <2>3. QED
    BY <2>2
<1>4. CASE SettleRollback /\ orphan # NoOrphan
  <2>1. Contract!NeverTakeEffect
    BY <1>1, <1>2, <1>4 DEF SettleRollback, Contract!NeverTakeEffect, callBar, lateBar
  <2>2. QED
    BY <2>1
<1>5. CASE SettleRollback /\ orphan = NoOrphan
  <2>1. UNCHANGED Contract!vars
    BY <1>1, <1>5 DEF SettleRollback, Contract!vars, callBar, lateBar
  <2>2. QED
    BY <2>1
<1>6. QED
  BY <1>3, <1>4, <1>5 DEF Settle

\* Statements before the last one are invisible to callers.
LEMMA SilentStep ==
  ASSUME IInv, NEW w \in Workers, WorkerStep(w), Serving(w),
         NEW step \in InTransaction \cup {"backoff"}, GoTo(w, step), row' = row, orphan' = orphan
  PROVE  UNCHANGED Contract!vars
<1>1. callBar' = callBar /\ lateBar' = lateBar
  BY GoToKeepsCall DEF lateBar
<1>2. QED
  BY <1>1 DEF Contract!vars, callBar, lateBar

LEMMA DecideRefines ==
  ASSUME IInv, NEW w \in Workers, Decide(w)
  PROVE  Contract!Apply(w) \/ UNCHANGED Contract!vars
<1>1. /\ Serving(w) /\ WorkerStep(w) /\ local[w] = row /\ row \in RegistryStates
      /\ request[w] \in Requests /\ Admitted(request[w]) /\ orphan = NoOrphan
  BY HolderMeetsNoDoubt
     DEF IInv, TypeOK, WorkerInv, ServesAdmitted, LoadedIsCurrent, Decide, Serving, Holding,
         InTransaction, WorkerStep, Statement
<1>2. row' = row /\ orphan' = orphan
  BY DEF Decide
<1>3. CASE Result(request[w], row) # "ok"
  <2>1. Reply(w, Result(request[w], row)) /\ row' = Effect(request[w], row)
    BY <1>1, <1>2, <1>3, RefusedHasNoEffect DEF Decide
  <2>2. QED
    BY <1>1, <1>2, <2>1, TakesEffect
<1>4. CASE Result(request[w], row) = "ok"
  <2>1. GoTo(w, "commit_nothing") \/ GoTo(w, "persist") \/ GoTo(w, "catalog")
    BY <1>1, <1>4 DEF Decide
  <2>2. QED
    BY <1>1, <1>2, <2>1, SilentStep DEF InTransaction
<1>5. QED
  BY <1>3, <1>4

LEMMA StatementRefines ==
  ASSUME IInv, NEW w \in Workers, Statement(w)
  PROVE  Contract!Apply(w) \/ Contract!Refuse(w) \/ UNCHANGED Contract!vars
<1>0. WorkerStep(w)
  BY DEF WorkerStep
<1>1. CASE Load(w)
  BY <1>0, <1>1, SilentStep DEF Load, Serving, InTransaction
<1>2. CASE Decide(w)
  BY <1>2, DecideRefines
<1>3. ASSUME NEW p \in Permissions, PublishPermission(w, p)
      PROVE  Contract!Refuse(w) \/ UNCHANGED Contract!vars
  <2>1. Serving(w) /\ row' = row /\ orphan' = orphan
    BY <1>3 DEF PublishPermission, Serving, InTransaction
  <2>2. CASE Reply(w, "unavailable")
    BY <1>0, <2>1, <2>2, GivesUp
  <2>3. CASE UNCHANGED <<pc, request, result>>
    <3>1. UNCHANGED Contract!vars
      BY <2>1, <2>3 DEF Contract!vars, CallOf
    <3>2. QED
      BY <3>1
  <2>4. QED
    BY <1>3, <2>2, <2>3 DEF PublishPermission
<1>4. CASE RetirePermissions(w)
  BY <1>0, <1>4, SilentStep DEF RetirePermissions, serverVars, Serving, InTransaction
<1>5. CASE Persist(w)
  BY <1>0, <1>5, SilentStep DEF Persist, serverVars, Serving, InTransaction
<1>6. CASE Commit(w)
  <2>1. /\ Serving(w) /\ orphan = NoOrphan /\ orphan' = orphan
        /\ Reply(w, Result(request[w], row)) /\ row' = Effect(request[w], row)
    BY <1>6, WritingFacts DEF Commit
  <2>2. QED
    BY <1>0, <2>1, TakesEffect
<1>7. CASE CommitNothing(w)
  <2>1. /\ Serving(w) /\ orphan = NoOrphan /\ orphan' = orphan
        /\ Reply(w, Result(request[w], row)) /\ row' = Effect(request[w], row)
    BY <1>7, HolderMeetsNoDoubt
       DEF CommitNothing, IInv, WorkerInv, LoadedIsCurrent, Serving, InTransaction, Holding
  <2>2. QED
    BY <1>0, <2>1, TakesEffect
<1>8. QED
  BY <1>1, <1>2, <1>3, <1>4, <1>5, <1>6, <1>7 DEF Statement

LEMMA FailureRefines ==
  ASSUME IInv, NEW w \in Workers, Fail(w) \/ Retry(w)
  PROVE  Contract!Refuse(w) \/ Contract!Doubt(w) \/ UNCHANGED Contract!vars
<1>1. WorkerStep(w)
  BY DEF WorkerStep
<1>2. CASE Conflict(w)
  BY <1>1, <1>2, SilentStep DEF Conflict, Serving, InTransaction
<1>3. CASE Abandon(w)
  BY <1>1, <1>3, GivesUp DEF Abandon, Serving
<1>4. CASE LoseCommit(w)
  BY <1>4, LoseCommitRefines
<1>5. CASE Retry(w)
  BY <1>1, <1>5, SilentStep, GivesUp DEF Retry, serverVars, Serving, InTransaction
<1>6. QED
  BY <1>2, <1>3, <1>4, <1>5 DEF Fail

LEMMA StepRefines == IInv /\ [Next]_vars => [Contract!Next]_Contract!vars
<1> SUFFICES ASSUME IInv, [Next]_vars PROVE Contract!Next \/ UNCHANGED Contract!vars
  OBVIOUS
<1>1. ASSUME NEW w \in Workers, WorkerStep(w)
      PROVE  Contract!Next \/ UNCHANGED Contract!vars
  BY <1>1, SubmitRefines, StatementRefines, FailureRefines, ReturnRefines
     DEF WorkerStep, Contract!Next
<1>2. CASE Settle
  BY <1>2, SettleRefines DEF Contract!Next
<1>3. CASE UNCHANGED vars
  BY <1>3 DEF vars, Contract!vars, CallOf
<1>4. QED
  BY <1>1, <1>2, <1>3 DEF Next, WorkerStep

\* Transactions, retries, lost commits and all, the adapter looks to its callers
\* like single steps of the aggregate.
THEOREM RefinementTheorem == Spec => ImplementsContract
<1>1. Init => Contract!Init
  <2> SUFFICES ASSUME Init PROVE Contract!Init
    OBVIOUS
  <2>1. row = Contract!NewRegistryState
    BY DEF Init, NewRegistryState, Contract!NewRegistryState
  <2>2. \A w \in Workers : CallOf(w) = Contract!Idle
    BY DEF Init, CallOf, Contract!Idle
  <2>3. QED
    BY <2>1, <2>2 DEF Init, Contract!Init
<1>2. Spec => []IInv
  BY AlwaysIInv
<1>3. QED
  BY <1>1, <1>2, StepRefines, PTL DEF Spec, ImplementsContract, Contract!Spec

-----------------------------------------------------------------------------
(***************************************************************************)
(* What the contract promises, of the row in the database.                 *)
(***************************************************************************)
\* The row changes only by the effect of one admitted request on the row.
LEMMA RowMoves ==
  ASSUME IInv, [Next]_vars, row' # row
  PROVE  \E r \in Requests : Admitted(r) /\ row' = Effect(r, row)
<1>1. ASSUME NEW w \in Workers, Commit(w)
      PROVE  request[w] \in Requests /\ Admitted(request[w]) /\ row' = Effect(request[w], row)
  BY <1>1, WritingFacts DEF Commit
<1>2. CASE SettleCommit
  <2>1. Admitted(orphan.request) /\ row' = Effect(orphan.request, row)
    BY <1>2 DEF SettleCommit, IInv, OrphanInv
  <2>2. orphan.request \in Requests
    BY <1>2 DEF SettleCommit, IInv, TypeOK, Orphans
  <2>3. QED
    BY <2>1, <2>2
<1>3. QED
  BY <1>1, <1>2
     DEF Next, Submit, Statement, Fail, Load, Decide, PublishPermission, RetirePermissions,
         Persist, CommitNothing, Conflict, Abandon, LoseCommit, Retry, Return, Settle,
         SettleRollback, serverVars, vars

RowKeeps ==
  /\ \A m \in Modules, v \in Versions :
       Registered(row, m, v) => row'.releases[m][v] = row.releases[m][v]
  /\ row'.active # row.active => row'.revision = row.revision + 1
  /\ row'.active = row.active => row'.revision = row.revision
  /\ row.active[Platform] # NoVersion => row'.active[Platform] # NoVersion

LEMMA RowKept == IInv /\ [Next]_vars => RowKeeps
<1> SUFFICES ASSUME IInv, [Next]_vars PROVE RowKeeps
  OBVIOUS
<1>1. CASE row' = row
  BY <1>1 DEF RowKeeps
<1>2. CASE row' # row
  <2>1. PICK r \in Requests : Admitted(r) /\ row' = Effect(r, row)
    BY <1>2, RowMoves
  <2>2. row \in RegistryStates
    BY DEF IInv, TypeOK
  <2>3. QED
    BY <2>1, <2>2, EffectKeepsReleases, EffectRevision, EffectKeepsPlatform DEF RowKeeps
<1>3. QED
  BY <1>1, <1>2

\* The database keeps what the contract promises of the aggregate, although
\* attempts are retried, abandoned and committed late: its active set is always
\* admissible, a registered release is never replaced or dropped, a revision
\* names one active set and the control plane stays (mysql/release.go:45-102).
THEOREM PromiseTheorem ==
  Spec => /\ []Contract!ActiveAdmissible
          /\ Contract!ReleasesImmutable
          /\ Contract!RevisionCountsActiveSets
          /\ Contract!PlatformStaysActive
<1>1. IInv => Contract!ActiveAdmissible
  BY SameActiveSets, SameValidation
     DEF IInv, RowInv, ActiveRegistered, Admissible, Contract!ActiveAdmissible,
         Contract!ActiveRegistered, Contract!Admissible
<1>2. IInv /\ [Next]_vars =>
        [\A m \in Modules, v \in Versions :
           Contract!Registered(row, m, v) =>
             row'.releases[m][v] = row.releases[m][v]]_Contract!vars
  <2>1. \A m \in Modules, v \in Versions : Contract!Registered(row, m, v) = Registered(row, m, v)
    BY SameActiveSets
  <2>2. QED
    BY <2>1, RowKept DEF RowKeeps
<1>3. IInv /\ [Next]_vars =>
        [/\ row'.active # row.active => row'.revision = row.revision + 1
         /\ row'.active = row.active => row'.revision = row.revision]_Contract!vars
  BY RowKept DEF RowKeeps
<1>4. IInv /\ [Next]_vars =>
        [row.active[Platform] # NoVersion => row'.active[Platform] # NoVersion]_Contract!vars
  BY RowKept DEF RowKeeps
<1>5. QED
  BY <1>1, <1>2, <1>3, <1>4, AlwaysIInv, PTL
     DEF Spec, Contract!ReleasesImmutable, Contract!RevisionCountsActiveSets,
         Contract!PlatformStaysActive

Acknowledged(w) ==
  (pc[w] = "answered" /\ request[w].kind = "register" /\ result[w] = "ok") =>
    LET manifest == request[w].manifest
    IN  /\ Registered(row, manifest.id, manifest.version)
        /\ row.releases[manifest.id][manifest.version].digest = manifest.digest

\* Only a commit, or a release that is there already, is answered "ok".
LEMMA AcceptedIsStored ==
  ASSUME IInv, [Next]_vars, NEW w \in Workers,
         pc'[w] = "answered", pc[w] # "answered", result'[w] = "ok"
  PROVE  /\ request'[w] = request[w] /\ request[w] \in Requests /\ Admitted(request[w])
         /\ Result(request[w], row) = "ok" /\ row' = Effect(request[w], row)
<1>1. ASSUME WorkerStep(w) PROVE Commit(w) \/ CommitNothing(w)
  <2>1. pc'[w] = pc[w] => pc'[w] # "answered"
    OBVIOUS
  <2>2. ASSUME NEW req \in Traffic, Submit(w, req) PROVE FALSE
    <3>1. req \in Requests /\ (Admission(req) # "admitted" => result'[w] = Admission(req))
      BY <2>2, RepositoryAssumption DEF Submit, IInv, TypeOK
    <3>2. Admission(req) # "admitted"
      BY <2>2 DEF Submit, IInv, TypeOK
    <3>3. QED
      BY <3>1, <3>2, AdmissionType DEF Admitted
  <2>3. ASSUME Decide(w) PROVE FALSE
    <3>1. Result(request[w], local[w]) = "ok" => pc'[w] \in {"commit_nothing", "persist", "catalog"}
      BY <2>3 DEF Decide, GoTo, IInv, TypeOK
    <3>2. Result(request[w], local[w]) # "ok" => result'[w] = Result(request[w], local[w])
      BY <2>3 DEF Decide, Reply, IInv, TypeOK
    <3>3. QED
      BY <3>1, <3>2
  <2>4. ASSUME NEW o, Reply(w, o), o # "ok" PROVE FALSE
    BY <2>4 DEF Reply, IInv, TypeOK
  <2>5. ASSUME NEW step, GoTo(w, step), step # "answered" PROVE FALSE
    BY <2>5 DEF GoTo, IInv, TypeOK
  <2>6. ~Return(w)
    BY DEF Return
  <2>7. ASSUME NEW p \in Permissions, PublishPermission(w, p) PROVE FALSE
    BY <2>1, <2>4, <2>7 DEF PublishPermission
  <2>8. ~Load(w) /\ ~RetirePermissions(w) /\ ~Persist(w) /\ ~Conflict(w)
    BY <2>5 DEF Load, RetirePermissions, Persist, Conflict
  <2>9. ~Abandon(w) /\ ~LoseCommit(w) /\ ~Retry(w)
    BY <2>4, <2>5 DEF Abandon, LoseCommit, Retry
  <2>10. QED
    BY <1>1, <2>2, <2>3, <2>6, <2>7, <2>8, <2>9 DEF WorkerStep, Statement, Fail
<1>2. ~Settle /\ ~UNCHANGED vars
  BY DEF Settle, SettleRollback, SettleCommit, workerVars, vars
<1>3. Commit(w) \/ CommitNothing(w)
  BY <1>1, <1>2, OthersKeep DEF Next, WorkerStep
<1>4. CASE Commit(w)
  BY <1>4, WritingFacts DEF Commit, Reply
<1>5. CASE CommitNothing(w)
  BY <1>5
     DEF CommitNothing, Reply, IInv, TypeOK, WorkerInv, ServesAdmitted, LoadedIsCurrent, Serving,
         InTransaction
<1>6. QED
  BY <1>3, <1>4, <1>5

LEMMA AnswerStays ==
  ASSUME IInv, [Next]_vars, NEW w \in Workers, pc[w] = "answered", pc'[w] = "answered"
  PROVE  request'[w] = request[w] /\ result'[w] = result[w]
<1>1. ~WorkerStep(w)
  BY DEF WorkerStep, Submit, Statement, Fail, Load, Decide, PublishPermission, RetirePermissions,
         Persist, Commit, CommitNothing, Conflict, Abandon, LoseCommit, Retry, Return,
         InTransaction, IInv, TypeOK
<1>2. CASE Settle \/ UNCHANGED vars
  BY <1>2 DEF Settle, SettleRollback, SettleCommit, workerVars, vars
<1>3. QED
  BY <1>1, <1>2, OthersKeep DEF Next, WorkerStep

LEMMA AcknowledgedStep ==
  ASSUME IInv, [Next]_vars, NEW w \in Workers, Acknowledged(w)
  PROVE  Acknowledged(w)'
<1> SUFFICES ASSUME pc'[w] = "answered", request'[w].kind = "register", result'[w] = "ok"
             PROVE  LET manifest == request'[w].manifest
                    IN  /\ Registered(row', manifest.id, manifest.version)
                        /\ row'.releases[manifest.id][manifest.version].digest = manifest.digest
  BY DEF Acknowledged
<1> DEFINE m == request[w].manifest
<1>1. CASE pc[w] = "answered"
  <2>1. request'[w] = request[w] /\ result'[w] = result[w]
    BY <1>1, AnswerStays
  <2>2. m \in Manifests
    BY <1>1, <2>1 DEF IInv, WorkerInv, ServesAdmitted, Requests
  <2>3. /\ Registered(row, m.id, m.version)
        /\ row.releases[m.id][m.version].digest = m.digest
    BY <1>1, <2>1 DEF Acknowledged
  <2>4. row'.releases[m.id][m.version] = row.releases[m.id][m.version]
    BY <2>2, <2>3, ManifestAssumption, RowKept DEF RowKeeps
  <2>5. QED
    BY <2>1, <2>3, <2>4 DEF Registered
<1>2. CASE pc[w] # "answered"
  <2>1. /\ request'[w] = request[w] /\ request[w] \in Requests /\ Admitted(request[w])
        /\ Result(request[w], row) = "ok" /\ row' = Effect(request[w], row)
    BY <1>2, AcceptedIsStored
  <2>2. /\ m \in Manifests /\ RegisterResult(row, m) = "ok" /\ row' = RegisterEffect(row, m)
        /\ row \in RegistryStates
    BY <2>1, AdmittedNames, KindOfOperation DEF IInv, TypeOK
  <2>3. QED
    BY <2>1, <2>2, AcceptedRegistration
<1>3. QED
  BY <1>1, <1>2

\* A release whose registration was answered "ok" is in the database with the
\* digest that was returned, whatever other workers commit meanwhile
\* (mysql/release.go:45-58).
THEOREM DurabilityTheorem == Spec => []Contract!AcknowledgedReleaseKept
<1> DEFINE AllAcknowledged == \A w \in Workers : Acknowledged(w)
<1>1. Init => AllAcknowledged
  BY DEF Init, Acknowledged
<1>2. IInv /\ AllAcknowledged /\ [Next]_vars => AllAcknowledged'
  BY AcknowledgedStep
<1>3. AllAcknowledged => Contract!AcknowledgedReleaseKept
  BY SameActiveSets DEF Acknowledged, CallOf, Contract!AcknowledgedReleaseKept
<1> HIDE DEF AllAcknowledged
<1>4. QED
  BY <1>1, <1>2, <1>3, AlwaysIInv, PTL DEF Spec

-----------------------------------------------------------------------------
(***************************************************************************)
(* Progress, as far as it is a matter of single steps: who can be waited   *)
(* for, and that a request which is worked on comes nearer its answer with *)
(* every step of its worker.  That the steps are taken is the fairness     *)
(* TLC's runs assume.                                                      *)
(***************************************************************************)

\* A worker that holds the lock is in a transaction that has loaded the row.
HolderWorks == \A w \in Workers : lock = w => pc[w] \in Holding

LEMMA HolderWorksStep == IInv /\ HolderWorks /\ [Next]_vars => HolderWorks'
<1> SUFFICES ASSUME IInv, HolderWorks, [Next]_vars, NEW u \in Workers, lock' = u
             PROVE  pc'[u] \in Holding
  BY DEF HolderWorks
<1>1. lock = u => pc[u] \in Holding
  BY DEF HolderWorks
<1>2. u # Free /\ u # Server
  BY RepositoryAssumption
<1>3. ASSUME NEW w \in Workers, WorkerStep(w), w # u PROVE pc'[u] \in Holding
  <2>1. lock = u
    BY <1>2, <1>3
       DEF WorkerStep, Submit, Statement, Fail, Load, Decide, PublishPermission,
           RetirePermissions, Persist, Commit, CommitNothing, Conflict, Abandon, LoseCommit,
           Retry, Return, Unlock, serverVars
  <2>2. QED
    BY <1>1, <1>3, <2>1, OthersKeep
<1>4. ASSUME WorkerStep(u) PROVE pc'[u] \in Holding
  <2>1. ASSUME NEW step, GoTo(u, step), step \in Holding PROVE pc'[u] \in Holding
    BY <2>1 DEF GoTo, IInv, TypeOK
  <2>2. ASSUME Unlock(u) PROVE FALSE
    BY <1>2, <2>2 DEF Unlock
  <2>3. ASSUME NEW req \in Traffic, Submit(u, req) PROVE FALSE
    BY <1>1, <2>3 DEF Submit, serverVars, Holding, InTransaction
  <2>4. CASE Load(u) \/ RetirePermissions(u) \/ Persist(u)
    BY <2>1, <2>4 DEF Load, RetirePermissions, Persist, Holding, InTransaction
  <2>5. CASE Decide(u)
    BY <2>1, <2>2, <2>5 DEF Decide, Holding, InTransaction
  <2>6. ASSUME NEW p \in Permissions, PublishPermission(u, p) PROVE pc'[u] \in Holding
    BY <1>1, <2>2, <2>6 DEF PublishPermission, Holding, InTransaction
  <2>7. ~Commit(u) /\ ~CommitNothing(u) /\ ~Conflict(u) /\ ~LoseCommit(u)
    BY <1>2, <2>2 DEF Commit, CommitNothing, Conflict, LoseCommit
  <2>8. ~Abandon(u)
    BY <1>2 DEF Abandon
  <2>9. ~Retry(u) /\ ~Return(u)
    BY <1>1 DEF Retry, Return, serverVars, Holding, InTransaction
  <2>10. QED
    BY <1>4, <2>3, <2>4, <2>5, <2>6, <2>7, <2>8, <2>9 DEF WorkerStep, Statement, Fail
<1>5. ASSUME Settle PROVE FALSE
  BY <1>2, <1>5 DEF Settle, SettleCommit, SettleRollback
<1>6. CASE UNCHANGED vars
  BY <1>1, <1>6 DEF vars
<1>7. QED
  BY <1>3, <1>4, <1>5, <1>6 DEF Next, WorkerStep

\* A worker that waits for the row lock waits for one that waits for nobody: a
\* transaction that has what it needs, or the server, which settles what was
\* left to it.  No request is answered while its worker keeps the lock, and no
\* back-off holds it (mysql/mysql.go:19-53).
WaitsForWork ==
  /\ \A w \in Workers : (pc[w] = "load" /\ lock # Free) =>
       \/ lock = Server
       \/ \E h \in Workers \ {w} : lock = h /\ pc[h] \in Holding
  /\ \A w \in Workers : pc[w] \in {"idle", "backoff", "answered"} => lock # w

\* For any number of workers: no transaction waits for one that waits for it.
THEOREM WaitTheorem == Spec => []WaitsForWork
<1>1. Init => HolderWorks
  BY RepositoryAssumption DEF Init, HolderWorks
<1>2. IInv /\ HolderWorks => WaitsForWork
  BY DEF IInv, TypeOK, HolderWorks, WaitsForWork, Holding, InTransaction
<1>3. QED
  BY <1>1, <1>2, HolderWorksStep, AlwaysIInv, PTL DEF Spec

\* Whoever has the lock, the next one has it only after it was free or left to
\* the server.
LockIsLetGo == [][lock # Free /\ lock' # lock => lock' \in {Free, Server}]_vars

\* A row lock is never passed on or taken away: it becomes free, or is left to
\* the server, before anyone else has it (mysql/mysql.go:37-53).
THEOREM LetGoTheorem == Spec => LockIsLetGo
<1>1. IInv /\ [Next]_vars => [lock # Free /\ lock' # lock => lock' \in {Free, Server}]_vars
  <2> SUFFICES ASSUME IInv, [Next]_vars, lock # Free, lock' # lock PROVE lock' \in {Free, Server}
    OBVIOUS
  <2>1. ASSUME NEW w \in Workers, WorkerStep(w) PROVE lock' \in {Free, Server}
    BY <2>1
       DEF WorkerStep, Submit, Statement, Fail, Load, Decide, PublishPermission,
           RetirePermissions, Persist, Commit, CommitNothing, Conflict, Abandon, LoseCommit,
           Retry, Return, Unlock, serverVars
  <2>2. QED
    BY <2>1 DEF Next, WorkerStep, Settle, SettleCommit, SettleRollback, vars
<1>2. QED
  BY <1>1, AlwaysIInv, PTL DEF Spec, LockIsLetGo

\* How many steps an attempt has left, the publishing of permissions apart.
StepsLeft ==
  [load |-> 5, decide |-> 4, catalog |-> 3, persist |-> 2, commit |-> 1, commit_nothing |-> 1,
   backoff |-> 0]

\* A step brings w nearer its answer: it has it, or fewer attempts left, or as
\* many and fewer steps of this one, or as many and fewer permissions to publish.
Nearer(w) ==
  \/ pc'[w] = "answered"
  \/ attempt'[w] \in (attempt[w] + 1)..MaxAttempts /\ pc'[w] \in DOMAIN StepsLeft
  \/ /\ attempt'[w] = attempt[w]
     /\ pc'[w] \in DOMAIN StepsLeft
     /\ \/ StepsLeft[pc'[w]] < StepsLeft[pc[w]]
        \/ /\ pc'[w] = pc[w]
           /\ todo'[w] \subseteq todo[w]
           /\ todo'[w] # todo[w]

\* Nothing of w changes.
Rests(w) ==
  /\ pc'[w] = pc[w] /\ request'[w] = request[w] /\ result'[w] = result[w]
  /\ attempt'[w] = attempt[w]
  /\ local'[w] = local[w] /\ draft'[w] = draft[w] /\ todo'[w] = todo[w]

LEMMA OwnStepIsNearer ==
  ASSUME IInv, NEW w \in Workers, Serving(w), WorkerStep(w)
  PROVE  Nearer(w)
<1> USE DEF IInv, TypeOK, StepsLeft
<1>1. ASSUME NEW o, Reply(w, o) PROVE Nearer(w)
  BY <1>1 DEF Reply, Nearer
<1>2. ~(\E req \in Traffic : Submit(w, req)) /\ ~Return(w)
  BY DEF Submit, Return, Serving, InTransaction
<1>3. ASSUME NEW step \in DOMAIN StepsLeft, GoTo(w, step), UNCHANGED attempt,
             StepsLeft[step] < StepsLeft[pc[w]]
      PROVE  Nearer(w)
  BY <1>3 DEF GoTo, Nearer
<1>4. CASE Load(w)
  BY <1>3, <1>4 DEF Load
<1>5. CASE Decide(w)
  BY <1>1, <1>3, <1>5 DEF Decide
<1>6. ASSUME NEW p \in Permissions, PublishPermission(w, p) PROVE Nearer(w)
  <2>1. CASE pc' = pc /\ todo' = [todo EXCEPT ![w] = @ \ {p}]
    BY <1>6, <2>1 DEF PublishPermission, Nearer
  <2>2. QED
    BY <1>1, <1>6, <2>1 DEF PublishPermission
<1>7. CASE RetirePermissions(w) \/ Persist(w)
  BY <1>3, <1>7 DEF RetirePermissions, Persist, serverVars
<1>8. CASE Commit(w) \/ CommitNothing(w) \/ Abandon(w) \/ LoseCommit(w)
  BY <1>1, <1>8 DEF Commit, CommitNothing, Abandon, LoseCommit
<1>9. CASE Conflict(w)
  BY <1>3, <1>9 DEF Conflict
<1>10. CASE Retry(w)
  <2>1. CASE attempt[w] < MaxAttempts /\ attempt' = [attempt EXCEPT ![w] = @ + 1] /\ GoTo(w, "load")
    BY <2>1, RepositoryAssumption DEF GoTo, Nearer
  <2>2. QED
    BY <1>1, <1>10, <2>1 DEF Retry
<1>11. QED
  BY <1>2, <1>4, <1>5, <1>6, <1>7, <1>8, <1>9, <1>10 DEF WorkerStep, Statement, Fail

\* Whatever fails and is tried again, a request that is worked on comes nearer
\* its answer with every step of its worker, and no other worker, nor the server,
\* sets it back: the loop of transaction() ends, and so does each attempt
\* (mysql/mysql.go:19-35; mysql/release.go:174).
WorkIsBounded == [][\A w \in Workers : Serving(w) => Rests(w) \/ Nearer(w)]_vars

\* For any number of workers, permissions and attempts: no worker goes back.
THEOREM BoundedWorkTheorem == Spec => WorkIsBounded
<1>1. IInv /\ [Next]_vars => [\A w \in Workers : Serving(w) => Rests(w) \/ Nearer(w)]_vars
  <2> SUFFICES ASSUME IInv, [Next]_vars, NEW w \in Workers, Serving(w)
               PROVE  Rests(w) \/ Nearer(w)
    OBVIOUS
  <2>1. CASE WorkerStep(w)
    BY <2>1, OwnStepIsNearer
  <2>2. ASSUME NEW u \in Workers, WorkerStep(u), u # w PROVE Rests(w)
    BY <2>2
       DEF Rests, IInv, TypeOK, WorkerStep, Submit, Statement, Fail, Load, Decide,
           PublishPermission, RetirePermissions, Persist, Commit, CommitNothing, Conflict,
           Abandon, LoseCommit, Retry, Return, GoTo, Reply, DropWork, KeepWork
  <2>3. CASE Settle \/ UNCHANGED vars
    BY <2>3 DEF Rests, Settle, SettleCommit, SettleRollback, workerVars, vars
  <2>4. QED
    BY <2>1, <2>2, <2>3 DEF Next, WorkerStep
<1>2. QED
  BY <1>1, AlwaysIInv, PTL DEF Spec, WorkIsBounded

-----------------------------------------------------------------------------
(***************************************************************************)
(* The two places where permissions are published, the catalog in the      *)
(* database and the snapshot Identity reads over gRPC, say the same,       *)
(* although the first is kept up to date row by row and the second         *)
(* computed from the documents (ActiveCapabilitySnapshot, release.go:222). *)
(***************************************************************************)
CatalogIsSnapshot ==
  /\ \A entry \in ActiveCapabilitySnapshot(row) : \A p \in entry.permissions :
       /\ p \in Permissions
       /\ catalog[p] = [owner |-> entry.module, active |-> TRUE, version |-> entry.version]
  /\ \A p \in Permissions : catalog[p].active =>
       \E entry \in ActiveCapabilitySnapshot(row) :
         entry.module = catalog[p].owner /\ entry.version = catalog[p].version /\ p \in entry.permissions

\* The two agree after every commit, and no two modules of a snapshot declare the
\* same code.
THEOREM SnapshotTheorem == Spec => []CatalogIsSnapshot
<1>1. ASSUME IInv PROVE CatalogIsSnapshot
  <2> DEFINE Document(m) == ActiveManifest(row, row.active, m)
             Entry(m) == [module      |-> m,
                          version     |-> row.active[m],
                          digest      |-> Document(m).digest,
                          permissions |-> Document(m).permissions]
  <2>1. Publishes(catalog, row) /\ row \in RegistryStates /\ catalog \in Catalogs
    BY <1>1 DEF IInv, RowInv, TypeOK
  <2>2. \A m \in ActiveModules(row.active) : Document(m).permissions \subseteq Permissions
    <3>1. ActiveRegistered(row)
      BY <1>1 DEF IInv, RowInv
    <3>2. \A m \in ActiveModules(row.active) : Document(m) \in Manifests
      BY <2>1, <3>1, ActiveManifestType
    <3>3. QED
      BY <3>2, RepositoryAssumption
  <2>3. ASSUME NEW m \in ActiveModules(row.active), NEW p \in Document(m).permissions
        PROVE  /\ p \in Permissions
               /\ catalog[p] = [owner |-> m, active |-> TRUE, version |-> row.active[m]]
    <3>1. p \in Permissions /\ m \in Declaring(row, p)
      BY <2>2, <2>3 DEF Declaring
    <3>2. catalog[p].active /\ catalog[p].owner = m /\ catalog[p].version = row.active[m]
      BY <2>1, <3>1 DEF Publishes
    <3>3. catalog[p] = [owner |-> catalog[p].owner, active |-> catalog[p].active,
                        version |-> catalog[p].version] /\ catalog[p].active \in BOOLEAN
      BY <2>1, <3>1 DEF Catalogs, Entries
    <3>4. QED
      BY <3>1, <3>2, <3>3
  <2>4. ASSUME NEW p \in Permissions, catalog[p].active
        PROVE  \E m \in ActiveModules(row.active) :
                 m = catalog[p].owner /\ row.active[m] = catalog[p].version
                 /\ p \in Document(m).permissions
    <3>1. Declaring(row, p) = {catalog[p].owner} /\ catalog[p].version = row.active[catalog[p].owner]
      BY <2>1, <2>4 DEF Publishes
    <3>2. QED
      BY <3>1 DEF Declaring
  <2>5. ActiveCapabilitySnapshot(row) = {Entry(m) : m \in ActiveModules(row.active)}
    BY DEF ActiveCapabilitySnapshot
  <2> HIDE DEF Document
  <2>6. \A m : Entry(m).module = m /\ Entry(m).version = row.active[m]
              /\ Entry(m).permissions = Document(m).permissions
    OBVIOUS
  <2> HIDE DEF Entry
  <2>7. \A entry \in ActiveCapabilitySnapshot(row) : \A p \in entry.permissions :
          /\ p \in Permissions
          /\ catalog[p] = [owner |-> entry.module, active |-> TRUE, version |-> entry.version]
    BY <2>3, <2>5, <2>6
  <2>8. ASSUME NEW p \in Permissions, catalog[p].active
        PROVE  \E entry \in ActiveCapabilitySnapshot(row) :
                 entry.module = catalog[p].owner /\ entry.version = catalog[p].version
                 /\ p \in entry.permissions
    <3>1. PICK m \in ActiveModules(row.active) :
            m = catalog[p].owner /\ row.active[m] = catalog[p].version /\ p \in Document(m).permissions
      BY <2>4, <2>8
    <3>2. Entry(m) \in ActiveCapabilitySnapshot(row)
      BY <2>5
    <3>3. QED
      BY <2>6, <3>1, <3>2
  <2>9. QED
    BY <2>7, <2>8 DEF CatalogIsSnapshot
<1>2. IInv => CatalogIsSnapshot
  BY <1>1
<1>3. QED
  BY <1>2, AlwaysIInv, PTL
=============================================================================

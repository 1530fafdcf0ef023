--------------------------- MODULE RegistryState ---------------------------
(***************************************************************************)
(* The module registry aggregate (internal/biz/model/release.go) and the   *)
(* guards the application service puts before it (internal/biz/release.go).*)
(* Storage adapters load a state, apply one operation and persist it; here *)
(* an operation is a pair of operators, the state it leaves and the result *)
(* it reports.                                                             *)
(*                                                                         *)
(* A manifest is abstracted to what the operations read of it:             *)
(*   id, version    the release it describes                               *)
(*   digest         equal for two documents with the same content          *)
(*   form           "valid", "invalid" (Validate refuses it) or            *)
(*                  "undecodable" (Decode refuses the document)            *)
(*   routes         its HTTP routes, [surface, prefix]                     *)
(*   pages          its contributions that have a navigation entry,        *)
(*                  [surface, group, title, sort, icon]                    *)
(*   permissions    the permission codes it declares                       *)
(***************************************************************************)
EXTENDS RoutePrefix

CONSTANTS Modules, Versions, Manifests,
          Platform,     \* PlatformModuleID
          Blank,        \* an empty or white-space module id or version
          NoIcon,       \* the empty icon
          NoVersion,    \* a module that is not active
          NoRelease     \* a version that is not registered

ASSUME ManifestAssumption ==
  \A m \in Manifests : m.id \in Modules /\ m.version \in Versions
ASSUME AbsentAssumption ==
  /\ NoRelease \notin Manifests
  /\ NoVersion \notin Versions
  /\ Blank \notin Modules \cup Versions
\* A prefix is text.
ASSUME PrefixAssumption ==
  \A m \in Manifests : \A route \in m.routes : route.prefix \in Seq(STRING)

-----------------------------------------------------------------------------
\* The aggregate.

ActiveMaps == [Modules -> Versions \cup {NoVersion}]
RegistryStates ==
  [revision : Nat,
   releases : [Modules -> [Versions -> Manifests \cup {NoRelease}]],
   active   : ActiveMaps]

NewRegistryState ==
  [revision |-> 1,
   releases |-> [m \in Modules |-> [v \in Versions |-> NoRelease]],
   active   |-> [m \in Modules |-> NoVersion]]

Registered(s, module, version) == s.releases[module][version] # NoRelease
ActiveModules(active) == {m \in Modules : active[m] # NoVersion}

\* ManifestFor the version that active gives a module.
ActiveManifest(s, active, module) == s.releases[module][active[module]]

-----------------------------------------------------------------------------
\* What Activate demands of the active set it is about to install.

\* Internal routes are reached inside the cluster and may overlap.
RoutesConflict(route, other) ==
  /\ route.surface # "internal"
  /\ route.surface = other.surface
  /\ RoutePrefixesOverlap(NormalizedRoutePrefix(route.prefix),
                          NormalizedRoutePrefix(other.prefix))

RoutesDisjoint(s, active) ==
  \A m, n \in ActiveModules(active) : m # n =>
    \A route \in ActiveManifest(s, active, m).routes,
       other \in ActiveManifest(s, active, n).routes : ~RoutesConflict(route, other)

IconsConflict(left, right) == left # NoIcon /\ right # NoIcon /\ left # right

\* Two pages of one group of a surface publish the same metadata; a page may
\* leave the icon out.
PagesAgree(page, other) ==
  (page.surface = other.surface /\ page.group = other.group) =>
    /\ page.title = other.title
    /\ page.sort = other.sort
    /\ ~IconsConflict(page.icon, other.icon)

ActivePages(s, active) ==
  UNION {ActiveManifest(s, active, m).pages : m \in ActiveModules(active)}

NavigationAgrees(s, active) ==
  \A page, other \in ActivePages(s, active) : PagesAgree(page, other)

\* What an active set should be at rest.
ActiveRegistered(s) ==
  \A m \in ActiveModules(s.active) : Registered(s, m, s.active[m])
Admissible(s) == RoutesDisjoint(s, s.active) /\ NavigationAgrees(s, s.active)

-----------------------------------------------------------------------------
\* The operations: the result each reports, and the state it leaves.

Outcomes == {"ok", "release_not_found", "release_invalid", "release_immutable",
             "route_conflict", "navigation_group_conflict",
             "self_deactivation_forbidden", "unavailable"}

\* Mutant: a version is registered again without comparing digests.
RegisterResultUncompared(s, manifest) ==
  IF manifest.form # "valid" THEN "release_invalid" ELSE "ok"

RegisterResult(s, manifest) ==
  LET existing == s.releases[manifest.id][manifest.version]
  IN  IF manifest.form # "valid" THEN "release_invalid"
      ELSE IF existing # NoRelease /\ existing.digest # manifest.digest
           THEN "release_immutable"
      ELSE "ok"

\* Mutant: the document replaces the stored one.
RegisterEffectReplacing(s, manifest) ==
  IF manifest.form = "valid"
  THEN [s EXCEPT !.releases[manifest.id][manifest.version] = manifest]
  ELSE s

\* The release already stored is kept; registering does not change Revision.
RegisterEffect(s, manifest) ==
  IF RegisterResult(s, manifest) = "ok" /\ ~Registered(s, manifest.id, manifest.version)
  THEN [s EXCEPT !.releases[manifest.id][manifest.version] = manifest]
  ELSE s

ActiveWith(s, module, version) == [s.active EXCEPT ![module] = version]

\* Mutant: the installed active set is validated instead of the next one.
ActivateResultBeforeInstall(s, module, version) ==
  IF ~Registered(s, module, version) THEN "release_not_found"
  ELSE IF ~RoutesDisjoint(s, s.active) THEN "route_conflict"
  ELSE IF ~NavigationAgrees(s, s.active) THEN "navigation_group_conflict"
  ELSE "ok"

\* Mutant: repeating the active version returns before the validation.
ActivateResultShortcut(s, module, version) ==
  IF ~Registered(s, module, version) THEN "release_not_found"
  ELSE IF s.active[module] = version THEN "ok"
  ELSE IF ~RoutesDisjoint(s, ActiveWith(s, module, version)) THEN "route_conflict"
  ELSE IF ~NavigationAgrees(s, ActiveWith(s, module, version))
       THEN "navigation_group_conflict"
  ELSE "ok"

ActivateResult(s, module, version) ==
  IF ~Registered(s, module, version) THEN "release_not_found"
  ELSE IF ~RoutesDisjoint(s, ActiveWith(s, module, version)) THEN "route_conflict"
  ELSE IF ~NavigationAgrees(s, ActiveWith(s, module, version))
       THEN "navigation_group_conflict"
  ELSE "ok"

\* Mutant: repeating the active version moves Revision.
ActivateEffectCounting(s, module, version) ==
  IF ActivateResult(s, module, version) = "ok"
  THEN [s EXCEPT !.active = ActiveWith(s, module, version), !.revision = @ + 1]
  ELSE s

\* Activating the active version validates again but leaves Revision alone.
ActivateEffect(s, module, version) ==
  IF ActivateResult(s, module, version) = "ok" /\ s.active[module] # version
  THEN [s EXCEPT !.active = ActiveWith(s, module, version), !.revision = @ + 1]
  ELSE s

DeactivateResult(s, module) ==
  IF s.active[module] = NoVersion THEN "release_not_found" ELSE "ok"

\* Mutant: deactivation forgets Revision.
DeactivateEffectSilent(s, module) ==
  IF DeactivateResult(s, module) = "ok" THEN [s EXCEPT !.active[module] = NoVersion] ELSE s

\* Mutant: deactivation starts Revision again.
DeactivateEffectRestarting(s, module) ==
  IF DeactivateResult(s, module) = "ok"
  THEN [s EXCEPT !.active[module] = NoVersion, !.revision = 1]
  ELSE s

DeactivateEffect(s, module) ==
  IF DeactivateResult(s, module) = "ok"
  THEN [s EXCEPT !.active[module] = NoVersion, !.revision = @ + 1]
  ELSE s

-----------------------------------------------------------------------------
\* Requests to the application service.  Admission answers the ones that never
\* reach the repository.

Requests ==
  [kind : {"register"}, manifest : Manifests]
    \cup [kind : {"activate"}, module : Modules \cup {Blank}, version : Versions \cup {Blank}]
    \cup [kind : {"deactivate"}, module : Modules \cup {Blank}]

\* Mutant: the control plane may be deactivated.
AdmissionWithoutPlatformGuard(request) ==
  CASE request.kind = "register" ->
         IF request.manifest.form = "undecodable" THEN "release_invalid" ELSE "admitted"
    [] request.kind = "activate" ->
         IF Blank \in {request.module, request.version} THEN "release_invalid" ELSE "admitted"
    [] request.kind = "deactivate" ->
         IF request.module = Blank THEN "release_invalid" ELSE "admitted"

Admission(request) ==
  CASE request.kind = "register" ->
         IF request.manifest.form = "undecodable" THEN "release_invalid" ELSE "admitted"
    [] request.kind = "activate" ->
         IF Blank \in {request.module, request.version} THEN "release_invalid" ELSE "admitted"
    [] request.kind = "deactivate" ->
         IF request.module = Platform THEN "self_deactivation_forbidden"
         ELSE IF request.module = Blank THEN "release_invalid" ELSE "admitted"

Result(request, s) ==
  CASE request.kind = "register"   -> RegisterResult(s, request.manifest)
    [] request.kind = "activate"   -> ActivateResult(s, request.module, request.version)
    [] request.kind = "deactivate" -> DeactivateResult(s, request.module)

Effect(request, s) ==
  CASE request.kind = "register"   -> RegisterEffect(s, request.manifest)
    [] request.kind = "activate"   -> ActivateEffect(s, request.module, request.version)
    [] request.kind = "deactivate" -> DeactivateEffect(s, request.module)

-----------------------------------------------------------------------------
\* Projections of one snapshot.  The order of their elements is left out.

Routes(s) ==
  UNION {{[module |-> m, surface |-> route.surface, prefix |-> TrimSlashes(route.prefix)] :
            route \in ActiveManifest(s, s.active, m).routes} : m \in ActiveModules(s.active)}

ActiveCapabilitySnapshot(s) ==
  {[module      |-> m,
    version     |-> s.active[m],
    digest      |-> ActiveManifest(s, s.active, m).digest,
    permissions |-> ActiveManifest(s, s.active, m).permissions] : m \in ActiveModules(s.active)}

RegisteredVersions(s, m) == {v \in Versions : Registered(s, m, v)}
ListedModules(s) == {m \in Modules : RegisteredVersions(s, m) # {}}

\* Modules.
ModuleListing(s) ==
  {[module   |-> m,
    active   |-> s.active[m],
    releases |-> {[version |-> v, digest |-> s.releases[m][v].digest] :
                    v \in RegisteredVersions(s, m)}] : m \in ListedModules(s)}

\* Mutant: every release of an active module is marked active.
CatalogEntryUnversioned(s, m, v) ==
  [module      |-> m,
   version     |-> v,
   digest      |-> s.releases[m][v].digest,
   permissions |-> s.releases[m][v].permissions,
   active      |-> s.active[m] # NoVersion]

CatalogEntry(s, m, v) ==
  [module      |-> m,
   version     |-> v,
   digest      |-> s.releases[m][v].digest,
   permissions |-> s.releases[m][v].permissions,
   active      |-> s.active[m] = v]

CapabilityCatalogs(s) ==
  UNION {{CatalogEntry(s, m, v) : v \in RegisteredVersions(s, m)} : m \in Modules}

\* Mutant: the snapshot covers every registered module.
CapabilityResultAll(s) ==
  IF \A m \in ListedModules(s) : s.active[m] \in RegisteredVersions(s, m)
  THEN "ok" ELSE "release_invalid"

\* The error of ActiveCapabilitySnapshot.
CapabilityResult(s) == IF ActiveRegistered(s) THEN "ok" ELSE "release_invalid"
=============================================================================

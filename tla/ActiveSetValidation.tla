------------------------ MODULE ActiveSetValidation ------------------------
(***************************************************************************)
(* The two loops Activate runs over the active set it is about to install  *)
(* (validateActiveRoutes and validateActiveNavigationGroups, internal/biz/ *)
(* model/release.go), one route or page per step.  Go visits the modules   *)
(* of the route loop in an arbitrary order; the steps here visit single    *)
(* routes and pages in every order, the code's among them.                 *)
(***************************************************************************)
EXTENDS RegistryState

CONSTANTS Registry,   \* the state whose releases are candidates for activation
          Paths       \* the paths of requests

ASSUME RegistryAssumption == Registry \in RegistryStates

\* A page has the fields the loop of the groups compares, and no other.
ASSUME PageAssumption ==
  \A m \in Manifests : \A page \in m.pages :
    page = [surface |-> page.surface, group |-> page.group, title |-> page.title,
            sort |-> page.sort, icon |-> page.icon]

\* Among the requests is one for every prefix itself.
ASSUME PathAssumption ==
  /\ Paths \subseteq Seq(STRING)
  /\ \A m \in Manifests : \A route \in m.routes : NormalizedRoutePrefix(route.prefix) \in Paths

VARIABLES active,    \* the set being validated: next
          phase,     \* the loop that runs
          todo,      \* the routes, then the pages, it has not visited
          seen,      \* routes visited, with their owners
          groups,    \* groups visited, with the metadata that stands for each
          verdict
vars == <<active, phase, todo, seen, groups, verdict>>

OwnedRoutes ==
  UNION {{[owner |-> m, route |-> route] : route \in ActiveManifest(Registry, active, m).routes} :
           m \in ActiveModules(active)}

Undecided == "undecided"

Init ==
  /\ active \in {a \in ActiveMaps : \A m \in ActiveModules(a) : Registered(Registry, m, a[m])}
  /\ phase = "routes"
  /\ todo = OwnedRoutes
  /\ seen = {}
  /\ groups = {}
  /\ verdict = Undecided

Decide(result) == phase' = "done" /\ verdict' = result

-----------------------------------------------------------------------------
\* A route of another module that overlaps ends the loop.
VisitRoute(owned) ==
  /\ phase = "routes"
  /\ owned \in todo
  /\ todo' = todo \ {owned}
  /\ IF \E current \in seen : current.owner # owned.owner /\ RoutesConflict(owned.route, current.route)
     THEN Decide("route_conflict") /\ UNCHANGED seen
     ELSE /\ seen' = IF owned.route.surface = "internal" THEN seen ELSE seen \cup {owned}
          /\ UNCHANGED <<phase, verdict>>
  /\ UNCHANGED <<active, groups>>

StartGroups ==
  /\ phase = "routes"
  /\ todo = {}
  /\ phase' = "groups"
  /\ todo' = ActivePages(Registry, active)
  /\ UNCHANGED <<active, seen, groups, verdict>>

\* The first page of a group stands for it; a later one that has an icon gives
\* it to a group that has none.
SameGroup(page) == {g \in groups : g.surface = page.surface /\ g.group = page.group}
\* Mutant: the first page of a group decides its icon.
MergeFirst(page) == IF SameGroup(page) = {} THEN groups \cup {page} ELSE groups

Merge(page) ==
  IF SameGroup(page) = {} THEN groups \cup {page}
  ELSE {IF g \in SameGroup(page) /\ g.icon = NoIcon THEN [g EXCEPT !.icon = page.icon] ELSE g :
          g \in groups}

VisitPage(page) ==
  /\ phase = "groups"
  /\ page \in todo
  /\ todo' = todo \ {page}
  /\ IF \E g \in SameGroup(page) : ~PagesAgree(g, page)
     THEN Decide("navigation_group_conflict") /\ UNCHANGED groups
     ELSE groups' = Merge(page) /\ UNCHANGED <<phase, verdict>>
  /\ UNCHANGED <<active, seen>>

Accept ==
  /\ phase = "groups"
  /\ todo = {}
  /\ Decide("ok")
  /\ UNCHANGED <<active, todo, seen, groups>>

Next ==
  \/ \E owned \in todo : VisitRoute(owned)
  \/ \E page \in todo : VisitPage(page)
  \/ StartGroups
  \/ Accept

Spec == Init /\ [][Next]_vars

-----------------------------------------------------------------------------
\* Whatever order the loops take, they decide what the active set as a whole
\* says: the same set is never accepted on one run and refused on another, and
\* a conflict between two pages is found although each page is compared only
\* with the metadata collected so far.
VerdictIsOrderFree ==
  phase = "done" =>
    verdict = IF ~RoutesDisjoint(Registry, active) THEN "route_conflict"
              ELSE IF ~NavigationAgrees(Registry, active) THEN "navigation_group_conflict"
              ELSE "ok"

\* A request that the routes of two releases would both serve.
Contested ==
  \E m, n \in ActiveModules(active) :
    /\ m # n
    /\ \E route \in ActiveManifest(Registry, active, m).routes,
         other \in ActiveManifest(Registry, active, n).routes :
         /\ route.surface = other.surface
         /\ route.surface # "internal"
         /\ \E path \in Paths : /\ Serves(NormalizedRoutePrefix(route.prefix), path)
                               /\ Serves(NormalizedRoutePrefix(other.prefix), path)

\* The routes of a set are refused exactly when the Gateway could not tell whose
\* some request is (release.go:330-353, 430): a missing segment boundary would
\* refuse /a next to /ab, a missing root case would accept / next to /a.
RefusedIsContested == phase = "done" => (verdict = "route_conflict" <=> Contested)
=============================================================================

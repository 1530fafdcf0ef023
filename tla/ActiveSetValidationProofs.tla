--------------------- MODULE ActiveSetValidationProofs ---------------------
(***************************************************************************)
(* Proofs that the two validation loops of Activate decide, in whatever    *)
(* order they visit the routes and pages of an active set, what the set as *)
(* a whole says, and that routes are refused exactly when two releases     *)
(* would serve one request, for all releases, prefixes and pages.          *)
(***************************************************************************)
EXTENDS ActiveSetValidation, RegistryStateProofs

-----------------------------------------------------------------------------
(***************************************************************************)
(* The invariant of the loops.  The route loop has found no conflict among *)
(* the routes behind it, and holds those that could conflict with one      *)
(* ahead.  The page loop has one entry per group it has met; every page    *)
(* behind it agrees with its entry, whose icon it gave or could have       *)
(* given, and every field of an entry is that of a page behind it, so that *)
(* a page that disagrees with an entry disagrees with a page.              *)
(***************************************************************************)
Candidates ==
  /\ active \in ActiveMaps
  /\ \A m \in ActiveModules(active) : Registered(Registry, m, active[m])

VisitedRoutes == OwnedRoutes \ todo
VisitedPages == ActivePages(Registry, active) \ todo

RouteLoop ==
  /\ todo \subseteq OwnedRoutes
  /\ seen = {owned \in VisitedRoutes : owned.route.surface # "internal"}
  /\ groups = {}
  /\ \A owned, other \in VisitedRoutes :
       owned.owner # other.owner => ~RoutesConflict(owned.route, other.route)

SameKey(page, other) == page.surface = other.surface /\ page.group = other.group

OnePerGroup == \A g, h \in groups : SameKey(g, h) => g = h

PagesStoodFor ==
  \A page \in VisitedPages : \E g \in groups :
    /\ SameKey(g, page)
    /\ g.title = page.title /\ g.sort = page.sort
    /\ page.icon = NoIcon \/ g.icon = page.icon

GroupsFromPages ==
  \A g \in groups :
    /\ \E page \in VisitedPages :
         SameKey(g, page) /\ g.title = page.title /\ g.sort = page.sort
    /\ \E page \in VisitedPages : SameKey(g, page) /\ g.icon = page.icon

GroupsTyped ==
  \A g \in groups :
    g = [surface |-> g.surface, group |-> g.group, title |-> g.title,
         sort |-> g.sort, icon |-> g.icon]

PageLoop ==
  /\ todo \subseteq ActivePages(Registry, active)
  /\ RoutesDisjoint(Registry, active)
  /\ OnePerGroup /\ PagesStoodFor /\ GroupsFromPages /\ GroupsTyped

LoopInv ==
  /\ Candidates
  /\ phase \in {"routes", "groups", "done"}
  /\ phase # "done" => verdict = Undecided
  /\ phase = "routes" => RouteLoop
  /\ phase = "groups" => PageLoop
  /\ VerdictIsOrderFree

\* What the loops visit.
LEMMA RouteOwned ==
  ASSUME NEW owned \in OwnedRoutes
  PROVE  /\ owned.owner \in ActiveModules(active)
         /\ owned.route \in ActiveManifest(Registry, active, owned.owner).routes
BY DEF OwnedRoutes

LEMMA OwnedRoute ==
  ASSUME NEW m \in ActiveModules(active), NEW route \in ActiveManifest(Registry, active, m).routes
  PROVE  /\ [owner |-> m, route |-> route] \in OwnedRoutes
         /\ [owner |-> m, route |-> route].owner = m
         /\ [owner |-> m, route |-> route].route = route
BY DEF OwnedRoutes

LEMMA CandidateManifest ==
  ASSUME Candidates, NEW m \in ActiveModules(active)
  PROVE  ActiveManifest(Registry, active, m) \in Manifests
BY RegistryAssumption
   DEF Candidates, ActiveModules, ActiveMaps, ActiveManifest, Registered, RegistryStates

LEMMA PageFields ==
  ASSUME Candidates, NEW page \in ActivePages(Registry, active)
  PROVE  page = [surface |-> page.surface, group |-> page.group, title |-> page.title,
                 sort |-> page.sort, icon |-> page.icon]
<1>1. PICK m \in ActiveModules(active) : page \in ActiveManifest(Registry, active, m).pages
  BY DEF ActivePages
<1>2. QED
  BY <1>1, CandidateManifest, PageAssumption

-----------------------------------------------------------------------------
LEMMA InitLoopInv == Init => LoopInv
<1> SUFFICES ASSUME Init PROVE LoopInv
  OBVIOUS
<1>1. Candidates
  BY DEF Init, Candidates
<1>2. RouteLoop
  BY DEF Init, RouteLoop, VisitedRoutes
<1>3. QED
  BY <1>1, <1>2 DEF Init, LoopInv, VerdictIsOrderFree

\* The route loop.
LEMMA VisitRouteStep ==
  ASSUME LoopInv, NEW owned \in todo, VisitRoute(owned)
  PROVE  LoopInv'
<1>1. RouteLoop /\ Candidates /\ verdict = Undecided /\ active' = active
  BY DEF VisitRoute, LoopInv
<1>2. Candidates'
  BY <1>1 DEF Candidates
<1>3. owned \in OwnedRoutes
  BY <1>1 DEF RouteLoop
<1>4. CASE \E current \in seen :
             current.owner # owned.owner /\ RoutesConflict(owned.route, current.route)
  <2>1. PICK current \in seen :
          current.owner # owned.owner /\ RoutesConflict(owned.route, current.route)
    BY <1>4
  <2>2. current \in OwnedRoutes
    BY <1>1 DEF RouteLoop, VisitedRoutes
  <2>3. ~RoutesDisjoint(Registry, active)
    BY <1>3, <2>1, <2>2, RouteOwned DEF RoutesDisjoint
  <2>4. phase' = "done" /\ verdict' = "route_conflict"
    BY <1>4 DEF VisitRoute, Decide
  <2>5. QED
    BY <1>1, <1>2, <2>3, <2>4 DEF LoopInv, VerdictIsOrderFree
<1>5. CASE \A current \in seen :
             current.owner = owned.owner \/ ~RoutesConflict(owned.route, current.route)
  <2>1. /\ phase' = phase /\ phase = "routes" /\ verdict' = verdict /\ groups' = groups
        /\ seen' = IF owned.route.surface = "internal" THEN seen ELSE seen \cup {owned}
        /\ todo' = todo \ {owned}
    BY <1>5 DEF VisitRoute
  <2>2. VisitedRoutes' = VisitedRoutes \cup {owned}
    BY <1>1, <1>3, <2>1 DEF VisitedRoutes, OwnedRoutes
  <2>3. \A other \in VisitedRoutes :
          owned.owner # other.owner => ~RoutesConflict(owned.route, other.route)
    BY <1>1, <1>5 DEF RouteLoop, RoutesConflict
  <2>4. \A one, other \in VisitedRoutes' :
          one.owner # other.owner => ~RoutesConflict(one.route, other.route)
    BY <1>1, <2>2, <2>3, ConflictSymmetric DEF RouteLoop
  <2>5. RouteLoop'
    BY <1>1, <2>1, <2>2, <2>4 DEF RouteLoop, OwnedRoutes
  <2>6. QED
    BY <1>1, <1>2, <2>1, <2>5 DEF LoopInv, VerdictIsOrderFree
<1>6. QED
  BY <1>4, <1>5

LEMMA StartGroupsStep ==
  ASSUME LoopInv, StartGroups
  PROVE  LoopInv'
<1>1. RouteLoop /\ Candidates /\ verdict = Undecided /\ todo = {}
  BY DEF StartGroups, LoopInv
<1>2. /\ active' = active /\ verdict' = verdict /\ groups' = {} /\ phase' = "groups"
      /\ todo' = ActivePages(Registry, active)
  BY <1>1 DEF StartGroups, RouteLoop
<1>3. RoutesDisjoint(Registry, active)
  <2> SUFFICES ASSUME NEW m \in ActiveModules(active), NEW n \in ActiveModules(active), m # n,
                      NEW route \in ActiveManifest(Registry, active, m).routes,
                      NEW other \in ActiveManifest(Registry, active, n).routes
               PROVE  ~RoutesConflict(route, other)
    BY DEF RoutesDisjoint
  <2>1. /\ [owner |-> m, route |-> route] \in VisitedRoutes
        /\ [owner |-> n, route |-> other] \in VisitedRoutes
    BY <1>1, OwnedRoute DEF VisitedRoutes
  <2>2. QED
    BY <1>1, <2>1 DEF RouteLoop
<1>4. VisitedPages' = {}
  BY <1>2 DEF VisitedPages
<1>5. RoutesDisjoint(Registry, active)' /\ todo' \subseteq ActivePages(Registry, active)'
  BY <1>2, <1>3 DEF RoutesDisjoint, ActivePages
<1>6. PageLoop'
  <2>1. OnePerGroup' /\ GroupsFromPages' /\ GroupsTyped'
    BY <1>2 DEF OnePerGroup, GroupsFromPages, GroupsTyped
  <2>2. PagesStoodFor'
    BY <1>4 DEF PagesStoodFor
  <2>3. QED
    BY <1>5, <2>1, <2>2 DEF PageLoop
<1>7. QED
  BY <1>1, <1>2, <1>6 DEF LoopInv, Candidates, VerdictIsOrderFree

\* A page that disagrees with its entry disagrees with a page.
LEMMA ConflictIsReal ==
  ASSUME PageLoop, NEW page \in ActivePages(Registry, active),
         NEW g \in SameGroup(page), ~PagesAgree(g, page)
  PROVE  ~NavigationAgrees(Registry, active)
<1>1. g \in groups /\ SameKey(g, page)
  BY DEF SameGroup, SameKey
<1>2. VisitedPages \subseteq ActivePages(Registry, active)
  BY DEF VisitedPages
<1>3. CASE g.title # page.title \/ g.sort # page.sort
  <2>1. PICK other \in VisitedPages :
          SameKey(g, other) /\ g.title = other.title /\ g.sort = other.sort
    BY <1>1 DEF PageLoop, GroupsFromPages
  <2>2. ~PagesAgree(other, page)
    BY <1>1, <1>3, <2>1 DEF PagesAgree, SameKey
  <2>3. QED
    BY <1>2, <2>1, <2>2 DEF NavigationAgrees
<1>4. CASE IconsConflict(g.icon, page.icon)
  <2>1. PICK other \in VisitedPages : SameKey(g, other) /\ g.icon = other.icon
    BY <1>1 DEF PageLoop, GroupsFromPages
  <2>2. ~PagesAgree(other, page)
    BY <1>1, <1>4, <2>1 DEF PagesAgree, SameKey
  <2>3. QED
    BY <1>2, <2>1, <2>2 DEF NavigationAgrees
<1>5. QED
  BY <1>3, <1>4 DEF PagesAgree

\* A page that agrees with the entry of its group, or is the first of it.
LEMMA MergeStep ==
  ASSUME PageLoop, Candidates, NEW page \in todo,
         \A g \in SameGroup(page) : PagesAgree(g, page),
         active' = active, todo' = todo \ {page}, groups' = Merge(page)
  PROVE  PageLoop'
<1>1. page \in ActivePages(Registry, active)
  BY DEF PageLoop
<1>2. VisitedPages' = VisitedPages \cup {page}
  BY <1>1 DEF VisitedPages, ActivePages
<1>3. RoutesDisjoint(Registry, active)' /\ (todo \subseteq ActivePages(Registry, active))'
  BY DEF PageLoop, RoutesDisjoint, ActivePages
<1>4. page = [surface |-> page.surface, group |-> page.group, title |-> page.title,
              sort |-> page.sort, icon |-> page.icon]
  BY <1>1, PageFields
<1>5. \A g : g \in SameGroup(page) <=> g \in groups /\ SameKey(g, page)
  BY DEF SameGroup, SameKey
<1>6. CASE SameGroup(page) = {}
  <2>1. groups' = groups \cup {page}
    BY <1>6 DEF Merge
  <2>2. SameKey(page, page)
    BY DEF SameKey
  <2>3. OnePerGroup'
    BY <1>5, <1>6, <2>1 DEF PageLoop, OnePerGroup, SameKey
  <2>4. PagesStoodFor' /\ GroupsFromPages'
    BY <1>2, <2>1, <2>2 DEF PageLoop, PagesStoodFor, GroupsFromPages
  <2>5. GroupsTyped'
    BY <1>4, <2>1 DEF PageLoop, GroupsTyped
  <2>6. QED
    BY <1>3, <2>3, <2>4, <2>5 DEF PageLoop
<1>7. CASE SameGroup(page) # {}
  <2>1. PICK g \in groups : SameKey(g, page)
    BY <1>5, <1>7
  <2>2. \A h \in groups : SameKey(h, page) => h = g
    BY <2>1 DEF PageLoop, OnePerGroup, SameKey
  <2>3. SameGroup(page) = {g}
    BY <1>5, <2>1, <2>2
  <2>4. g.title = page.title /\ g.sort = page.sort /\ ~IconsConflict(g.icon, page.icon)
    BY <2>1, <2>3 DEF PagesAgree, SameKey
  <2> DEFINE given == [g EXCEPT !.icon = page.icon]
             entry == IF g.icon = NoIcon THEN given ELSE g
  <2>5. g = [surface |-> g.surface, group |-> g.group, title |-> g.title,
             sort |-> g.sort, icon |-> g.icon]
    BY DEF PageLoop, GroupsTyped
  <2>6. given = [surface |-> g.surface, group |-> g.group, title |-> g.title,
                 sort |-> g.sort, icon |-> page.icon]
    BY <2>5
  <2>7. /\ entry = [surface |-> entry.surface, group |-> entry.group, title |-> entry.title,
                    sort |-> entry.sort, icon |-> entry.icon]
        /\ entry.surface = g.surface /\ entry.group = g.group
        /\ entry.title = g.title /\ entry.sort = g.sort
        /\ entry.icon = IF g.icon = NoIcon THEN page.icon ELSE g.icon
    BY <2>5, <2>6
  <2>8. groups' = (groups \ {g}) \cup {entry}
    BY <2>1, <2>3, <1>7 DEF Merge
  <2> HIDE DEF given, entry
  <2>9. SameKey(entry, g) /\ SameKey(entry, page)
    BY <2>1, <2>7 DEF SameKey
  <2>10. OnePerGroup'
    BY <2>1, <2>2, <2>8, <2>9 DEF PageLoop, OnePerGroup, SameKey
  <2>11. ASSUME NEW other \in VisitedPages'
         PROVE  \E h \in groups' :
                  /\ SameKey(h, other)
                  /\ h.title = other.title /\ h.sort = other.sort
                  /\ other.icon = NoIcon \/ h.icon = other.icon
    <3>1. CASE other = page
      BY <2>4, <2>7, <2>8, <2>9, <3>1 DEF IconsConflict
    <3>2. CASE other \in VisitedPages
      <4>1. PICK h \in groups :
              /\ SameKey(h, other)
              /\ h.title = other.title /\ h.sort = other.sort
              /\ other.icon = NoIcon \/ h.icon = other.icon
        BY <3>2 DEF PageLoop, PagesStoodFor
      <4>2. CASE h = g
        BY <2>7, <2>8, <2>9, <4>1, <4>2 DEF SameKey
      <4>3. CASE h # g
        BY <2>8, <4>1, <4>3
      <4>4. QED
        BY <4>2, <4>3
    <3>3. QED
      BY <1>2, <3>1, <3>2
  <2>12. PagesStoodFor'
    BY <2>11 DEF PagesStoodFor
  <2>13. GroupsFromPages'
    <3>1. \E other \in VisitedPages :
            SameKey(g, other) /\ g.title = other.title /\ g.sort = other.sort
      BY <2>1 DEF PageLoop, GroupsFromPages
    <3>2. \E other \in VisitedPages' : SameKey(entry, other) /\ entry.icon = other.icon
      <4>1. CASE g.icon = NoIcon
        BY <1>2, <2>7, <2>9, <4>1
      <4>2. CASE g.icon # NoIcon
        <5>1. PICK other \in VisitedPages : SameKey(g, other) /\ g.icon = other.icon
          BY <2>1 DEF PageLoop, GroupsFromPages
        <5>2. QED
          BY <1>2, <2>7, <2>9, <4>2, <5>1 DEF SameKey
      <4>3. QED
        BY <4>1, <4>2
    <3>3. \E other \in VisitedPages' :
            SameKey(entry, other) /\ entry.title = other.title /\ entry.sort = other.sort
      BY <1>2, <2>7, <2>9, <3>1 DEF SameKey
    <3>4. QED
      BY <1>2, <2>8, <3>2, <3>3 DEF PageLoop, GroupsFromPages
  <2>14. GroupsTyped'
    BY <2>7, <2>8 DEF PageLoop, GroupsTyped
  <2>15. QED
    BY <1>3, <2>10, <2>12, <2>13, <2>14 DEF PageLoop
<1>8. QED
  BY <1>6, <1>7

LEMMA VisitPageStep ==
  ASSUME LoopInv, NEW page \in todo, VisitPage(page)
  PROVE  LoopInv'
<1>1. PageLoop /\ Candidates /\ verdict = Undecided /\ active' = active
  BY DEF VisitPage, LoopInv
<1>2. Candidates'
  BY <1>1 DEF Candidates
<1>3. CASE \E g \in SameGroup(page) : ~PagesAgree(g, page)
  <2>1. ~NavigationAgrees(Registry, active) /\ RoutesDisjoint(Registry, active)
    BY <1>1, <1>3, ConflictIsReal DEF PageLoop
  <2>2. phase' = "done" /\ verdict' = "navigation_group_conflict"
    BY <1>3 DEF VisitPage, Decide
  <2>3. QED
    BY <1>1, <1>2, <2>1, <2>2 DEF LoopInv, VerdictIsOrderFree
<1>4. CASE \A g \in SameGroup(page) : PagesAgree(g, page)
  <2>1. /\ groups' = Merge(page) /\ phase' = phase /\ phase = "groups" /\ verdict' = verdict
        /\ todo' = todo \ {page}
    BY <1>4 DEF VisitPage
  <2>2. PageLoop'
    BY <1>1, <1>4, <2>1, MergeStep
  <2>3. QED
    BY <1>1, <1>2, <2>1, <2>2 DEF LoopInv, VerdictIsOrderFree
<1>5. QED
  BY <1>3, <1>4

\* Pages that agree with the one entry of their group agree with each other.
LEMMA AcceptStep ==
  ASSUME LoopInv, Accept
  PROVE  LoopInv'
<1>1. /\ PageLoop /\ Candidates /\ active' = active /\ todo = {}
      /\ phase' = "done" /\ verdict' = "ok"
  BY DEF Accept, Decide, LoopInv
<1>2. ASSUME NEW page \in ActivePages(Registry, active),
             NEW other \in ActivePages(Registry, active), SameKey(page, other)
      PROVE  PagesAgree(page, other)
  <2>1. PICK g \in groups : /\ SameKey(g, page)
                            /\ g.title = page.title /\ g.sort = page.sort
                            /\ page.icon = NoIcon \/ g.icon = page.icon
    BY <1>1 DEF PageLoop, PagesStoodFor, VisitedPages
  <2>2. PICK h \in groups : /\ SameKey(h, other)
                            /\ h.title = other.title /\ h.sort = other.sort
                            /\ other.icon = NoIcon \/ h.icon = other.icon
    BY <1>1 DEF PageLoop, PagesStoodFor, VisitedPages
  <2>3. g = h
    BY <1>1, <1>2, <2>1, <2>2 DEF PageLoop, OnePerGroup, SameKey
  <2>4. QED
    BY <2>1, <2>2, <2>3 DEF PagesAgree, IconsConflict
<1>3. NavigationAgrees(Registry, active) /\ RoutesDisjoint(Registry, active)
  BY <1>1, <1>2 DEF NavigationAgrees, PageLoop, PagesAgree, SameKey
<1>4. QED
  BY <1>1, <1>3 DEF LoopInv, Candidates, VerdictIsOrderFree

LEMMA LoopInvInductive == Spec => []LoopInv
<1>1. LoopInv /\ [Next]_vars => LoopInv'
  <2> SUFFICES ASSUME LoopInv, [Next]_vars PROVE LoopInv'
    OBVIOUS
  <2>1. CASE UNCHANGED vars
    BY <2>1 DEF vars, LoopInv, Candidates, RouteLoop, VisitedRoutes, OwnedRoutes, PageLoop,
       OnePerGroup, PagesStoodFor, GroupsFromPages, GroupsTyped, VisitedPages, VerdictIsOrderFree
  <2>2. CASE Next
    BY <2>2, VisitRouteStep, StartGroupsStep, VisitPageStep, AcceptStep DEF Next
  <2>3. QED
    BY <2>1, <2>2
<1>2. QED
  BY InitLoopInv, <1>1, PTL DEF Spec

-----------------------------------------------------------------------------
\* Whatever order the loops take, they decide what the active set as a whole
\* says (release.go:330-416).
THEOREM VerdictTheorem == Spec => []VerdictIsOrderFree
BY LoopInvInductive, PTL DEF LoopInv

\* Routes conflict exactly when some request is served by both.
LEMMA ConflictIsContest ==
  ASSUME NEW m \in Manifests, NEW n \in Manifests,
         NEW route \in m.routes, NEW other \in n.routes
  PROVE  RoutesConflict(route, other) <=>
           /\ route.surface = other.surface
           /\ route.surface # "internal"
           /\ \E path \in Paths : /\ Serves(NormalizedRoutePrefix(route.prefix), path)
                                 /\ Serves(NormalizedRoutePrefix(other.prefix), path)
<1> DEFINE s == NormalizedRoutePrefix(route.prefix)
           t == NormalizedRoutePrefix(other.prefix)
<1>1. s \in Paths /\ t \in Paths /\ Paths \subseteq Texts
  BY PathAssumption, SeqMonotonic DEF Texts, Characters
<1> HIDE DEF s, t
<1>2. RoutePrefixesOverlap(s, t) <=> \E path \in Paths : Serves(s, path) /\ Serves(t, path)
  BY <1>1, ServedByBoth, LongerIsServed
<1>3. QED
  BY <1>2 DEF RoutesConflict, s, t

\* The routes of an active set are refused exactly when two of its releases
\* would serve one request (release.go:330-353, 422-432).
THEOREM ContestTheorem == Spec => []RefusedIsContested
<1>1. ASSUME LoopInv PROVE RoutesDisjoint(Registry, active) <=> ~Contested
  <2>1. \A m \in ActiveModules(active) : ActiveManifest(Registry, active, m) \in Manifests
    BY <1>1, CandidateManifest DEF LoopInv
  <2>2. QED
    BY <2>1, ConflictIsContest DEF RoutesDisjoint, Contested
<1>2. LoopInv => RefusedIsContested
  BY <1>1 DEF LoopInv, VerdictIsOrderFree, RefusedIsContested
<1>3. QED
  BY <1>2, LoopInvInductive, PTL

\* The loops over the set that an activation would install end with the answer
\* ActivateResult gives: what RegistryState says in two quantified formulas, and
\* all other modules build on, is what the code computes one route and one page
\* at a time, in whatever order (release.go:126-147, 330-416).
THEOREM ActivationTheorem ==
  ASSUME NEW CONSTANT m \in Modules, NEW CONSTANT v \in Versions, Registered(Registry, m, v)
  PROVE  Spec => []((phase = "done" /\ active = ActiveWith(Registry, m, v)) =>
                      verdict = ActivateResult(Registry, m, v))
<1>1. LoopInv => ((phase = "done" /\ active = ActiveWith(Registry, m, v)) =>
                    verdict = ActivateResult(Registry, m, v))
  BY DEF LoopInv, VerdictIsOrderFree, ActivateResult
<1>2. QED
  BY <1>1, LoopInvInductive, PTL
=============================================================================

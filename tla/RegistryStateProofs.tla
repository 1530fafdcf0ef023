------------------------- MODULE RegistryStateProofs ------------------------
(***************************************************************************)
(* Lemmas about the operations of the aggregate, for every set of          *)
(* documents: what they preserve, whatever applies them.                   *)
(***************************************************************************)
EXTENDS RegistryState, FiniteSetTheorems, SequenceTheorems, TLAPS

Admitted(request) == Admission(request) = "admitted"

\* An admitted activation or deactivation names a module and, if it activates,
\* a version.
LEMMA AdmittedNames ==
  ASSUME NEW r \in Requests, Admitted(r)
  PROVE  /\ r.kind \in {"register", "activate", "deactivate"}
         /\ r.kind = "register" => r.manifest \in Manifests
         /\ r.kind = "activate" => r.module \in Modules /\ r.version \in Versions
         /\ r.kind = "deactivate" => r.module \in Modules /\ r.module # Platform
BY DEF Admitted, Admission, Requests

\* Which operation a request asks for.
LEMMA KindOfOperation ==
  ASSUME NEW r, NEW s
  PROVE  /\ r.kind = "register" => /\ Result(r, s) = RegisterResult(s, r.manifest)
                                   /\ Effect(r, s) = RegisterEffect(s, r.manifest)
         /\ r.kind = "activate" => /\ Result(r, s) = ActivateResult(s, r.module, r.version)
                                   /\ Effect(r, s) = ActivateEffect(s, r.module, r.version)
         /\ r.kind = "deactivate" => /\ Result(r, s) = DeactivateResult(s, r.module)
                                     /\ Effect(r, s) = DeactivateEffect(s, r.module)
BY DEF Result, Effect

\* The operations map registry states to registry states.
LEMMA RegisterType ==
  ASSUME NEW s \in RegistryStates, NEW m \in Manifests
  PROVE  RegisterEffect(s, m) \in RegistryStates
<1> DEFINE stored == [s.releases EXCEPT ![m.id][m.version] = m]
<1>1. stored \in [Modules -> [Versions -> Manifests \cup {NoRelease}]]
  BY ManifestAssumption DEF RegistryStates
<1>2. [s EXCEPT !.releases[m.id][m.version] = m] = [s EXCEPT !.releases = stored]
  BY DEF RegistryStates
<1>3. [s EXCEPT !.releases = stored] \in RegistryStates
  BY <1>1 DEF RegistryStates
<1>4. QED
  BY <1>2, <1>3 DEF RegisterEffect

LEMMA ActivateType ==
  ASSUME NEW s \in RegistryStates, NEW m \in Modules, NEW v \in Versions
  PROVE  ActivateEffect(s, m, v) \in RegistryStates
<1>1. ActiveWith(s, m, v) \in ActiveMaps
  BY DEF ActiveWith, RegistryStates, ActiveMaps
<1>2. s.revision + 1 \in Nat
  BY DEF RegistryStates
<1>3. [s EXCEPT !.active = ActiveWith(s, m, v), !.revision = @ + 1] \in RegistryStates
  BY <1>1, <1>2 DEF RegistryStates
<1>4. QED
  BY <1>3 DEF ActivateEffect

LEMMA DeactivateType ==
  ASSUME NEW s \in RegistryStates, NEW m \in Modules
  PROVE  DeactivateEffect(s, m) \in RegistryStates
<1>1. [s.active EXCEPT ![m] = NoVersion] \in ActiveMaps
  BY DEF RegistryStates, ActiveMaps
<1>2. s.revision + 1 \in Nat
  BY DEF RegistryStates
<1>3. [s EXCEPT !.active[m] = NoVersion, !.revision = @ + 1] \in RegistryStates
  BY <1>1, <1>2 DEF RegistryStates
<1>4. QED
  BY <1>3 DEF DeactivateEffect

LEMMA EffectType ==
  ASSUME NEW s \in RegistryStates, NEW r \in Requests, Admitted(r)
  PROVE  Effect(r, s) \in RegistryStates
BY AdmittedNames, RegisterType, ActivateType, DeactivateType DEF Effect

LEMMA ResultType ==
  ASSUME NEW s, NEW r \in Requests, Admitted(r)
  PROVE  Result(r, s) \in Outcomes \ {"unavailable"}
BY AdmittedNames
   DEF Result, Outcomes, RegisterResult, ActivateResult, DeactivateResult

\* Validation reads an active set only through the manifests of its modules: an
\* active set with fewer modules and the same manifests stays admissible.
LEMMA AdmissibleBelow ==
  ASSUME NEW s, NEW t, NEW a, NEW b,
         \A m \in ActiveModules(b) :
            /\ m \in ActiveModules(a)
            /\ ActiveManifest(t, b, m) = ActiveManifest(s, a, m)
  PROVE  /\ RoutesDisjoint(s, a) => RoutesDisjoint(t, b)
         /\ NavigationAgrees(s, a) => NavigationAgrees(t, b)
<1>1. RoutesDisjoint(s, a) => RoutesDisjoint(t, b)
  BY DEF RoutesDisjoint
<1>2. ActivePages(t, b) \subseteq ActivePages(s, a)
  BY DEF ActivePages
<1>3. QED
  BY <1>1, <1>2 DEF NavigationAgrees

\* The three operations preserve what an active set should be.
LEMMA RegisterAdmissible ==
  ASSUME NEW s \in RegistryStates, NEW m \in Manifests, ActiveRegistered(s), Admissible(s)
  PROVE  ActiveRegistered(RegisterEffect(s, m)) /\ Admissible(RegisterEffect(s, m))
<1> DEFINE t == RegisterEffect(s, m)
<1>1. t.active = s.active
  BY DEF RegisterEffect, RegistryStates
<1>2. \A n \in Modules, v \in Versions :
        Registered(s, n, v) => t.releases[n][v] = s.releases[n][v]
  BY ManifestAssumption DEF RegisterEffect, Registered, RegistryStates
<1>3. \A n \in ActiveModules(s.active) : n \in Modules /\ s.active[n] \in Versions
  BY DEF ActiveModules, RegistryStates, ActiveMaps
<1>4. \A n \in ActiveModules(s.active) :
        ActiveManifest(t, t.active, n) = ActiveManifest(s, s.active, n)
  BY <1>1, <1>2, <1>3 DEF ActiveManifest, ActiveRegistered
<1>5. ActiveRegistered(t)
  BY <1>1, <1>4 DEF ActiveRegistered, ActiveManifest, Registered
<1>6. Admissible(t)
  BY <1>1, <1>4, AdmissibleBelow DEF Admissible
<1>7. QED
  BY <1>5, <1>6

LEMMA ActivateAdmissible ==
  ASSUME NEW s \in RegistryStates, NEW m \in Modules, NEW v \in Versions,
         ActiveRegistered(s), Admissible(s)
  PROVE  ActiveRegistered(ActivateEffect(s, m, v)) /\ Admissible(ActivateEffect(s, m, v))
<1> DEFINE t == ActivateEffect(s, m, v)
           a == ActiveWith(s, m, v)
<1>1. CASE t = s
  BY <1>1
<1>2. CASE t # s
  <2>1. /\ Registered(s, m, v)
        /\ RoutesDisjoint(s, a)
        /\ NavigationAgrees(s, a)
        /\ t.active = a
        /\ t.releases = s.releases
    BY <1>2 DEF ActivateEffect, ActivateResult, RegistryStates
  <2>2. \A n \in Modules : a[n] = IF n = m THEN v ELSE s.active[n]
    BY DEF ActiveWith, RegistryStates, ActiveMaps
  <2>3. ActiveRegistered(t)
    BY <2>1, <2>2 DEF ActiveRegistered, ActiveModules, Registered
  <2>4. \A n \in ActiveModules(a) : ActiveManifest(t, a, n) = ActiveManifest(s, a, n)
    BY <2>1 DEF ActiveManifest
  <2>5. Admissible(t)
    BY <2>1, <2>4, AdmissibleBelow DEF Admissible
  <2>6. QED
    BY <2>3, <2>5
<1>3. QED
  BY <1>1, <1>2

LEMMA DeactivateAdmissible ==
  ASSUME NEW s \in RegistryStates, NEW m \in Modules, ActiveRegistered(s), Admissible(s)
  PROVE  ActiveRegistered(DeactivateEffect(s, m)) /\ Admissible(DeactivateEffect(s, m))
<1> DEFINE t == DeactivateEffect(s, m)
<1>1. t.releases = s.releases
  BY DEF DeactivateEffect, RegistryStates
<1>2. \A n \in ActiveModules(t.active) : n \in ActiveModules(s.active) /\ t.active[n] = s.active[n]
  BY DEF DeactivateEffect, ActiveModules, RegistryStates, ActiveMaps
<1>3. ActiveRegistered(t)
  BY <1>1, <1>2 DEF ActiveRegistered, Registered
<1>4. \A n \in ActiveModules(t.active) :
        ActiveManifest(t, t.active, n) = ActiveManifest(s, s.active, n)
  BY <1>1, <1>2 DEF ActiveManifest
<1>5. Admissible(t)
  BY <1>2, <1>4, AdmissibleBelow DEF Admissible
<1>6. QED
  BY <1>3, <1>5

LEMMA EffectAdmissible ==
  ASSUME NEW s \in RegistryStates, NEW r \in Requests, Admitted(r),
         ActiveRegistered(s), Admissible(s)
  PROVE  ActiveRegistered(Effect(r, s)) /\ Admissible(Effect(r, s))
BY AdmittedNames, RegisterAdmissible, ActivateAdmissible, DeactivateAdmissible DEF Effect

\* No operation replaces or drops a registered release.
LEMMA EffectKeepsReleases ==
  ASSUME NEW s \in RegistryStates, NEW r \in Requests, Admitted(r),
         NEW m \in Modules, NEW v \in Versions, Registered(s, m, v)
  PROVE  Effect(r, s).releases[m][v] = s.releases[m][v]
<1>1. CASE r.kind = "register"
  BY <1>1, AdmittedNames, ManifestAssumption
     DEF Effect, RegisterEffect, Registered, RegistryStates
<1>2. CASE r.kind = "activate"
  BY <1>2 DEF Effect, ActivateEffect, RegistryStates
<1>3. CASE r.kind = "deactivate"
  BY <1>3 DEF Effect, DeactivateEffect, RegistryStates
<1>4. QED
  BY <1>1, <1>2, <1>3, AdmittedNames

LEMMA AdmissionType ==
  ASSUME NEW r \in Requests, ~Admitted(r)
  PROVE  Admission(r) \in Outcomes /\ Admission(r) # "ok"
BY DEF Admitted, Admission, Outcomes, Requests

\* Revision moves by one with each change of the active set, and only then.
LEMMA EffectRevision ==
  ASSUME NEW s \in RegistryStates, NEW r \in Requests, Admitted(r)
  PROVE  /\ Effect(r, s).active # s.active => Effect(r, s).revision = s.revision + 1
         /\ Effect(r, s).active = s.active => Effect(r, s).revision = s.revision
<1>1. CASE r.kind = "register"
  BY <1>1 DEF Effect, RegisterEffect, RegistryStates
<1>2. CASE r.kind = "activate"
  BY <1>2, AdmittedNames
     DEF Effect, ActivateEffect, ActiveWith, RegistryStates, ActiveMaps
<1>3. CASE r.kind = "deactivate"
  BY <1>3, AdmittedNames, AbsentAssumption
     DEF Effect, DeactivateEffect, DeactivateResult, RegistryStates, ActiveMaps
<1>4. QED
  BY <1>1, <1>2, <1>3, AdmittedNames

\* No admitted operation clears the version of the control plane.
LEMMA EffectKeepsPlatform ==
  ASSUME NEW s \in RegistryStates, NEW r \in Requests, Admitted(r),
         s.active[Platform] # NoVersion
  PROVE  Effect(r, s).active[Platform] # NoVersion
<1>1. CASE r.kind = "register"
  BY <1>1 DEF Effect, RegisterEffect, RegistryStates
<1>2. CASE r.kind = "activate"
  BY <1>2, AdmittedNames, AbsentAssumption
     DEF Effect, ActivateEffect, ActiveWith, RegistryStates, ActiveMaps
<1>3. CASE r.kind = "deactivate"
  BY <1>3, AdmittedNames DEF Effect, DeactivateEffect, RegistryStates, ActiveMaps
<1>4. QED
  BY <1>1, <1>2, <1>3, AdmittedNames

\* An accepted registration leaves its digest registered.
LEMMA AcceptedRegistration ==
  ASSUME NEW s \in RegistryStates, NEW m \in Manifests, RegisterResult(s, m) = "ok"
  PROVE  /\ Registered(RegisterEffect(s, m), m.id, m.version)
         /\ RegisterEffect(s, m).releases[m.id][m.version].digest = m.digest
<1>1. m.id \in Modules /\ m.version \in Versions /\ m # NoRelease
  BY ManifestAssumption, AbsentAssumption
<1>2. CASE Registered(s, m.id, m.version)
  BY <1>1, <1>2 DEF RegisterEffect, RegisterResult, Registered
<1>3. CASE ~Registered(s, m.id, m.version)
  <2>1. RegisterEffect(s, m).releases[m.id][m.version] = m
    BY <1>1, <1>3 DEF RegisterEffect, RegistryStates
  <2>2. QED
    BY <1>1, <2>1 DEF Registered
<1>4. QED
  BY <1>2, <1>3

\* A successful activation was validated against the set it leaves active, and
\* it is validated when it repeats the active version too.
LEMMA AcceptedActivation ==
  ASSUME NEW s \in RegistryStates, NEW m \in Modules, NEW v \in Versions,
         ActivateResult(s, m, v) = "ok"
  PROVE  Admissible(ActivateEffect(s, m, v))
<1> DEFINE t == ActivateEffect(s, m, v)
           a == ActiveWith(s, m, v)
<1>1. RoutesDisjoint(s, a) /\ NavigationAgrees(s, a)
  BY DEF ActivateResult
<1>2. t.active = a /\ t.releases = s.releases
  BY DEF ActivateEffect, ActiveWith, RegistryStates, ActiveMaps
<1>3. \A n \in ActiveModules(a) : ActiveManifest(t, a, n) = ActiveManifest(s, a, n)
  BY <1>2 DEF ActiveManifest
<1>4. QED
  BY <1>1, <1>2, <1>3, AdmissibleBelow DEF Admissible

\* A caller who repeats a request, because it was answered "unavailable" and may
\* have taken effect or because the answer was lost, changes nothing the second
\* time: not the revision either.  A registration or an activation is then
\* accepted again, a deactivation says that there is nothing to deactivate
\* (release.go:106-156).
THEOREM RetryTheorem ==
  ASSUME NEW s \in RegistryStates, NEW r \in Requests, Admitted(r)
  PROVE  LET t == Effect(r, s)
         IN  /\ Effect(r, t) = t
             /\ Result(r, s) = "ok" =>
                  Result(r, t) = IF r.kind = "deactivate" THEN "release_not_found" ELSE "ok"
<1> DEFINE t == Effect(r, s)
           Goal == /\ Effect(r, t) = t
                   /\ Result(r, s) = "ok" =>
                        Result(r, t) = IF r.kind = "deactivate" THEN "release_not_found" ELSE "ok"
<1>1. ASSUME r.kind = "register" PROVE Goal
  <2> DEFINE m == r.manifest
  <2>1. m \in Manifests /\ m.id \in Modules /\ m.version \in Versions
    BY <1>1, AdmittedNames, ManifestAssumption
  <2>2. t = RegisterEffect(s, m)
    BY <1>1, KindOfOperation
  <2>3. /\ Effect(r, t) = RegisterEffect(t, m) /\ Result(r, t) = RegisterResult(t, m)
        /\ Result(r, s) = RegisterResult(s, m)
    BY <1>1, KindOfOperation
  <2>4. CASE RegisterResult(s, m) = "ok"
    <3>1. Registered(t, m.id, m.version) /\ t.releases[m.id][m.version].digest = m.digest
      BY <2>1, <2>2, <2>4, AcceptedRegistration
    <3>2. RegisterResult(t, m) = "ok"
      BY <2>4, <3>1 DEF RegisterResult
    <3>3. QED
      BY <1>1, <2>3, <3>1, <3>2 DEF RegisterEffect
  <2>5. CASE RegisterResult(s, m) # "ok"
    BY <1>1, <2>2, <2>3, <2>5 DEF RegisterEffect
  <2>6. QED
    BY <2>4, <2>5
<1>2. ASSUME r.kind = "activate" PROVE Goal
  <2> DEFINE m == r.module
             v == r.version
  <2>1. m \in Modules /\ v \in Versions
    BY <1>2, AdmittedNames
  <2>2. t = ActivateEffect(s, m, v)
    BY <1>2, KindOfOperation
  <2>3. /\ Effect(r, t) = ActivateEffect(t, m, v) /\ Result(r, t) = ActivateResult(t, m, v)
        /\ Result(r, s) = ActivateResult(s, m, v)
    BY <1>2, KindOfOperation
  <2>4. CASE ActivateResult(s, m, v) = "ok"
    <3>1. t.active = ActiveWith(s, m, v) /\ t.releases = s.releases
      BY <2>1, <2>2, <2>4 DEF ActivateEffect, ActiveWith, RegistryStates, ActiveMaps
    <3>2. t.active[m] = v /\ ActiveWith(t, m, v) = t.active
      BY <2>1, <3>1 DEF ActiveWith, RegistryStates, ActiveMaps
    <3>3. \A n \in ActiveModules(t.active) :
            ActiveManifest(t, t.active, n) = ActiveManifest(s, ActiveWith(s, m, v), n)
      BY <3>1 DEF ActiveManifest
    <3>4. RoutesDisjoint(t, t.active) /\ NavigationAgrees(t, t.active)
      BY <2>4, <3>1, <3>3, AdmissibleBelow DEF ActivateResult
    <3>5. ActivateResult(t, m, v) = "ok"
      BY <2>4, <3>1, <3>2, <3>4 DEF ActivateResult, Registered
    <3>6. ActivateEffect(t, m, v) = t
      BY <3>2 DEF ActivateEffect
    <3>7. QED
      BY <1>2, <2>3, <3>5, <3>6
  <2>5. CASE ActivateResult(s, m, v) # "ok"
    BY <1>2, <2>2, <2>3, <2>5 DEF ActivateEffect
  <2>6. QED
    BY <2>4, <2>5
<1>3. ASSUME r.kind = "deactivate" PROVE Goal
  <2> DEFINE m == r.module
  <2>1. m \in Modules
    BY <1>3, AdmittedNames
  <2>2. t = DeactivateEffect(s, m)
    BY <1>3, KindOfOperation
  <2>3. /\ Effect(r, t) = DeactivateEffect(t, m) /\ Result(r, t) = DeactivateResult(t, m)
        /\ Result(r, s) = DeactivateResult(s, m)
    BY <1>3, KindOfOperation
  <2>4. t.active[m] = NoVersion
    BY <2>1, <2>2 DEF DeactivateEffect, DeactivateResult, RegistryStates, ActiveMaps
  <2>5. QED
    BY <1>3, <2>3, <2>4 DEF DeactivateEffect, DeactivateResult
<1>4. QED
  BY <1>1, <1>2, <1>3, AdmittedNames DEF Goal, t

-----------------------------------------------------------------------------
(***************************************************************************)
(* Prefixes.  The two tests of routePrefixesOverlap that are not equality  *)
(* look for the slash behind one prefix in the other.                      *)
(***************************************************************************)
Characters == STRING \cup {Slash}
Texts == Seq(Characters)

ContinuesAt(prefix, text) ==
  /\ Len(prefix) < Len(text)
  /\ \A n \in 1..Len(prefix) : prefix[n] = text[n]
  /\ text[Len(prefix) + 1] = Slash

LEMMA PrefixPointwise ==
  ASSUME NEW s \in Texts, NEW t \in Texts
  PROVE  Strings!IsPrefix(s, t) <=> Len(s) <= Len(t) /\ \A n \in 1..Len(s) : s[n] = t[n]
<1>1. CASE Len(s) <= Len(t)
  <2>1. /\ SubSeq(s, 1, Len(s)) \in Texts /\ Len(SubSeq(s, 1, Len(s))) = Len(s)
        /\ SubSeq(t, 1, Len(s)) \in Texts /\ Len(SubSeq(t, 1, Len(s))) = Len(s)
        /\ \A n \in 1..Len(s) : SubSeq(s, 1, Len(s))[n] = s[n] /\ SubSeq(t, 1, Len(s))[n] = t[n]
    BY <1>1 DEF Texts
  <2>2. SubSeq(s, 1, Len(s)) = SubSeq(t, 1, Len(s)) <=> \A n \in 1..Len(s) : s[n] = t[n]
    BY <2>1, SeqEqual DEF Texts
  <2>3. QED
    BY <1>1, <2>2 DEF Strings!IsPrefix
<1>2. CASE ~(Len(s) <= Len(t))
  BY <1>2 DEF Strings!IsPrefix
<1>3. QED
  BY <1>1, <1>2

LEMMA AppendedSlash ==
  ASSUME NEW s \in Texts
  PROVE  /\ Append(s, Slash) \in Texts
         /\ Len(Append(s, Slash)) = Len(s) + 1
         /\ \A n \in 1..Len(s) : Append(s, Slash)[n] = s[n]
         /\ Append(s, Slash)[Len(s) + 1] = Slash
<1>1. Slash \in Characters
  BY DEF Characters
<1>2. QED
  BY <1>1, AppendProperties DEF Texts

LEMMA Continues ==
  ASSUME NEW s \in Texts, NEW t \in Texts
  PROVE  Strings!IsPrefix(Append(s, Slash), t) <=> ContinuesAt(s, t)
<1>1. /\ Append(s, Slash) \in Texts
      /\ Len(Append(s, Slash)) = Len(s) + 1
      /\ \A n \in 1..Len(s) : Append(s, Slash)[n] = s[n]
      /\ Append(s, Slash)[Len(s) + 1] = Slash
  BY AppendedSlash
<1>2. Len(s) \in Nat /\ Len(t) \in Nat
  BY DEF Texts
<1>3. Strings!IsPrefix(Append(s, Slash), t)
        <=> Len(s) + 1 <= Len(t) /\ \A n \in 1..(Len(s) + 1) : Append(s, Slash)[n] = t[n]
  BY <1>1, PrefixPointwise
<1>4. 1..(Len(s) + 1) = 1..Len(s) \cup {Len(s) + 1}
  BY <1>2
<1>5. (\A n \in 1..(Len(s) + 1) : Append(s, Slash)[n] = t[n])
        <=> (\A n \in 1..Len(s) : s[n] = t[n]) /\ t[Len(s) + 1] = Slash
  BY <1>1, <1>4
<1>6. QED
  BY <1>2, <1>3, <1>5 DEF ContinuesAt

\* A set of places in a sequence has a last one: of the places from each of its
\* members on, the fewest are those from the last.
LEMMA LastPlace ==
  ASSUME NEW N \in Nat, NEW S \in SUBSET (1..N), S # {}
  PROVE  \E n \in S : \A k \in S : k <= n
<1> DEFINE Rest == {n..N : n \in S}
           R == StrictSubsetOrdering(Nat)
           F == FiniteSubsetsOf(Nat)
<1>1. \A n \in S : n..N \in SUBSET Nat /\ IsFiniteSet(n..N)
  BY FS_Interval
<1>2. Rest \subseteq F
  BY <1>1 DEF FiniteSubsetsOf
<1>3. IsWellFoundedOn(R, F)
  BY FS_StrictSubsetOrderingWellFounded
<1>4. Rest # {}
  OBVIOUS
<1>5. \E x \in Rest : \A y \in Rest : ~(<<y, x>> \in R)
  <2> HIDE DEF R, F, Rest
  <2>1. QED
    BY <1>2, <1>3, <1>4, WFMin
<1>6. PICK n \in S : \A k \in S : ~(<<k..N, n..N>> \in R)
  BY <1>5
<1>7. ASSUME NEW k \in S, n < k PROVE FALSE
  <2>1. k..N \in SUBSET Nat /\ n..N \in SUBSET Nat
    OBVIOUS
  <2>2. k..N \subseteq n..N /\ n \in n..N /\ n \notin k..N
    BY <1>7
  <2>3. <<k..N, n..N>> \in R
    BY <2>1, <2>2 DEF StrictSubsetOrdering
  <2>4. QED
    BY <1>6, <2>3
<1>8. QED
  BY <1>7

\* What is trimmed is slashes, and what is left does not end in one.
LEMMA Trimmed ==
  ASSUME NEW s \in Texts
  PROVE  /\ TrimSlashes(s) \in Texts
         /\ Len(TrimSlashes(s)) <= Len(s)
         /\ \A n \in 1..Len(TrimSlashes(s)) : TrimSlashes(s)[n] = s[n]
         /\ \A n \in 1..Len(s) : n > Len(TrimSlashes(s)) => s[n] = Slash
         /\ Len(TrimSlashes(s)) > 0 => s[Len(TrimSlashes(s))] # Slash
<1> DEFINE kept == {n \in 1..Len(s) : s[n] # Slash}
           last == IF kept = {} THEN 0 ELSE CHOOSE n \in kept : \A k \in kept : k <= n
<1>1. Len(s) \in Nat
  BY DEF Texts
<1>2. TrimSlashes(s) = SubSeq(s, 1, last)
  BY DEF TrimSlashes
<1>3. kept # {} => last \in kept /\ \A k \in kept : k <= last
  BY <1>1, LastPlace
<1>4. kept = {} => last = 0
  OBVIOUS
<1> HIDE DEF last
<1>5. last \in 0..Len(s) /\ (last > 0 => s[last] # Slash)
  BY <1>1, <1>3, <1>4
<1>6. \A n \in 1..Len(s) : n > last => s[n] = Slash
  BY <1>1, <1>3, <1>5
<1> HIDE DEF kept
<1>7. /\ SubSeq(s, 1, last) \in Texts /\ Len(SubSeq(s, 1, last)) = last
      /\ \A n \in 1..last : SubSeq(s, 1, last)[n] = s[n]
  BY <1>1, <1>5 DEF Texts
<1>8. QED
  BY <1>1, <1>2, <1>5, <1>6, <1>7

\* Trimming is settled by the place of the last other character.
LEMMA TrimmedAlike ==
  ASSUME NEW s \in Texts, NEW t \in Texts, NEW l \in Nat, l <= Len(s), l <= Len(t),
         \A n \in 1..l : s[n] = t[n],
         \A n \in 1..Len(s) : n > l => s[n] = Slash,
         \A n \in 1..Len(t) : n > l => t[n] = Slash
  PROVE  TrimSlashes(s) = TrimSlashes(t)
<1> DEFINE a == TrimSlashes(s)
           b == TrimSlashes(t)
<1>1. /\ a \in Texts /\ b \in Texts
      /\ Len(a) <= Len(s) /\ Len(b) <= Len(t)
      /\ \A n \in 1..Len(a) : a[n] = s[n]
      /\ \A n \in 1..Len(b) : b[n] = t[n]
      /\ \A n \in 1..Len(s) : n > Len(a) => s[n] = Slash
      /\ \A n \in 1..Len(t) : n > Len(b) => t[n] = Slash
      /\ Len(a) > 0 => s[Len(a)] # Slash
      /\ Len(b) > 0 => t[Len(b)] # Slash
  BY Trimmed
<1>2. Len(a) \in Nat /\ Len(b) \in Nat /\ Len(s) \in Nat /\ Len(t) \in Nat
  BY <1>1 DEF Texts
<1> HIDE DEF a, b
<1>3. Len(a) <= l /\ Len(b) <= l
  BY <1>1, <1>2
<1>4. Len(a) = Len(b)
  BY <1>1, <1>2, <1>3
<1>5. \A n \in 1..Len(a) : a[n] = b[n]
  BY <1>1, <1>2, <1>3, <1>4
<1>6. QED
  BY <1>1, <1>4, <1>5, SeqEqual DEF Texts, a, b

\* A prefix is compared in a normal form: it is the root or does not end in a
\* slash, it is its own normal form, and a slash behind a prefix changes nothing
\* (normalizedRoutePrefix, release.go:422-428).
THEOREM NormalFormTheorem ==
  ASSUME NEW s \in Texts
  PROVE  LET normal == NormalizedRoutePrefix(s)
         IN  /\ normal \in Texts
             /\ normal = Root \/ (Len(normal) > 0 /\ normal[Len(normal)] # Slash)
             /\ NormalizedRoutePrefix(normal) = normal
             /\ NormalizedRoutePrefix(Append(s, Slash)) = normal
<1> DEFINE a == TrimSlashes(s)
           normal == NormalizedRoutePrefix(s)
<1>1. /\ a \in Texts /\ Len(a) <= Len(s)
      /\ \A n \in 1..Len(a) : a[n] = s[n]
      /\ \A n \in 1..Len(s) : n > Len(a) => s[n] = Slash
      /\ Len(a) > 0 => s[Len(a)] # Slash
  BY Trimmed
<1>2. Len(a) \in Nat /\ Len(s) \in Nat /\ (a = <<>> <=> Len(a) = 0)
  BY <1>1 DEF Texts
<1>3. Root \in Texts /\ Len(Root) = 1 /\ Root[1] = Slash
  BY DEF Root, Texts, Characters
<1>4. normal = IF a = <<>> THEN Root ELSE a
  BY DEF NormalizedRoutePrefix
<1>5. a = TrimSlashes(a)
  BY <1>1, <1>2, TrimmedAlike
<1>6. a = TrimSlashes(Append(s, Slash))
  <2> DEFINE t == Append(s, Slash)
  <2>1. /\ t \in Texts /\ Len(t) = Len(s) + 1
        /\ \A n \in 1..Len(s) : t[n] = s[n]
        /\ t[Len(s) + 1] = Slash
    BY AppendedSlash
  <2> HIDE DEF t, a
  <2>2. \A n \in 1..Len(t) : n > Len(a) => t[n] = Slash
    BY <1>1, <1>2, <2>1
  <2>3. \A n \in 1..Len(a) : s[n] = t[n]
    BY <1>1, <1>2, <2>1
  <2>4. Len(a) \in Nat /\ Len(a) <= Len(s) /\ Len(a) <= Len(t)
    BY <1>1, <1>2, <2>1
  <2>5. TrimSlashes(s) = TrimSlashes(t)
    BY <1>1, <2>1, <2>2, <2>3, <2>4, TrimmedAlike
  <2>6. QED
    BY <2>5 DEF a, t
<1>7. a = <<>> => TrimSlashes(Root) = <<>>
  <2>1. TrimSlashes(Root) \in Texts /\ Len(TrimSlashes(Root)) \in Nat
    BY <1>3, Trimmed DEF Texts
  <2>2. Len(TrimSlashes(Root)) <= 1
        /\ (Len(TrimSlashes(Root)) > 0 => Root[Len(TrimSlashes(Root))] # Slash)
    BY <1>3, Trimmed
  <2>3. Len(TrimSlashes(Root)) = 0
    BY <1>3, <2>1, <2>2
  <2>4. QED
    BY <2>1, <2>3 DEF Texts
<1> HIDE DEF a, normal
<1>8. normal \in Texts /\ (normal = Root \/ (Len(normal) > 0 /\ normal[Len(normal)] # Slash))
  BY <1>1, <1>2, <1>3, <1>4
<1>9. NormalizedRoutePrefix(normal) = normal
  BY <1>4, <1>5, <1>7 DEF NormalizedRoutePrefix
<1>10. NormalizedRoutePrefix(Append(s, Slash)) = normal
  BY <1>4, <1>6 DEF NormalizedRoutePrefix
<1>11. QED
  BY <1>8, <1>9, <1>10 DEF normal

\* Two prefixes that serve a path are equal, or one continues the other.
LEMMA ServedByBoth ==
  ASSUME NEW s \in Texts, NEW t \in Texts, NEW path \in Texts,
         Serves(s, path), Serves(t, path)
  PROVE  RoutePrefixesOverlap(s, t)
<1>1. /\ s = Root \/ path = s \/ ContinuesAt(s, path)
      /\ t = Root \/ path = t \/ ContinuesAt(t, path)
  BY Continues DEF Serves
<1>2. ASSUME ContinuesAt(s, path), ContinuesAt(t, path)
      PROVE  s = t \/ ContinuesAt(s, t) \/ ContinuesAt(t, s)
  <2>1. Len(s) \in Nat /\ Len(t) \in Nat /\ Len(path) \in Nat
    BY DEF Texts
  <2>2. CASE Len(s) = Len(t)
    <3>1. \A n \in 1..Len(s) : s[n] = t[n]
      BY <1>2, <2>2 DEF ContinuesAt
    <3>2. QED
      BY <2>2, <3>1, SeqEqual DEF Texts
  <2>3. CASE Len(s) < Len(t)
    BY <1>2, <2>1, <2>3 DEF ContinuesAt
  <2>4. CASE Len(t) < Len(s)
    BY <1>2, <2>1, <2>4 DEF ContinuesAt
  <2>5. QED
    BY <2>1, <2>2, <2>3, <2>4
<1>3. s = Root \/ t = Root \/ s = t \/ ContinuesAt(s, t) \/ ContinuesAt(t, s)
  BY <1>1, <1>2
<1>4. QED
  BY <1>3, Continues DEF RoutePrefixesOverlap

\* Overlapping prefixes both serve the longer one of them.
LEMMA LongerIsServed ==
  ASSUME NEW s, NEW t, RoutePrefixesOverlap(s, t)
  PROVE  \E path \in {s, t} : Serves(s, path) /\ Serves(t, path)
BY DEF RoutePrefixesOverlap, Serves

LEMMA OverlapSymmetric ==
  ASSUME NEW s, NEW t
  PROVE  RoutePrefixesOverlap(s, t) <=> RoutePrefixesOverlap(t, s)
BY DEF RoutePrefixesOverlap

LEMMA ConflictSymmetric ==
  ASSUME NEW r, NEW s
  PROVE  RoutesConflict(r, s) <=> RoutesConflict(s, r)
BY OverlapSymmetric DEF RoutesConflict

-----------------------------------------------------------------------------
(***************************************************************************)
(* Whose a request is.  Activate compares prefixes in their normal form;   *)
(* Routes publishes them trimmed; a request is a path.  Together they leave *)
(* no request of a surface with two owners.                                *)
(***************************************************************************)
RouteServes(route, surface, path) ==
  route.surface = surface /\ Serves(NormalizedRoutePrefix(route.prefix), path)

\* The active modules with a route for a request.
Owners(s, surface, path) ==
  {m \in ActiveModules(s.active) :
     \E route \in ActiveManifest(s, s.active, m).routes : RouteServes(route, surface, path)}

\* The modules a published route snapshot gives a request to.
Receivers(content, surface, path) ==
  {e.module : e \in {e \in content : RouteServes(e, surface, path)}}

\* A prefix serves the same requests in the form in which it is published.
LEMMA TrimmedServesAlike ==
  ASSUME NEW s \in Texts
  PROVE  NormalizedRoutePrefix(TrimSlashes(s)) = NormalizedRoutePrefix(s)
<1> DEFINE a == TrimSlashes(s)
<1>1. /\ a \in Texts /\ Len(a) <= Len(s)
      /\ \A n \in 1..Len(a) : a[n] = s[n]
      /\ \A n \in 1..Len(s) : n > Len(a) => s[n] = Slash
  BY Trimmed
<1>2. Len(a) \in Nat /\ Len(s) \in Nat
  BY <1>1 DEF Texts
<1>3. TrimSlashes(s) = TrimSlashes(a)
  <2> HIDE DEF a
  <2>1. QED
    BY <1>1, <1>2, TrimmedAlike
<1>4. QED
  BY <1>3 DEF NormalizedRoutePrefix

\* The prefixes of the documents are texts.
LEMMA PrefixesAreTexts ==
  ASSUME NEW m \in Manifests, NEW route \in m.routes
  PROVE  route.prefix \in Texts
<1>1. route.prefix \in Seq(STRING)
  BY PrefixAssumption
<1>2. QED
  BY <1>1, SeqMonotonic DEF Texts, Characters

\* What an active module publishes is a document.
LEMMA ActiveManifestType ==
  ASSUME NEW s \in RegistryStates, ActiveRegistered(s), NEW m \in ActiveModules(s.active)
  PROVE  ActiveManifest(s, s.active, m) \in Manifests
<1>1. m \in Modules /\ s.active[m] \in Versions
  BY DEF ActiveModules, RegistryStates, ActiveMaps
<1>2. s.releases[m][s.active[m]] \in Manifests \cup {NoRelease}
  BY <1>1 DEF RegistryStates
<1>3. QED
  BY <1>2 DEF ActiveRegistered, Registered, ActiveManifest

\* Outside the cluster a request has at most one owner.
LEMMA OneOwner ==
  ASSUME NEW s \in RegistryStates, ActiveRegistered(s), Admissible(s),
         NEW surface, surface # "internal", NEW path \in Texts,
         NEW m \in Owners(s, surface, path), NEW n \in Owners(s, surface, path)
  PROVE  m = n
<1> SUFFICES ASSUME m # n PROVE FALSE
  OBVIOUS
<1>1. m \in ActiveModules(s.active) /\ n \in ActiveModules(s.active)
  BY DEF Owners
<1>2. PICK route \in ActiveManifest(s, s.active, m).routes : RouteServes(route, surface, path)
  BY DEF Owners
<1>3. PICK other \in ActiveManifest(s, s.active, n).routes : RouteServes(other, surface, path)
  BY DEF Owners
<1>4. route.prefix \in Texts /\ other.prefix \in Texts
  BY <1>1, ActiveManifestType, PrefixesAreTexts
<1>5. /\ NormalizedRoutePrefix(route.prefix) \in Texts
      /\ NormalizedRoutePrefix(other.prefix) \in Texts
  BY <1>4, NormalFormTheorem
<1>6. RoutePrefixesOverlap(NormalizedRoutePrefix(route.prefix),
                           NormalizedRoutePrefix(other.prefix))
  BY <1>2, <1>3, <1>5, ServedByBoth DEF RouteServes
<1>7. RoutesConflict(route, other)
  BY <1>2, <1>3, <1>6 DEF RoutesConflict, RouteServes
<1>8. QED
  BY <1>1, <1>7 DEF Admissible, RoutesDisjoint

\* The snapshot gives a request to exactly the modules whose releases serve it.
LEMMA ReceiversAreOwners ==
  ASSUME NEW s \in RegistryStates, ActiveRegistered(s), NEW surface, NEW path \in Texts
  PROVE  Receivers(Routes(s), surface, path) = Owners(s, surface, path)
<1> DEFINE Entry(m, route) ==
             [module |-> m, surface |-> route.surface, prefix |-> TrimSlashes(route.prefix)]
<1>1. ASSUME NEW m \in ActiveModules(s.active),
             NEW route \in ActiveManifest(s, s.active, m).routes
      PROVE  RouteServes(Entry(m, route), surface, path) <=> RouteServes(route, surface, path)
  <2>1. route.prefix \in Texts
    BY ActiveManifestType, PrefixesAreTexts
  <2>2. QED
    BY <2>1, TrimmedServesAlike DEF RouteServes
<1>2. \A e : e \in Routes(s) <=>
        \E m \in ActiveModules(s.active) : \E route \in ActiveManifest(s, s.active, m).routes :
          e = Entry(m, route)
  BY DEF Routes
<1>3. ASSUME NEW m \in Owners(s, surface, path) PROVE m \in Receivers(Routes(s), surface, path)
  <2>1. PICK route \in ActiveManifest(s, s.active, m).routes : RouteServes(route, surface, path)
    BY DEF Owners
  <2>2. /\ Entry(m, route) \in Routes(s)
        /\ RouteServes(Entry(m, route), surface, path)
        /\ Entry(m, route).module = m
    BY <1>1, <1>2, <2>1 DEF Owners
  <2>3. QED
    BY <2>2 DEF Receivers
<1>4. ASSUME NEW n \in Receivers(Routes(s), surface, path) PROVE n \in Owners(s, surface, path)
  <2>1. PICK e \in Routes(s) : RouteServes(e, surface, path) /\ n = e.module
    BY DEF Receivers
  <2>2. PICK m \in ActiveModules(s.active) :
          \E route \in ActiveManifest(s, s.active, m).routes : e = Entry(m, route)
    BY <1>2
  <2>3. PICK route \in ActiveManifest(s, s.active, m).routes : e = Entry(m, route)
    BY <2>2
  <2>4. RouteServes(route, surface, path) /\ n = m
    BY <1>1, <2>1, <2>3
  <2>5. QED
    BY <2>4 DEF Owners
<1>5. QED
  BY <1>3, <1>4

=============================================================================

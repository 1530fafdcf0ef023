----------------------- MODULE ReleaseContractProofs -----------------------
(***************************************************************************)
(* Proofs that the safety properties of ReleaseContract hold for every set *)
(* of documents, clients and requests.                                     *)
(***************************************************************************)
EXTENDS ReleaseContract, RegistryStateProofs

-----------------------------------------------------------------------------
(***************************************************************************)
(* The inductive invariant: besides what is to be shown, only admitted     *)
(* requests are pending or in doubt, which is what keeps a blank name and  *)
(* the deactivation of the control plane away from the aggregate.          *)
(***************************************************************************)
OnlyAdmitted ==
  /\ \A c \in Clients : IsPending(c) => Admitted(call[c].request)
  /\ late # NoRequest => Admitted(late)

TInv == TypeOK /\ OnlyAdmitted
IInv == TInv /\ ActiveAdmissible /\ AcknowledgedReleaseKept

\* Requests are typed where the operations need them.
LEMMA PendingRequest ==
  ASSUME TypeOK, OnlyAdmitted
  PROVE  /\ \A c \in Clients : IsPending(c) =>
              call[c].request \in Requests /\ Admitted(call[c].request)
         /\ late # NoRequest => late \in Requests /\ Admitted(late)
<1>1. ASSUME NEW c \in Clients, IsPending(c) PROVE call[c].request \in Requests
  <2>1. call[c] \in Calls
    BY DEF TypeOK
  <2>2. QED
    BY <1>1, <2>1 DEF IsPending, Calls, Idle
<1>2. QED
  BY <1>1 DEF TypeOK, OnlyAdmitted

LEMMA InitIInv == Init => IInv
<1> SUFFICES ASSUME Init PROVE IInv
  OBVIOUS
<1>1. state \in RegistryStates
  BY DEF Init, NewRegistryState, RegistryStates, ActiveMaps
<1>2. ActiveModules(state.active) = {}
  BY DEF Init, NewRegistryState, ActiveModules
<1>3. ActiveAdmissible
  BY <1>2 DEF ActiveAdmissible, ActiveRegistered, Admissible, RoutesDisjoint,
              NavigationAgrees, ActivePages
<1>4. TypeOK
  BY <1>1 DEF Init, TypeOK, Calls
<1>5. OnlyAdmitted /\ AcknowledgedReleaseKept
  BY DEF Init, OnlyAdmitted, AcknowledgedReleaseKept, IsPending, Idle
<1>6. QED
  BY <1>3, <1>4, <1>5 DEF IInv, TInv

LEMMA Statuses ==
  /\ Idle.status = "idle"
  /\ \A r : Pending(r).status = "pending" /\ Pending(r).request = r
  /\ \A r, o : /\ Answered(r, o).status = "answered"
               /\ Answered(r, o).request = r
               /\ Answered(r, o).result = o
BY DEF Idle, Pending, Answered

\* How an answer, a new call and a return leave the calls typed.
LEMMA CallTypes ==
  /\ Idle \in Calls
  /\ \A r \in Requests : Pending(r) \in Calls
  /\ \A r \in Requests, o \in Outcomes : Answered(r, o) \in Calls
BY DEF Calls, Idle, Pending, Answered

LEMMA TypeStep == TInv /\ [Next]_vars => TypeOK'
<1> SUFFICES ASSUME TInv, [Next]_vars PROVE TypeOK'
  OBVIOUS
<1> USE DEF TInv
<1>1. ASSUME NEW c \in Clients, NEW r \in Traffic, Invoke(c, r) PROVE TypeOK'
  <2>1. r \in Requests
    BY ContractAssumption
  <2>2. QED
    BY <1>1, <2>1, CallTypes, AdmissionType DEF Invoke, TypeOK, Admitted
<1>2. ASSUME NEW c \in Clients, Apply(c) PROVE TypeOK'
  <2>1. IsPending(c) /\ call[c].request \in Requests /\ Admitted(call[c].request)
    BY <1>2, PendingRequest DEF Apply
  <2>2. Effect(call[c].request, state) \in RegistryStates
    BY <2>1, EffectType DEF TypeOK
  <2>3. Result(call[c].request, state) \in Outcomes
    BY <2>1, ResultType
  <2>4. QED
    BY <1>2, <2>1, <2>2, <2>3, CallTypes DEF Apply, Answer, TypeOK
<1>3. ASSUME NEW c \in Clients, Refuse(c) \/ Doubt(c) PROVE TypeOK'
  <2>1. call[c].request \in Requests
    BY <1>3, PendingRequest DEF Refuse, Doubt
  <2>2. "unavailable" \in Outcomes
    BY DEF Outcomes
  <2>3. QED
    BY <1>3, <2>1, <2>2, CallTypes DEF Refuse, Doubt, Answer, TypeOK
<1>4. ASSUME NEW c \in Clients, Return(c) PROVE TypeOK'
  BY <1>4, CallTypes DEF Return, TypeOK
<1>5. CASE TakeEffectLate
  BY <1>5, PendingRequest, EffectType DEF TakeEffectLate, TypeOK
<1>6. CASE NeverTakeEffect
  BY <1>6 DEF NeverTakeEffect, TypeOK
<1>7. CASE UNCHANGED vars
  BY <1>7 DEF vars, TypeOK
<1>8. QED
  BY <1>1, <1>2, <1>3, <1>4, <1>5, <1>6, <1>7 DEF Next

\* What a step does to the aggregate: nothing, or one admitted request.
LEMMA StateStep ==
  ASSUME TInv, [Next]_vars, state' # state
  PROVE  \E r \in Requests : Admitted(r) /\ state' = Effect(r, state)
<1>1. ASSUME NEW c \in Clients, Apply(c)
      PROVE  \E r \in Requests : Admitted(r) /\ state' = Effect(r, state)
  BY <1>1, PendingRequest DEF Apply, TInv
<1>2. CASE TakeEffectLate
  BY <1>2, PendingRequest DEF TakeEffectLate, TInv
<1>3. QED
  BY <1>1, <1>2 DEF Next, Invoke, Refuse, Doubt, Return, NeverTakeEffect, vars

\* What a step does to the call of a client: nothing, or one of five moves.
Accepts(c) == \E r \in Requests : Admitted(r) /\ call'[c] = Pending(r)
TurnsAway(c) == \E r \in Requests : ~Admitted(r) /\ call'[c] = Answered(r, Admission(r))
Decides(c) ==
  Apply(c) /\ call'[c] = Answered(call[c].request, Result(call[c].request, state))
GivesUp(c) == IsPending(c) /\ call'[c] = Answered(call[c].request, "unavailable")

LEMMA CallStep ==
  ASSUME TInv, [Next]_vars, NEW c \in Clients, call'[c] # call[c]
  PROVE  Accepts(c) \/ TurnsAway(c) \/ Decides(c) \/ GivesUp(c) \/ call'[c] = Idle
<1> DEFINE Goal == Accepts(c) \/ TurnsAway(c) \/ Decides(c) \/ GivesUp(c) \/ call'[c] = Idle
<1>0. call \in [Clients -> Calls]
  BY DEF TInv, TypeOK
<1>1. ASSUME NEW d \in Clients, NEW r \in Traffic, Invoke(d, r) PROVE Goal
  <2>1. r \in Requests /\ d = c
    BY <1>0, <1>1, ContractAssumption DEF Invoke
  <2>2. QED
    BY <1>0, <1>1, <2>1 DEF Invoke, Admitted, Accepts, TurnsAway
<1>2. ASSUME NEW d \in Clients, Apply(d) PROVE Goal
  <2>1. d = c
    BY <1>0, <1>2 DEF Apply, Answer
  <2>2. QED
    BY <1>0, <1>2, <2>1 DEF Apply, Answer, Decides
<1>3. ASSUME NEW d \in Clients, Refuse(d) \/ Doubt(d) PROVE Goal
  <2>1. d = c
    BY <1>0, <1>3 DEF Refuse, Doubt, Answer
  <2>2. QED
    BY <1>0, <1>3, <2>1 DEF Refuse, Doubt, Answer, GivesUp
<1>4. ASSUME NEW d \in Clients, Return(d) PROVE Goal
  <2>1. d = c
    BY <1>0, <1>4 DEF Return
  <2>2. QED
    BY <1>0, <1>4, <2>1 DEF Return
<1>5. QED
  BY <1>1, <1>2, <1>3, <1>4 DEF Next, TakeEffectLate, NeverTakeEffect, vars

LEMMA OnlyAdmittedStep == TInv /\ [Next]_vars => OnlyAdmitted'
<1> SUFFICES ASSUME TInv, [Next]_vars PROVE OnlyAdmitted'
  OBVIOUS
<1>1. ASSUME NEW c \in Clients, IsPending(c)' PROVE Admitted(call'[c].request)
  <2>1. CASE call'[c] = call[c]
    BY <1>1, <2>1 DEF TInv, OnlyAdmitted, IsPending
  <2>2. CASE call'[c] # call[c]
    <3>1. call'[c].status = "pending"
      BY <1>1 DEF IsPending
    <3>2. Accepts(c)
      BY <2>2, <3>1, CallStep, Statuses DEF TurnsAway, Decides, GivesUp
    <3>3. QED
      BY <3>2, Statuses DEF Accepts
  <2>3. QED
    BY <2>1, <2>2
<1>2. late' # NoRequest => Admitted(late')
  BY PendingRequest DEF TInv, OnlyAdmitted, Next, Invoke, Apply, Refuse, Doubt, Return,
       TakeEffectLate, NeverTakeEffect, vars
<1>3. QED
  BY <1>1, <1>2 DEF OnlyAdmitted, Admitted

LEMMA ActiveAdmissibleStep == IInv /\ [Next]_vars => ActiveAdmissible'
<1> SUFFICES ASSUME IInv, [Next]_vars, state' # state PROVE ActiveAdmissible'
  BY DEF IInv, ActiveAdmissible
<1>1. PICK r \in Requests : Admitted(r) /\ state' = Effect(r, state)
  BY StateStep DEF IInv
<1>2. state \in RegistryStates /\ ActiveRegistered(state) /\ Admissible(state)
  BY DEF IInv, TInv, TypeOK, ActiveAdmissible
<1>3. ActiveRegistered(state') /\ Admissible(state')
  BY <1>1, <1>2, EffectAdmissible
<1>4. QED
  BY <1>3 DEF ActiveAdmissible

\* No step replaces or drops a registered release.
LEMMA ImmutableStep ==
  ASSUME TInv, [Next]_vars, NEW m \in Modules, NEW v \in Versions, Registered(state, m, v)
  PROVE  state'.releases[m][v] = state.releases[m][v]
<1>1. CASE state' = state
  BY <1>1
<1>2. CASE state' # state
  <2>1. PICK r \in Requests : Admitted(r) /\ state' = Effect(r, state)
    BY <1>2, StateStep
  <2>2. QED
    BY <2>1, EffectKeepsReleases DEF TInv, TypeOK
<1>3. QED
  BY <1>1, <1>2

\* A step leaves revision and active set alone, or moves to a new revision.
LEMMA RevisionStep ==
  ASSUME IInv, [Next]_vars
  PROVE  /\ state.revision \in Nat
         /\ \/ state'.revision = state.revision + 1
            \/ /\ state'.revision = state.revision
               /\ state'.active = state.active
<1>1. state.revision \in Nat
  BY DEF IInv, TInv, TypeOK, RegistryStates
<1>2. CASE state' = state
  BY <1>1, <1>2
<1>3. CASE state' # state
  BY <1>1, <1>3, StateStep, EffectRevision DEF IInv, TInv, TypeOK
<1>4. QED
  BY <1>2, <1>3

\* While the revision stays, so do the releases that are active, although others
\* may be registered meanwhile.
LEMMA ActiveStep ==
  ASSUME IInv, [Next]_vars, state'.revision = state.revision
  PROVE  /\ state'.active = state.active
         /\ \A m \in ActiveModules(state.active) :
              /\ m \in Modules /\ state.active[m] \in Versions
              /\ Registered(state, m, state.active[m])
              /\ state'.releases[m][state.active[m]] = state.releases[m][state.active[m]]
<1>1. state'.active = state.active
  BY RevisionStep
<1>2. \A m \in ActiveModules(state.active) :
        /\ m \in Modules
        /\ state.active[m] \in Versions
        /\ Registered(state, m, state.active[m])
  BY DEF ActiveModules, IInv, TInv, TypeOK, ActiveAdmissible, ActiveRegistered,
         RegistryStates, ActiveMaps
<1>3. QED
  BY <1>1, <1>2, ImmutableStep DEF IInv

LEMMA AcknowledgedStep == IInv /\ [Next]_vars => AcknowledgedReleaseKept'
<1> SUFFICES ASSUME IInv, [Next]_vars, NEW c \in Clients,
                    call'[c].status = "answered",
                    call'[c].request.kind = "register",
                    call'[c].result = "ok"
             PROVE  /\ Registered(state', call'[c].request.manifest.id,
                                          call'[c].request.manifest.version)
                    /\ state'.releases[call'[c].request.manifest.id]
                                      [call'[c].request.manifest.version].digest
                          = call'[c].request.manifest.digest
  BY DEF AcknowledgedReleaseKept
<1> DEFINE m == call'[c].request.manifest
<1>1. CASE call'[c] = call[c]
  <2>1. call[c] \in Calls
    BY DEF IInv, TInv, TypeOK
  <2>2. m \in Manifests
    BY <1>1, <2>1 DEF Calls, Idle, Requests
  <2>3. /\ Registered(state, m.id, m.version)
        /\ state.releases[m.id][m.version].digest = m.digest
    BY <1>1 DEF IInv, AcknowledgedReleaseKept
  <2>4. state'.releases[m.id][m.version] = state.releases[m.id][m.version]
    BY <2>2, <2>3, ManifestAssumption, ImmutableStep DEF IInv
  <2>5. QED
    BY <2>3, <2>4 DEF Registered
<1>2. CASE call'[c] # call[c]
  <2>1. Apply(c) /\ call'[c] = Answered(call[c].request, Result(call[c].request, state))
    BY <1>2, CallStep, AdmissionType, Statuses DEF IInv, Accepts, TurnsAway, Decides, GivesUp
  <2>2. call[c].request \in Requests /\ Admitted(call[c].request)
    BY <2>1, PendingRequest DEF Apply, IInv, TInv
  <2>3. call'[c].request = call[c].request /\ call'[c].result = Result(call[c].request, state)
    BY <2>1 DEF Answered
  <2>4. m \in Manifests /\ RegisterResult(state, m) = "ok"
    BY <2>2, <2>3, AdmittedNames DEF Result
  <2>5. state' = RegisterEffect(state, m)
    BY <2>1, <2>3 DEF Apply, Effect
  <2>6. state \in RegistryStates
    BY DEF IInv, TInv, TypeOK
  <2>7. QED
    BY <2>4, <2>5, <2>6, AcceptedRegistration
<1>3. QED
  BY <1>1, <1>2

LEMMA IInvInductive == Spec => []IInv
<1>1. IInv /\ [Next]_vars => IInv'
  BY TypeStep, OnlyAdmittedStep, ActiveAdmissibleStep, AcknowledgedStep DEF IInv, TInv
<1>2. QED
  BY InitIInv, <1>1, PTL DEF Spec

\* Typing does not depend on what the database holds to begin with.
LEMMA TInvInductive == LegacySpec => []TInv
<1>1. LegacyInit => TInv
  BY ContractAssumption, CallTypes, Statuses
     DEF LegacyInit, TInv, TypeOK, OnlyAdmitted, IsPending
<1>2. TInv /\ [Next]_vars => TInv'
  BY TypeStep, OnlyAdmittedStep DEF TInv
<1>3. QED
  BY <1>1, <1>2, PTL DEF LegacySpec

-----------------------------------------------------------------------------
(***************************************************************************)
(* The properties.                                                         *)
(***************************************************************************)

\* The variables keep their types: no operation leaves the aggregate malformed.
THEOREM TypeCorrect == Spec => []TypeOK
BY IInvInductive, PTL DEF IInv, TInv

\* The active set is admissible in every reachable state, for any documents and
\* any number of concurrent clients (Activate validates, Deactivate and Register
\* do not: release.go:100-156).
THEOREM AlwaysAdmissible == Spec => []ActiveAdmissible
BY IInvInductive, PTL DEF IInv

\* An acknowledged release stays registered with the digest that was returned.
THEOREM AlwaysAcknowledged == Spec => []AcknowledgedReleaseKept
BY IInvInductive, PTL DEF IInv

\* A registered release is never replaced or dropped (release.go:115-121).
THEOREM Immutability == Spec => ReleasesImmutable
<1>1. TInv /\ [Next]_vars =>
        [\A m \in Modules, v \in Versions :
           Registered(state, m, v) => state'.releases[m][v] = state.releases[m][v]]_vars
  BY ImmutableStep
<1>2. QED
  BY <1>1, IInvInductive, PTL DEF IInv, Spec, ReleasesImmutable

\* A revision names one active set (release.go:145, 154).
THEOREM RevisionTheorem == Spec => RevisionCountsActiveSets
<1>1. TInv /\ [Next]_vars =>
        [/\ state'.active # state.active => state'.revision = state.revision + 1
         /\ state'.active = state.active => state'.revision = state.revision]_vars
  <2> SUFFICES ASSUME TInv, [Next]_vars
               PROVE  /\ state'.active # state.active => state'.revision = state.revision + 1
                      /\ state'.active = state.active => state'.revision = state.revision
    OBVIOUS
  <2>1. CASE state' = state
    BY <2>1
  <2>2. CASE state' # state
    BY <2>2, StateStep, EffectRevision DEF TInv, TypeOK
  <2>3. QED
    BY <2>1, <2>2
<1>2. QED
  BY <1>1, IInvInductive, PTL DEF IInv, Spec, RevisionCountsActiveSets

\* The control-plane module is never deactivated (biz/release.go:61), because the
\* request to do so is not admitted and no other request clears its version.
THEOREM PlatformTheorem == Spec => PlatformStaysActive
<1>1. TInv /\ [Next]_vars =>
        [state.active[Platform] # NoVersion => state'.active[Platform] # NoVersion]_vars
  <2> SUFFICES ASSUME TInv, [Next]_vars, state.active[Platform] # NoVersion
               PROVE  state'.active[Platform] # NoVersion
    OBVIOUS
  <2>1. CASE state' = state
    BY <2>1
  <2>2. CASE state' # state
    <3>1. PICK r \in Requests : Admitted(r) /\ state' = Effect(r, state)
      BY <2>2, StateStep
    <3>2. QED
      BY <3>1, EffectKeepsPlatform DEF TInv, TypeOK
  <2>3. QED
    BY <2>1, <2>2
<1>2. QED
  BY <1>1, IInvInductive, PTL DEF IInv, Spec, PlatformStaysActive

\* From whatever active set the database held, an activation answered "ok"
\* leaves an admissible one (mysql/release.go:70-73).
THEOREM RepairTheorem == LegacySpec => AcceptedActivationAdmissible
<1>1. ASSUME TInv, [Next]_vars, NEW c \in Clients,
             IsPending(c), call[c].request.kind = "activate",
             call'[c].status = "answered", call'[c].result = "ok"
      PROVE  Admissible(state')
  <2>1. call'[c] # call[c]
    BY <1>1 DEF IsPending
  <2>2. Decides(c)
    <3>1. ~TurnsAway(c)
      BY <1>1, AdmissionType, Statuses DEF TurnsAway
    <3>2. QED
      BY <1>1, <2>1, <3>1, CallStep, Statuses DEF Accepts, GivesUp
  <2>3. call[c].request \in Requests /\ Admitted(call[c].request)
    BY <1>1, PendingRequest DEF TInv
  <2>4. ActivateResult(state, call[c].request.module, call[c].request.version) = "ok"
    BY <1>1, <2>2, Statuses DEF Decides, Result
  <2>5. state' = ActivateEffect(state, call[c].request.module, call[c].request.version)
    BY <1>1, <2>2 DEF Decides, Apply, Effect
  <2>6. QED
    BY <1>1, <2>3, <2>4, <2>5, AdmittedNames, AcceptedActivation DEF TInv, TypeOK
<1>2. TInv /\ [Next]_vars =>
        [\A c \in Clients :
           /\ IsPending(c)
           /\ call[c].request.kind = "activate"
           /\ call'[c].status = "answered"
           /\ call'[c].result = "ok"
           => Admissible(state')]_vars
  BY <1>1
<1>3. QED
  BY <1>2, TInvInductive, PTL DEF LegacySpec, AcceptedActivationAdmissible

\* Outside the cluster no request has two owners, in any reachable state and for
\* every path there is: what Activate compares, prefixes in their normal form
\* (release.go:330-353, 422-440), is enough for what a router does with them.
RequestsHaveOneOwner ==
  \A surface, path : surface # "internal" /\ path \in Texts =>
    \A m, n \in Owners(state, surface, path) : m = n

\* For prefixes and paths of any length, and any number of modules.
THEOREM RoutingTheorem == Spec => []RequestsHaveOneOwner
<1>1. IInv => RequestsHaveOneOwner
  BY OneOwner DEF IInv, TInv, TypeOK, ActiveAdmissible, RequestsHaveOneOwner
<1>2. QED
  BY <1>1, IInvInductive, PTL

\* A request changes hands only under a new revision, although documents are
\* registered under an old one: a router that sees its revision unchanged need
\* not read its routes again (Register, release.go:106-124, moves no Revision).
OwnersMoveWithRevision ==
  [][state'.revision = state.revision =>
       \A surface, path : Owners(state', surface, path) = Owners(state, surface, path)]_vars

\* For every step of every client, late effects included.
THEOREM RequestOwnerTheorem == Spec => OwnersMoveWithRevision
<1>1. IInv /\ [Next]_vars =>
        [state'.revision = state.revision =>
           \A surface, path : Owners(state', surface, path) = Owners(state, surface, path)]_vars
  <2> SUFFICES ASSUME IInv, [Next]_vars, state'.revision = state.revision, NEW surface, NEW path
               PROVE  Owners(state', surface, path) = Owners(state, surface, path)
    OBVIOUS
  <2>1. /\ state'.active = state.active
        /\ \A m \in ActiveModules(state.active) :
             ActiveManifest(state', state'.active, m) = ActiveManifest(state, state.active, m)
    BY ActiveStep DEF ActiveManifest
  <2>2. QED
    BY <2>1 DEF Owners
<1>2. QED
  BY <1>1, IInvInductive, PTL DEF Spec, OwnersMoveWithRevision

\* An active set that is admissible stays so, whatever set the database held
\* before: once the sets an earlier service left are repaired, no sequence of
\* operations brings a conflict back (mysql/release.go:70-73).
THEOREM RepairLastsTheorem == LegacySpec => [](ActiveAdmissible => []ActiveAdmissible)
<1>1. ASSUME TInv, ActiveAdmissible, [Next]_vars PROVE ActiveAdmissible'
  <2>1. CASE state' = state
    BY <1>1, <2>1 DEF ActiveAdmissible
  <2>2. CASE state' # state
    <3>1. PICK r \in Requests : Admitted(r) /\ state' = Effect(r, state)
      BY <1>1, <2>2, StateStep
    <3>2. ActiveRegistered(state') /\ Admissible(state')
      BY <1>1, <3>1, EffectAdmissible DEF TInv, TypeOK, ActiveAdmissible
    <3>3. QED
      BY <3>2 DEF ActiveAdmissible
  <2>3. QED
    BY <2>1, <2>2
<1>2. TInv /\ ActiveAdmissible /\ [Next]_vars => ActiveAdmissible'
  BY <1>1
<1>3. QED
  BY <1>2, TInvInductive, PTL DEF LegacySpec

\* A release that is stored may be registered again at any later time, however
\* often and by whomever: the document is accepted as long as it is valid, and
\* the aggregate stays what it is (release.go:115-121).
Stored(m) ==
  /\ Registered(state, m.id, m.version)
  /\ state.releases[m.id][m.version].digest = m.digest

\* For any document, number of clients and distance in time.
THEOREM RepeatTheorem ==
  ASSUME NEW CONSTANT m \in Manifests, m.form = "valid"
  PROVE  Spec => [](Stored(m) =>
           [](RegisterResult(state, m) = "ok" /\ RegisterEffect(state, m) = state))
<1>1. m.id \in Modules /\ m.version \in Versions
  BY ManifestAssumption
<1>2. ASSUME TInv, [Next]_vars, Stored(m) PROVE Stored(m)'
  <2>1. state'.releases[m.id][m.version] = state.releases[m.id][m.version]
    BY <1>1, <1>2, ImmutableStep DEF Stored
  <2>2. QED
    BY <1>2, <2>1 DEF Stored, Registered
<1>3. Stored(m) => RegisterResult(state, m) = "ok" /\ RegisterEffect(state, m) = state
  BY DEF Stored, RegisterResult, RegisterEffect
<1>4. TInv /\ Stored(m) /\ [Next]_vars => Stored(m)'
  BY <1>2
<1>5. IInv => TInv
  BY DEF IInv
<1>6. QED
  BY <1>3, <1>4, <1>5, IInvInductive, PTL DEF Spec
=============================================================================

-------------------------- MODULE ReleaseContract --------------------------
(***************************************************************************)
(* What the release service promises its callers, whatever stores the      *)
(* aggregate (biz.ReleaseRepository, internal/biz/release.go): each        *)
(* request takes effect at one instant between its call and its answer, or *)
(* not at all when it is answered "unavailable", or, when the repository   *)
(* loses the outcome of its last step, once at a later instant that comes  *)
(* before any other request takes effect.  The memory adapter, one mutex   *)
(* around the aggregate, is this module without the failures.              *)
(***************************************************************************)
EXTENDS RegistryState

CONSTANTS Clients,       \* goroutines serving one request at a time
          Traffic,       \* the requests that arrive
          NoRequest,     \* nothing to answer, or nothing in doubt
          NoResult,      \* not answered
          LegacyStates,  \* states an earlier service may have left in the database
          MaxRevision    \* bound: no request is admitted from here on

ASSUME ContractAssumption ==
  /\ Traffic \subseteq Requests
  /\ NoRequest \notin Requests
  /\ NoResult \notin Outcomes
  /\ LegacyStates \subseteq RegistryStates
  /\ MaxRevision \in Nat

VARIABLES state,   \* the registry aggregate
          call,    \* per client: the request it serves and how far it is
          late     \* the unavailable request whose effect is undecided

vars == <<state, call, late>>

Idle == [status |-> "idle", request |-> NoRequest, result |-> NoResult]
Pending(request) == [status |-> "pending", request |-> request, result |-> NoResult]
Answered(request, result) ==
  [status |-> "answered", request |-> request, result |-> result]

Calls == {Idle}
           \cup [status : {"pending"}, request : Requests, result : {NoResult}]
           \cup [status : {"answered"}, request : Requests, result : Outcomes]

TypeOK ==
  /\ state \in RegistryStates
  /\ call \in [Clients -> Calls]
  /\ late \in Requests \cup {NoRequest}

Init ==
  /\ state = NewRegistryState
  /\ call = [c \in Clients |-> Idle]
  /\ late = NoRequest

\* The database is older than the validation of active sets.
LegacyInit ==
  /\ state \in LegacyStates
  /\ call = [c \in Clients |-> Idle]
  /\ late = NoRequest

IsPending(c) == call[c].status = "pending"
Answer(c, result) == call' = [call EXCEPT ![c] = Answered(@.request, result)]

-----------------------------------------------------------------------------
\* A request arrives; the service answers it at once or calls the repository.
Invoke(c, request) ==
  /\ call[c] = Idle
  /\ state.revision < MaxRevision \/ Admission(request) # "admitted"
  /\ call' = [call EXCEPT ![c] =
                IF Admission(request) = "admitted"
                THEN Pending(request)
                ELSE Answered(request, Admission(request))]
  /\ UNCHANGED <<state, late>>

\* The repository loads the aggregate, applies the operation and persists it.
Apply(c) ==
  /\ IsPending(c)
  /\ late = NoRequest
  /\ state' = Effect(call[c].request, state)
  /\ Answer(c, Result(call[c].request, state))
  /\ UNCHANGED late

\* The repository gives up without an effect.
Refuse(c) ==
  /\ IsPending(c)
  /\ Answer(c, "unavailable")
  /\ UNCHANGED <<state, late>>

\* The repository loses the outcome of its last step.
Doubt(c) ==
  /\ IsPending(c)
  /\ late = NoRequest
  /\ late' = call[c].request
  /\ Answer(c, "unavailable")
  /\ UNCHANGED state

\* The request in doubt took effect after all, or it did not.
TakeEffectLate ==
  /\ late # NoRequest
  /\ state' = Effect(late, state)
  /\ late' = NoRequest
  /\ UNCHANGED call

NeverTakeEffect ==
  /\ late # NoRequest
  /\ late' = NoRequest
  /\ UNCHANGED <<state, call>>

\* The client has its answer.
Return(c) ==
  /\ call[c].status = "answered"
  /\ call' = [call EXCEPT ![c] = Idle]
  /\ UNCHANGED <<state, late>>

Next ==
  \/ \E c \in Clients :
       \/ \E request \in Traffic : Invoke(c, request)
       \/ Apply(c) \/ Refuse(c) \/ Doubt(c) \/ Return(c)
  \/ TakeEffectLate
  \/ NeverTakeEffect

Spec == Init /\ [][Next]_vars
LegacySpec == LegacyInit /\ [][Next]_vars

-----------------------------------------------------------------------------
\* Safety.

\* No sequence of activations, deactivations and late effects of concurrent
\* clients installs an active set that names a missing release, whose routes
\* overlap or whose navigation groups disagree, although each activation
\* validates only what it loaded and Deactivate validates nothing.
ActiveAdmissible == ActiveRegistered(state) /\ Admissible(state)

\* A release the service acknowledged stays registered with the digest it
\* returned for as long as its caller has that answer, whatever the others do
\* meanwhile: neither a lost update nor a second document of the same version
\* replaces it.
AcknowledgedReleaseKept ==
  \A c \in Clients :
    (call[c].status = "answered" /\ call[c].request.kind = "register" /\ call[c].result = "ok")
      => LET manifest == call[c].request.manifest
         IN  /\ Registered(state, manifest.id, manifest.version)
             /\ state.releases[manifest.id][manifest.version].digest = manifest.digest

\* A registered release is immutable: no step of any client replaces or drops
\* it, the steps that take effect after an "unavailable" answer included.
ReleasesImmutable ==
  [][\A m \in Modules, v \in Versions :
       Registered(state, m, v) => state'.releases[m][v] = state.releases[m][v]]_vars

\* The active set changes exactly when Revision moves, by one, so that a
\* revision names one active set (release.go:145, 154).
RevisionCountsActiveSets ==
  [][/\ state'.active # state.active => state'.revision = state.revision + 1
     /\ state'.active = state.active => state'.revision = state.revision]_vars

\* Once the control-plane module is active it stays active, in some version:
\* the repository itself would deactivate it (biz/release.go:61).
PlatformStaysActive ==
  [][state.active[Platform] # NoVersion => state'.active[Platform] # NoVersion]_vars

\* An activation answered "ok" leaves an admissible active set, from whatever
\* set the database held before, and when it repeats the active version too
\* (mysql/release.go:70-73: "a deployment cannot preserve an invalid
\* pre-existing active snapshot").
AcceptedActivationAdmissible ==
  [][\A c \in Clients :
       /\ IsPending(c)
       /\ call[c].request.kind = "activate"
       /\ call'[c].status = "answered"
       /\ call'[c].result = "ok"
       => Admissible(state')]_vars
=============================================================================

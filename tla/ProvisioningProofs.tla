------------------------- MODULE ProvisioningProofs -------------------------
(***************************************************************************)
(* Proofs about what is built on the release service: the consumers of its *)
(* snapshots, and the provisioning surface.  Their steps are steps of the  *)
(* service or leave it alone, so that what is proved about ReleaseContract *)
(* holds here.                                                             *)
(***************************************************************************)
EXTENDS Provisioning, SnapshotConsumers, ReleaseContractProofs

-----------------------------------------------------------------------------
(***************************************************************************)
(* Consumers of the registry that work from the same revision work from    *)
(* the same releases, for every number of consumers, documents and         *)
(* requests, however long replies are delayed.                             *)
(***************************************************************************)

\* The snapshots a consumer has or is about to have.
Held(k) == {reply[k], view[k]} \ {NoSnapshot}

(***************************************************************************)
(* The inductive invariant.  A snapshot is no newer than the state, and    *)
(* one of the current revision is what the service would answer now; the   *)
(* releases an Identity snapshot names stay registered, so that their      *)
(* routes can be looked up; two snapshots of one revision agree already    *)
(* when one of them is still on its way; and a reply on its way is no      *)
(* older than the snapshot it will replace.                                *)
(***************************************************************************)
NoneFromTheFuture ==
  \A k \in Consumers : \A x \in Held(k) :
    /\ x.revision \in Nat
    /\ x.revision <= state.revision
    /\ x.revision = state.revision => x = Projection(k)

GrantedRegistered ==
  \A i \in Identities : \A y \in Held(i) : \A c \in y.content :
    /\ c.module \in Modules
    /\ c.version \in Versions
    /\ Registered(state, c.module, c.version)

SameRevisionAgrees ==
  \A g \in Gateways, i \in Identities : \A x \in Held(g), y \in Held(i) :
    x.revision = y.revision => x.content = RoutesOfGranted(y.content)

RepliesAreNewer ==
  \A k \in Consumers :
    (reply[k] # NoSnapshot /\ view[k] # NoSnapshot) => view[k].revision <= reply[k].revision

SnapshotsTyped ==
  /\ reply = [k \in Consumers |-> reply[k]]
  /\ view = [k \in Consumers |-> view[k]]

CInv == /\ SnapshotsTyped
        /\ NoneFromTheFuture
        /\ GrantedRegistered
        /\ SameRevisionAgrees
        /\ RepliesAreNewer

-----------------------------------------------------------------------------
\* Readers are composed with the service so that they leave it alone: what is
\* proved of the contract may be used here.
LEMMA ConsumersObserve == ConsumerSpec => Spec
<1>1. ConsumerInit => Init
  BY DEF ConsumerInit
<1>2. [ConsumerNext]_allVars => [Next]_vars
  BY DEF ConsumerNext, Poll, Serve, Install, LoseReply, allVars, vars
<1>3. QED
  BY <1>1, <1>2, PTL DEF ConsumerSpec, Spec

\* The two projections of one state agree.
LEMMA ProjectionsAgree ==
  Routes(state) = RoutesOfGranted(ActiveCapabilitySnapshot(state))
<1> DEFINE Published(m, v) ==
      {[module |-> m, surface |-> route.surface, prefix |-> TrimSlashes(route.prefix)] :
         route \in state.releases[m][v].routes}
    Capability(m) ==
      [module      |-> m,
       version     |-> state.active[m],
       digest      |-> ActiveManifest(state, state.active, m).digest,
       permissions |-> ActiveManifest(state, state.active, m).permissions]
    Caps == ActiveCapabilitySnapshot(state)
<1>1. Routes(state) = UNION {Published(m, state.active[m]) : m \in ActiveModules(state.active)}
  BY DEF Routes, ActiveManifest
<1>2. RoutesOfGranted(Caps) = UNION {Published(c.module, c.version) : c \in Caps}
  BY DEF RoutesOfGranted
<1>3. Caps = {Capability(m) : m \in ActiveModules(state.active)}
  BY DEF ActiveCapabilitySnapshot
<1>4. \A m : Capability(m).module = m /\ Capability(m).version = state.active[m]
  OBVIOUS
<1> HIDE DEF Published, Capability, Caps
<1>5. {Published(c.module, c.version) : c \in Caps}
        = {Published(m, state.active[m]) : m \in ActiveModules(state.active)}
  BY <1>3, <1>4
<1>6. QED
  BY <1>1, <1>2, <1>5 DEF Caps

\* A capability snapshot names registered releases.
LEMMA CapabilitiesRegistered ==
  ASSUME state \in RegistryStates, ActiveRegistered(state),
         NEW c \in ActiveCapabilitySnapshot(state)
  PROVE  /\ c.module \in Modules
         /\ c.version \in Versions
         /\ Registered(state, c.module, c.version)
BY DEF ActiveCapabilitySnapshot, ActiveRegistered, ActiveModules, RegistryStates, ActiveMaps

\* What a revision shows is settled with it.
LEMMA SnapshotStep ==
  ASSUME IInv, [Next]_vars, state'.revision = state.revision
  PROVE  /\ Routes(state') = Routes(state)
         /\ ActiveCapabilitySnapshot(state') = ActiveCapabilitySnapshot(state)
<1>1. \A m \in ActiveModules(state.active) :
        ActiveManifest(state', state'.active, m) = ActiveManifest(state, state.active, m)
  BY ActiveStep DEF ActiveManifest
<1>2. QED
  BY <1>1, ActiveStep DEF Routes, ActiveCapabilitySnapshot

LEMMA ProjectionStep ==
  ASSUME IInv, [Next]_vars, state'.revision = state.revision, NEW k \in Consumers
  PROVE  Projection(k)' = Projection(k)
BY SnapshotStep DEF Projection

\* Routes are looked up in registered releases, which no step changes.
LEMMA GrantedStep ==
  ASSUME IInv, [Next]_vars, NEW C,
         \A c \in C : /\ c.module \in Modules
                      /\ c.version \in Versions
                      /\ Registered(state, c.module, c.version)
  PROVE  /\ RoutesOfGranted(C)' = RoutesOfGranted(C)
         /\ \A c \in C : Registered(state', c.module, c.version)
<1>1. \A c \in C : state'.releases[c.module][c.version] = state.releases[c.module][c.version]
  BY ImmutableStep DEF IInv
<1>2. QED
  BY <1>1 DEF RoutesOfGranted, Registered

-----------------------------------------------------------------------------
LEMMA InitCInv == ConsumerInit => CInv
<1> SUFFICES ASSUME ConsumerInit PROVE CInv
  OBVIOUS
<1>1. \A k \in Consumers : Held(k) = {} /\ reply[k] = NoSnapshot
  BY DEF ConsumerInit, Held
<1>2. SnapshotsTyped
  BY DEF ConsumerInit, SnapshotsTyped
<1>3. QED
  BY <1>1, <1>2 DEF CInv, NoneFromTheFuture, GrantedRegistered, SameRevisionAgrees,
                    RepliesAreNewer, Consumers

\* A step of a client.
LEMMA ClientStep ==
  ASSUME IInv, CInv, [Next]_vars, UNCHANGED consumerVars
  PROVE  CInv'
<1>1. \A k \in Consumers : Held(k)' = Held(k)
  BY DEF consumerVars, Held
<1>2. SnapshotsTyped' /\ RepliesAreNewer'
  BY DEF CInv, SnapshotsTyped, RepliesAreNewer, consumerVars
<1>3. NoneFromTheFuture'
  <2> SUFFICES ASSUME NEW k \in Consumers, NEW x \in Held(k)
               PROVE  /\ x.revision \in Nat
                      /\ x.revision <= state'.revision
                      /\ x.revision = state'.revision => x = Projection(k)'
    BY <1>1 DEF NoneFromTheFuture
  <2>1. /\ x.revision \in Nat
        /\ x.revision <= state.revision
        /\ x.revision = state.revision => x = Projection(k)
    BY DEF CInv, NoneFromTheFuture
  <2>2. CASE state'.revision = state.revision + 1
    BY <2>1, <2>2, RevisionStep
  <2>3. CASE state'.revision = state.revision
    BY <2>1, <2>3, ProjectionStep
  <2>4. QED
    BY <2>2, <2>3, RevisionStep
<1>4. ASSUME NEW i \in Identities, NEW y \in Held(i)
      PROVE  /\ RoutesOfGranted(y.content)' = RoutesOfGranted(y.content)
             /\ \A c \in y.content : /\ c.module \in Modules
                                     /\ c.version \in Versions
                                     /\ Registered(state', c.module, c.version)
  <2>1. \A c \in y.content : /\ c.module \in Modules
                             /\ c.version \in Versions
                             /\ Registered(state, c.module, c.version)
    BY DEF CInv, GrantedRegistered
  <2>2. QED
    BY <2>1, GrantedStep
<1>5. GrantedRegistered'
  BY <1>1, <1>4 DEF GrantedRegistered, Consumers
<1>6. SameRevisionAgrees'
  BY <1>1, <1>4 DEF CInv, SameRevisionAgrees, Consumers
<1>7. QED
  BY <1>2, <1>3, <1>5, <1>6 DEF CInv

\* A snapshot that is served.
LEMMA ServeStep ==
  ASSUME IInv, CInv, NEW k \in Consumers, Serve(k)
  PROVE  CInv'
<1>1. /\ state' = state
      /\ \A j \in Consumers : Projection(j)' = Projection(j)
      /\ \A C : RoutesOfGranted(C)' = RoutesOfGranted(C)
  BY DEF Serve, vars, Projection, RoutesOfGranted
<1>2. SnapshotsTyped'
  BY DEF CInv, SnapshotsTyped, Serve
<1>3. \A j \in Consumers : \A x \in Held(j)' : x \in Held(j) \/ (j = k /\ x = Projection(k))
  BY DEF CInv, SnapshotsTyped, Serve, Held
<1>4. state \in RegistryStates /\ ActiveRegistered(state)
  BY DEF IInv, TInv, TypeOK, ActiveAdmissible
<1>5. state.revision \in Nat /\ Projection(k).revision = state.revision
  BY <1>4 DEF RegistryStates, Projection
<1>6. NoneFromTheFuture'
  BY <1>1, <1>3, <1>5 DEF CInv, NoneFromTheFuture
<1>7. GrantedRegistered'
  <2> SUFFICES ASSUME NEW i \in Identities, NEW y \in Held(i)', NEW c \in y.content
               PROVE  /\ c.module \in Modules
                      /\ c.version \in Versions
                      /\ Registered(state, c.module, c.version)
    BY <1>1 DEF GrantedRegistered
  <2>1. CASE y \in Held(i)
    BY <2>1 DEF CInv, GrantedRegistered
  <2>2. CASE i = k /\ y = Projection(k)
    <3>1. y.content = ActiveCapabilitySnapshot(state)
      BY <2>2, ConsumerAssumption DEF Projection
    <3>2. QED
      BY <1>4, <3>1, CapabilitiesRegistered
  <2>3. QED
    BY <1>3, <2>1, <2>2 DEF Consumers
<1>8. SameRevisionAgrees'
  <2> SUFFICES ASSUME NEW g \in Gateways, NEW i \in Identities,
                      NEW x \in Held(g)', NEW y \in Held(i)', x.revision = y.revision
               PROVE  x.content = RoutesOfGranted(y.content)
    BY <1>1 DEF SameRevisionAgrees
  <2>1. g \in Consumers /\ i \in Consumers /\ g # i
    BY ConsumerAssumption DEF Consumers
  <2>2. CASE x \in Held(g) /\ y \in Held(i)
    BY <2>2 DEF CInv, SameRevisionAgrees
  <2>3. CASE ~(x \in Held(g) /\ y \in Held(i))
    <3>1. x = Projection(g) /\ y = Projection(i)
      <4>1. x = Projection(g) \/ y = Projection(i)
        BY <1>3, <2>1, <2>3
      <4>2. x.revision = state.revision /\ y.revision = state.revision
        BY <4>1 DEF Projection
      <4>3. QED
        BY <1>3, <2>1, <4>2 DEF CInv, NoneFromTheFuture
    <3>2. x.content = Routes(state) /\ y.content = ActiveCapabilitySnapshot(state)
      BY <3>1, ConsumerAssumption DEF Projection
    <3>3. QED
      BY <3>2, ProjectionsAgree
  <2>4. QED
    BY <2>2, <2>3
<1>9. RepliesAreNewer'
  <2> SUFFICES ASSUME NEW j \in Consumers, reply'[j] # NoSnapshot, view'[j] # NoSnapshot
               PROVE  view'[j].revision <= reply'[j].revision
    BY DEF RepliesAreNewer
  <2>1. view'[j] = view[j]
    BY DEF Serve
  <2>2. CASE j = k
    <3>1. reply'[j] = Projection(k)
      BY <2>2 DEF Serve, CInv, SnapshotsTyped
    <3>2. view[j] \in Held(j)
      BY <2>1 DEF Held
    <3>3. QED
      BY <1>5, <2>1, <3>1, <3>2 DEF CInv, NoneFromTheFuture
  <2>3. CASE j # k
    BY <2>1, <2>3 DEF Serve, CInv, SnapshotsTyped, RepliesAreNewer
  <2>4. QED
    BY <2>2, <2>3
<1>10. QED
  BY <1>2, <1>6, <1>7, <1>8, <1>9 DEF CInv

\* A reply that arrives or is lost adds nothing to what a consumer holds.
LEMMA DeliveryStep ==
  ASSUME CInv, NEW k \in Consumers, Install(k) \/ LoseReply(k)
  PROVE  CInv'
<1>1. /\ state' = state
      /\ \A j \in Consumers : Projection(j)' = Projection(j)
      /\ \A C : RoutesOfGranted(C)' = RoutesOfGranted(C)
  BY DEF Install, LoseReply, vars, Projection, RoutesOfGranted
<1>2. SnapshotsTyped'
  BY DEF CInv, SnapshotsTyped, Install, LoseReply
<1>3. \A j \in Consumers : Held(j)' \subseteq Held(j)
  BY DEF CInv, SnapshotsTyped, Install, LoseReply, Held
<1>4. NoneFromTheFuture'
  BY <1>1, <1>3 DEF CInv, NoneFromTheFuture
<1>5. GrantedRegistered'
  BY <1>1, <1>3 DEF CInv, GrantedRegistered, Consumers
<1>6. SameRevisionAgrees'
  BY <1>1, <1>3 DEF CInv, SameRevisionAgrees, Consumers
<1>7. RepliesAreNewer'
  BY DEF CInv, SnapshotsTyped, RepliesAreNewer, Install, LoseReply
<1>8. QED
  BY <1>2, <1>4, <1>5, <1>6, <1>7 DEF CInv

LEMMA CInvInductive == ConsumerSpec => [](IInv /\ CInv)
<1>1. IInv /\ CInv /\ [ConsumerNext]_allVars => CInv'
  <2> SUFFICES ASSUME IInv, CInv, [ConsumerNext]_allVars PROVE CInv'
    OBVIOUS
  <2>1. CASE Next /\ UNCHANGED consumerVars
    BY <2>1, ClientStep
  <2>2. ASSUME NEW k \in Consumers, Serve(k) PROVE CInv'
    BY <2>2, ServeStep
  <2>3. ASSUME NEW k \in Consumers, Install(k) \/ LoseReply(k) PROVE CInv'
    BY <2>3, DeliveryStep
  <2>4. CASE UNCHANGED allVars
    BY <2>4, ClientStep DEF allVars, vars, consumerVars
  <2>5. QED
    BY <2>1, <2>2, <2>3, <2>4 DEF ConsumerNext, Poll
<1>2. QED
  BY InitCInv, <1>1, ConsumersObserve, IInvInductive, PTL DEF ConsumerSpec

-----------------------------------------------------------------------------
\* Identity and the Gateway agree on the releases of a revision, for any number
\* of either and any delay of their snapshots (model/release.go:63-66).
THEOREM ReachabilityTheorem == ConsumerSpec => []GrantedIsReachable
<1>1. CInv => GrantedIsReachable
  BY DEF CInv, SameRevisionAgrees, GrantedIsReachable, Held, Holds
<1>2. QED
  BY <1>1, CInvInductive, PTL

\* A consumer never goes back to an older revision.
THEOREM MonotoneTheorem == ConsumerSpec => ViewsNeverRegress
<1>1. CInv /\ [ConsumerNext]_allVars =>
        [\A k \in Consumers : Holds(k) => view'[k].revision >= view[k].revision]_allVars
  <2> SUFFICES ASSUME CInv, ConsumerNext, NEW k \in Consumers, Holds(k)
               PROVE  view'[k].revision >= view[k].revision
    OBVIOUS
  <2>1. view[k].revision \in Nat
    BY DEF CInv, NoneFromTheFuture, Held, Holds
  <2>2. CASE view'[k] = view[k]
    BY <2>1, <2>2
  <2>3. CASE view'[k] # view[k]
    <3>1. view'[k] = reply[k] /\ reply[k] # NoSnapshot
      BY <2>3 DEF ConsumerNext, consumerVars, Poll, Serve, Install, LoseReply, CInv, SnapshotsTyped
    <3>2. reply[k].revision \in Nat
      BY <3>1 DEF CInv, NoneFromTheFuture, Held
    <3>3. QED
      BY <2>1, <3>1, <3>2 DEF CInv, RepliesAreNewer, Holds
  <2>4. QED
    BY <2>2, <2>3
<1>2. QED
  BY <1>1, CInvInductive, PTL DEF ConsumerSpec, ViewsNeverRegress

-----------------------------------------------------------------------------
(***************************************************************************)
(* Gateways.  A snapshot stays what the aggregate once said, so that a     *)
(* stale one is as unambiguous as the current one, and two of one revision *)
(* say the same.                                                           *)
(***************************************************************************)
Unambiguous(content) ==
  \A surface, path : surface # "internal" /\ path \in Texts =>
    \A m, n \in Receivers(content, surface, path) : m = n

GInv ==
  /\ \A g \in Gateways : \A x \in Held(g) : Unambiguous(x.content)
  /\ \A g, h \in Gateways : \A x \in Held(g), y \in Held(h) :
       x.revision = y.revision => x.content = y.content

\* What a step adds to the snapshots a consumer holds.
LEMMA HeldStep ==
  ASSUME CInv, [ConsumerNext]_allVars, NEW k \in Consumers, NEW x \in Held(k)', x \notin Held(k)
  PROVE  state' = state /\ x = Projection(k)
<1>1. ASSUME NEW j \in Consumers, Serve(j) PROVE state' = state /\ x = Projection(k)
  BY <1>1 DEF CInv, SnapshotsTyped, Serve, Held, vars
<1>2. ASSUME NEW j \in Consumers, Install(j) \/ LoseReply(j) PROVE Held(k)' \subseteq Held(k)
  BY <1>2 DEF CInv, SnapshotsTyped, Install, LoseReply, Held
<1>3. ASSUME UNCHANGED consumerVars PROVE Held(k)' = Held(k)
  BY <1>3 DEF consumerVars, Held
<1>4. QED
  BY <1>1, <1>2, <1>3 DEF ConsumerNext, Poll, allVars, consumerVars

LEMMA GInvStep == IInv /\ CInv /\ GInv /\ [ConsumerNext]_allVars => GInv'
<1> SUFFICES ASSUME IInv, CInv, GInv, [ConsumerNext]_allVars PROVE GInv'
  OBVIOUS
<1>0. \A g \in Gateways : g \in Consumers /\ Projection(g).content = Routes(state)
                          /\ Projection(g).revision = state.revision
  BY DEF Consumers, Projection
<1>1. ASSUME NEW g \in Gateways, NEW x \in Held(g)' PROVE Unambiguous(x.content)
  <2>1. CASE x \in Held(g)
    BY <2>1 DEF GInv
  <2>2. CASE x \notin Held(g)
    <3>1. x.content = Routes(state)
      BY <1>0, <2>2, HeldStep
    <3>2. state \in RegistryStates /\ ActiveRegistered(state) /\ Admissible(state)
      BY DEF IInv, TInv, TypeOK, ActiveAdmissible
    <3>3. QED
      BY <3>1, <3>2, ReceiversAreOwners, OneOwner DEF Unambiguous
  <2>3. QED
    BY <2>1, <2>2
<1>2. ASSUME NEW g \in Gateways, NEW h \in Gateways, NEW x \in Held(g)', NEW y \in Held(h)',
             x.revision = y.revision
      PROVE  x.content = y.content
  <2>1. CASE x \in Held(g) /\ y \in Held(h)
    BY <1>2, <2>1 DEF GInv
  <2>2. CASE ~(x \in Held(g) /\ y \in Held(h))
    <3>1. x = Projection(g) \/ y = Projection(h)
      BY <1>0, <2>2, HeldStep
    <3>2. x.revision = state.revision /\ y.revision = state.revision
      BY <1>0, <1>2, <3>1
    <3>3. x = Projection(g) /\ y = Projection(h)
      BY <1>0, <3>2, HeldStep DEF CInv, NoneFromTheFuture
    <3>4. QED
      BY <1>0, <3>3
  <2>3. QED
    BY <2>1, <2>2
<1>3. QED
  BY <1>1, <1>2 DEF GInv

\* A request has one way: no Gateway finds two modules for it, and two Gateways
\* at one revision find the same, however old their snapshots and for every path
\* there is; a Gateway at the current revision finds exactly the modules whose
\* active releases serve it, although prefixes are published trimmed
\* (release.go:266) and validated in another form (release.go:422-428).
RequestsGoOneWay ==
  /\ \A g, h \in Gateways :
       (Holds(g) /\ Holds(h) /\ view[g].revision = view[h].revision) =>
         \A surface, path : surface # "internal" /\ path \in Texts =>
           \A m \in Receivers(view[g].content, surface, path),
              n \in Receivers(view[h].content, surface, path) : m = n
  /\ \A g \in Gateways :
       (Holds(g) /\ view[g].revision = state.revision) =>
         \A surface, path : path \in Texts =>
           Receivers(view[g].content, surface, path) = Owners(state, surface, path)

\* For any number of readers, and answers of any age.
THEOREM GatewayTheorem == ConsumerSpec => []RequestsGoOneWay
<1>1. ConsumerInit => GInv
  BY DEF ConsumerInit, GInv, Held, Consumers
<1>2. IInv /\ CInv /\ GInv => RequestsGoOneWay
  <2> SUFFICES ASSUME IInv, CInv, GInv PROVE RequestsGoOneWay
    OBVIOUS
  <2>1. \A g \in Gateways : Holds(g) => view[g] \in Held(g) /\ g \in Consumers
    BY DEF Holds, Held, Consumers
  <2>2. ASSUME NEW g \in Gateways, Holds(g), view[g].revision = state.revision
        PROVE  view[g].content = Routes(state)
    BY <2>1, <2>2 DEF CInv, NoneFromTheFuture, Projection
  <2>3. state \in RegistryStates /\ ActiveRegistered(state)
    BY DEF IInv, TInv, TypeOK, ActiveAdmissible
  <2>4. ASSUME NEW g \in Gateways, NEW h \in Gateways, Holds(g), Holds(h),
               view[g].revision = view[h].revision
        PROVE  Unambiguous(view[g].content) /\ view[h].content = view[g].content
    BY <2>1, <2>4 DEF GInv
  <2>5. QED
    BY <2>2, <2>3, <2>4, ReceiversAreOwners DEF RequestsGoOneWay, Unambiguous
<1>3. QED
  BY <1>1, <1>2, GInvStep, CInvInductive, PTL DEF ConsumerSpec

-----------------------------------------------------------------------------
(***************************************************************************)
(* The provisioning surface, for every set of configurations, documents,   *)
(* clients and requests.                                                   *)
(***************************************************************************)
\* Every step of the surface is a step of the service or leaves it alone.
LEMMA ServiceStep == [ProvisioningNext]_provisioningVars => [Next]_vars
<1> SUFFICES ASSUME [ProvisioningNext]_provisioningVars PROVE [Next]_vars
  OBVIOUS
<1>1. ASSUME NEW c \in Clients, NEW request \in Inbound, CallService(c, request)
      PROVE  Next
  BY <1>1, InboundAssumption DEF CallService, Next
<1>2. ASSUME NEW c \in Clients, Work(c) PROVE Next
  BY <1>2 DEF Work, Next
<1>3. ASSUME NEW c \in Clients, Respond(c) PROVE Next
  BY <1>3 DEF Respond, Next
<1>4. ASSUME Settle PROVE Next
  BY <1>4 DEF Settle, Next
<1>5. QED
  BY <1>1, <1>2, <1>3, <1>4
     DEF ProvisioningNext, provisioningVars, Start, TurnAway, BeginRead, Read, Deliver

\* The surface is composed with the service so that each step is one of the
\* contract or leaves it alone (logic.go forwards every operation unchanged):
\* what is proved of the contract may be used here.
LEMMA Composition == ProvisioningSpec => Spec
<1>1. ProvisioningInit => Init
  BY DEF ProvisioningInit
<1>2. QED
  BY <1>1, ServiceStep, PTL DEF ProvisioningSpec, Spec

-----------------------------------------------------------------------------
(***************************************************************************)
(* The inductive invariant follows a request through its exchange: what is *)
(* served was let through, a write is served exactly while the service has *)
(* its call, and the history of its effect agrees with the result.         *)
(***************************************************************************)
Replies == {NoReply} \cup {ReadReply(kind, s) : kind \in Reads, s \in RegistryStates}

Exchanges ==
  [phase : {"free", "served", "answered"}, request : Inbound \cup {NoRequest}, status : Int,
   reply : Replies, effect : {"none", "done", "open"}]

ProcessInv ==
  /\ process = "serving" => Assembles(config)
  /\ process # "serving" => \A c \in Clients : exchange[c] = Free

\* What the result of a call says of its effect.
EffectFits(result, effect) ==
  /\ result = "ok" => effect = "done"
  /\ result \notin {"ok", "unavailable"} => effect = "none"

ServedInv(c) ==
  Serving(c) =>
    /\ exchange[c].request \in Inbound
    /\ LetThrough(exchange[c].request)
    /\ IsWrite(c) =>
         /\ call[c].status \in {"pending", "answered"}
         /\ call[c].status = "pending" => exchange[c].effect = "none"
         /\ call[c].status = "answered" =>
              call[c].result \in Outcomes /\ EffectFits(call[c].result, exchange[c].effect)

CallInv(c) ==
  call[c].status \in {"pending", "answered"} => Serving(c) /\ IsWrite(c)

AnsweredInv(c) ==
  AnsweredExchange(c) =>
    /\ exchange[c].request \in Inbound
    /\ Succeeded(c) => LetThrough(exchange[c].request)
    /\ IsWrite(c) /\ Succeeded(c) => exchange[c].effect = "done"
    /\ IsWrite(c) /\ RefusedForGood(c) => exchange[c].effect = "none"
    /\ exchange[c].request.operation.kind \in Reads /\ RefusedForGood(c)
         => ~LetThrough(exchange[c].request)

ExchangeInv(c) == ServedInv(c) /\ CallInv(c) /\ AnsweredInv(c)

PInv ==
  /\ exchange \in [Clients -> Exchanges]
  /\ ProcessInv
  /\ \A c \in Clients : (exchange[c].phase = "free" => exchange[c] = Free) /\ ExchangeInv(c)

LEMMA FreeFields ==
  /\ Free \in Exchanges
  /\ Free.phase = "free" /\ Free.request = NoRequest /\ Free.effect = "none"
  /\ \A r : /\ Received(r).phase = "served" /\ Received(r).request = r
            /\ Received(r).effect = "none" /\ Received(r).reply = NoReply
  /\ \A r \in Inbound : Received(r) \in Exchanges
  /\ \A r, n : /\ TurnedAway(r, n).phase = "answered" /\ TurnedAway(r, n).request = r
               /\ TurnedAway(r, n).status = n /\ TurnedAway(r, n).effect = "none"
  /\ \A r \in Inbound, n \in Int : TurnedAway(r, n) \in Exchanges
<1>1. NoReply \in Replies
  BY DEF Replies
<1>2. Free \in Exchanges
  BY <1>1 DEF Free, Exchanges, OK
<1>3. \A r \in Inbound : Received(r) \in Exchanges
  BY <1>1 DEF Received, Exchanges, OK
<1>4. \A r \in Inbound, n \in Int : TurnedAway(r, n) \in Exchanges
  BY <1>1 DEF TurnedAway, Exchanges
<1>5. QED
  BY <1>2, <1>3, <1>4 DEF Free, Received, TurnedAway

-----------------------------------------------------------------------------
\* The verdicts and the tables.
LEMMA VerdictCodes ==
  \A r : r.transport \in {"http", "grpc"} =>
    /\ r.transport = "http" => Verdict(r) \in {200, 204, 400, 401, 403}
    /\ r.transport = "grpc" => Verdict(r) \in {OK, PermissionDenied, Unauthenticated}
BY DEF Verdict, HTTPVerdict, GRPCVerdict, OK, PermissionDenied, Unauthenticated

LEMMA StatusCodes ==
  ASSUME NEW transport \in {"http", "grpc"}, NEW result \in Outcomes
  PROVE  /\ StatusOf(transport, result) \in Int
         /\ StatusOf(transport, result) \in {200, OK} <=> result = "ok"
         /\ result = "unavailable" => StatusOf(transport, result) \in {503, Internal}
BY DEF StatusOf, DomainStatus, DomainCode, Outcomes, OK, InvalidArgument, NotFound,
       PermissionDenied, Aborted, Internal

\* The verdict depends on the configuration, which never changes.
LEMMA SameConfiguration ==
  [ProvisioningNext]_provisioningVars =>
    config' = config /\ (\A r : LetThrough(r)' <=> LetThrough(r))
<1> SUFFICES ASSUME [ProvisioningNext]_provisioningVars
             PROVE  config' = config /\ (\A r : LetThrough(r)' <=> LetThrough(r))
  OBVIOUS
<1>1. config' = config
  BY DEF ProvisioningNext, provisioningVars, Start, TurnAway, CallService, Work, Settle,
         Respond, BeginRead, Read, Deliver
<1>2. QED
  BY <1>1 DEF LetThrough, Verdict

-----------------------------------------------------------------------------
\* A step that leaves the exchange and the call of a client alone.
LEMMA Untouched ==
  ASSUME NEW c \in Clients, ExchangeInv(c), config' = config,
         exchange'[c] = exchange[c], call'[c] = call[c]
  PROVE  ExchangeInv(c)'
<1>1. \A r : LetThrough(r)' <=> LetThrough(r)
  BY DEF LetThrough, Verdict
<1>2. (Serving(c)' <=> Serving(c)) /\ (IsWrite(c)' <=> IsWrite(c))
      /\ (AnsweredExchange(c)' <=> AnsweredExchange(c))
  BY DEF Serving, IsWrite, AnsweredExchange
<1>3. (Succeeded(c)' <=> Succeeded(c)) /\ (RefusedForGood(c)' <=> RefusedForGood(c))
  BY <1>2 DEF Succeeded, RefusedForGood
<1>4. QED
  BY <1>1, <1>2, <1>3 DEF ExchangeInv, ServedInv, CallInv, AnsweredInv

LEMMA InitPInv == ProvisioningInit => PInv
<1> SUFFICES ASSUME ProvisioningInit PROVE PInv
  OBVIOUS
<1>1. exchange \in [Clients -> Exchanges] /\ ProcessInv
  BY FreeFields DEF ProvisioningInit, ProcessInv
<1>2. ASSUME NEW c \in Clients PROVE ExchangeInv(c)
  BY FreeFields, Statuses DEF ProvisioningInit, Init, ExchangeInv, ServedInv, CallInv, AnsweredInv,
     Serving, AnsweredExchange
<1>3. QED
  BY <1>1, <1>2 DEF PInv, ProvisioningInit

\* The part of a new exchange that is turned away.
LEMMA TurnAwayStep ==
  ASSUME PInv, TypeOK, NEW c \in Clients, NEW r \in Inbound, TurnAway(c, r)
  PROVE  PInv'
<1>1. Verdict(r) \in Int
  BY VerdictCodes, InboundAssumption DEF OK, PermissionDenied, Unauthenticated
<1>2. exchange' \in [Clients -> Exchanges]
  BY <1>1, FreeFields DEF TurnAway, PInv
<1>3. ProcessInv'
  BY DEF TurnAway, ProcessInv, PInv
<1>4. config' = config /\ call' = call
  BY DEF TurnAway, vars
<1>5. exchange'[c] = TurnedAway(r, Verdict(r)) /\ exchange[c] = Free
  BY DEF TurnAway, PInv
<1>6. ExchangeInv(c)'
  <2>1. LetThrough(r)' <=> LetThrough(r)
    BY <1>4 DEF LetThrough, Verdict
  <2>2. ServedInv(c)'
    BY <1>5, FreeFields DEF ServedInv, Serving
  <2>3. CallInv(c)'
    BY <1>4, <1>5, FreeFields DEF CallInv, Serving, PInv, ExchangeInv
  <2>4. Succeeded(c)' => LetThrough(r) /\ r.operation.kind = "health"
    BY <1>5, FreeFields, VerdictCodes, InboundAssumption
       DEF TurnAway, Succeeded, AnsweredExchange, LetThrough, OK, PermissionDenied, Unauthenticated
  <2>5. r.operation.kind \in Reads => ~LetThrough(r)
    BY DEF TurnAway, Reads
  <2>6. AnsweredInv(c)'
    BY <1>5, <2>1, <2>4, <2>5, FreeFields DEF AnsweredInv, IsWrite, Writes
  <2>7. QED
    BY <2>2, <2>3, <2>6 DEF ExchangeInv
<1>7. ASSUME NEW d \in Clients, d # c PROVE ExchangeInv(d)' /\ exchange'[d] = exchange[d]
  BY <1>4, <1>7, Untouched DEF TurnAway, PInv
<1>8. QED
  BY <1>2, <1>3, <1>5, <1>6, <1>7, FreeFields DEF PInv

LEMMA CallServiceStep ==
  ASSUME PInv, TypeOK, NEW c \in Clients, NEW r \in Inbound, CallService(c, r)
  PROVE  PInv'
<1>1. exchange' \in [Clients -> Exchanges] /\ ProcessInv'
  BY FreeFields DEF CallService, PInv, ProcessInv
<1>2. config' = config /\ LetThrough(r) /\ (LetThrough(r)' <=> LetThrough(r))
  BY DEF CallService, LetThrough, Verdict
<1>3. exchange'[c] = Received(r)
  BY DEF CallService, PInv
<1>4. r.operation \in Requests
  BY InboundAssumption, ContractAssumption DEF CallService
<1>5. \/ call'[c] = Pending(r.operation)
      \/ /\ call'[c] = Answered(r.operation, Admission(r.operation))
         /\ Admission(r.operation) \in Outcomes \ {"ok", "unavailable"}
  BY <1>4 DEF CallService, Invoke, TypeOK, Admission, Outcomes, Requests
<1>6. ExchangeInv(c)'
  <2>1. ServedInv(c)'
    BY <1>2, <1>3, <1>5, FreeFields, Statuses DEF ServedInv, EffectFits
  <2>2. CallInv(c)' /\ AnsweredInv(c)'
    BY <1>3, FreeFields DEF CallInv, AnsweredInv, Serving, AnsweredExchange, IsWrite, CallService
  <2>3. QED
    BY <2>1, <2>2 DEF ExchangeInv
<1>7. ASSUME NEW d \in Clients, d # c PROVE ExchangeInv(d)' /\ exchange'[d] = exchange[d]
  BY <1>2, <1>7, Untouched DEF CallService, Invoke, PInv, TypeOK
<1>8. QED
  BY <1>1, <1>3, <1>6, <1>7, FreeFields DEF PInv

LEMMA BeginReadStep ==
  ASSUME PInv, TypeOK, NEW c \in Clients, NEW r \in Inbound, BeginRead(c, r)
  PROVE  PInv'
<1>1. exchange' \in [Clients -> Exchanges] /\ ProcessInv'
  BY FreeFields DEF BeginRead, PInv, ProcessInv
<1>2. config' = config /\ call' = call /\ LetThrough(r) /\ (LetThrough(r)' <=> LetThrough(r))
  BY DEF BeginRead, LetThrough, Verdict, vars
<1>3. exchange'[c] = Received(r) /\ exchange[c] = Free
  BY DEF BeginRead, PInv
<1>4. ExchangeInv(c)'
  <2>1. ServedInv(c)'
    BY <1>2, <1>3, FreeFields DEF ServedInv, IsWrite, BeginRead, Reads, Writes
  <2>2. CallInv(c)' /\ AnsweredInv(c)'
    BY <1>2, <1>3, FreeFields DEF CallInv, AnsweredInv, Serving, AnsweredExchange, PInv, ExchangeInv
  <2>3. QED
    BY <2>1, <2>2 DEF ExchangeInv
<1>5. ASSUME NEW d \in Clients, d # c PROVE ExchangeInv(d)' /\ exchange'[d] = exchange[d]
  BY <1>2, <1>5, Untouched DEF BeginRead, PInv
<1>6. QED
  BY <1>1, <1>3, <1>4, <1>5, FreeFields DEF PInv

LEMMA WorkStep ==
  ASSUME PInv, TypeOK, OnlyAdmitted, NEW c \in Clients, Work(c)
  PROVE  PInv'
<1>1. IsPending(c)
  BY DEF Work, Apply, Refuse, Doubt
<1>2. /\ Serving(c) /\ IsWrite(c) /\ exchange[c].effect = "none"
      /\ exchange[c].request \in Inbound /\ LetThrough(exchange[c].request)
  BY <1>1 DEF PInv, ExchangeInv, CallInv, ServedInv, IsPending
<1>3. config' = config /\ process' = process
  BY DEF Work
<1>4. PICK e \in {"none", "done", "open"} :
        exchange' = [exchange EXCEPT ![c].effect = e]
        /\ call'[c].status = "answered" /\ call'[c].result \in Outcomes
        /\ EffectFits(call'[c].result, e)
  <2>1. CASE /\ Apply(c)
             /\ exchange' = [exchange EXCEPT ![c].effect =
                              IF Result(call[c].request, state) = "ok" THEN "done" ELSE "none"]
    <3>1. Result(call[c].request, state) \in Outcomes \ {"unavailable"}
      BY <1>1, PendingRequest, ResultType
    <3>2. call'[c] = Answered(call[c].request, Result(call[c].request, state))
      BY <2>1 DEF Apply, Answer, TypeOK
    <3>3. call'[c].status = "answered" /\ call'[c].result = Result(call[c].request, state)
      BY <3>2, Statuses
    <3>4. QED
      BY <2>1, <3>1, <3>3 DEF EffectFits
  <2>2. CASE Refuse(c) /\ exchange' = exchange
    <3>1. call'[c] = Answered(call[c].request, "unavailable")
      BY <2>2 DEF Refuse, Answer, TypeOK
    <3>2. exchange' = [exchange EXCEPT ![c].effect = "none"]
      <4>1. exchange[c] \in Exchanges
        BY DEF PInv
      <4>2. exchange[c] = [exchange[c] EXCEPT !.effect = "none"]
        BY <1>2, <4>1 DEF Exchanges
      <4>3. QED
        BY <2>2, <4>2 DEF PInv
    <3>3. QED
      BY <3>1, <3>2, Statuses DEF EffectFits, Outcomes
  <2>3. CASE Doubt(c) /\ exchange' = [exchange EXCEPT ![c].effect = "open"]
    <3>1. call'[c] = Answered(call[c].request, "unavailable")
      BY <2>3 DEF Doubt, Answer, TypeOK
    <3>2. QED
      BY <2>3, <3>1, Statuses DEF EffectFits, Outcomes
  <2>4. QED
    BY <2>1, <2>2, <2>3 DEF Work
<1>5. exchange' \in [Clients -> Exchanges] /\ exchange'[c] = [exchange[c] EXCEPT !.effect = e]
  BY <1>4 DEF PInv, Exchanges
<1>6. /\ exchange'[c].phase = exchange[c].phase /\ exchange'[c].request = exchange[c].request
      /\ exchange'[c].effect = e /\ exchange[c].phase = "served"
  BY <1>2, <1>5 DEF PInv, Exchanges, Serving
<1>7. ProcessInv'
  BY <1>2, <1>3, FreeFields DEF ProcessInv, PInv, Serving
<1>8. ExchangeInv(c)'
  <2>1. \A r : LetThrough(r)' <=> LetThrough(r)
    BY <1>3 DEF LetThrough, Verdict
  <2>2. QED
    BY <1>2, <1>4, <1>6, <2>1
       DEF ExchangeInv, ServedInv, CallInv, AnsweredInv, Serving, AnsweredExchange, IsWrite
<1>9. ASSUME NEW d \in Clients, d # c PROVE ExchangeInv(d)' /\ exchange'[d] = exchange[d]
  <2>1. exchange'[d] = exchange[d]
    BY <1>4, <1>9 DEF PInv
  <2>2. call'[d] = call[d]
    BY <1>9 DEF Work, Apply, Refuse, Doubt, Answer, TypeOK
  <2>3. QED
    BY <1>3, <1>9, <2>1, <2>2, Untouched DEF PInv
<1>10. QED
  BY <1>5, <1>6, <1>7, <1>8, <1>9 DEF PInv

LEMMA SettleStep ==
  ASSUME PInv, TypeOK, Settle
  PROVE  PInv'
<1>1. config' = config /\ process' = process /\ call' = call
  BY DEF Settle, TakeEffectLate, NeverTakeEffect
<1>2. \A c \in Clients :
        /\ exchange[c].effect # "open" => exchange'[c] = exchange[c]
        /\ \E e \in {"none", "done"} : exchange[c].effect = "open" =>
             exchange'[c] = [exchange[c] EXCEPT !.effect = e]
  BY DEF Settle
<1>3. exchange' \in [Clients -> Exchanges]
  <2>1. exchange' = [c \in Clients |-> exchange'[c]]
    BY DEF Settle
  <2>2. ASSUME NEW c \in Clients PROVE exchange'[c] \in Exchanges
    <3>1. exchange[c] \in Exchanges
      BY DEF PInv
    <3>2. \A e \in {"none", "done"} : [exchange[c] EXCEPT !.effect = e] \in Exchanges
      BY <3>1 DEF Exchanges
    <3>3. QED
      BY <1>2, <3>1, <3>2
  <2>3. QED
    BY <2>1, <2>2
<1>4. ASSUME NEW c \in Clients, exchange[c].effect = "open"
      PROVE  ExchangeInv(c)' /\ exchange[c].phase # "free" /\ exchange'[c].phase # "free"
  <2>1. PICK e \in {"none", "done"} : exchange'[c] = [exchange[c] EXCEPT !.effect = e]
    BY <1>2, <1>4
  <2>2. /\ exchange'[c].phase = exchange[c].phase /\ exchange'[c].request = exchange[c].request
        /\ exchange'[c].status = exchange[c].status /\ exchange'[c].effect = e
    BY <2>1 DEF PInv, Exchanges
  <2>3. \A r : LetThrough(r)' <=> LetThrough(r)
    BY <1>1 DEF LetThrough, Verdict
  <2>4. exchange[c].phase # "free"
    BY <1>4, FreeFields DEF PInv
  <2>5. ServedInv(c)' /\ CallInv(c)'
    BY <1>1, <1>4, <2>2, <2>3 DEF PInv, ExchangeInv, ServedInv, CallInv, Serving, IsWrite, EffectFits
  <2>6. AnsweredInv(c)'
    BY <1>4, <2>2, <2>3
       DEF PInv, ExchangeInv, AnsweredInv, AnsweredExchange, IsWrite, Succeeded, RefusedForGood
  <2>7. QED
    BY <2>2, <2>4, <2>5, <2>6 DEF ExchangeInv
<1>5. ASSUME NEW c \in Clients, exchange[c].effect # "open"
      PROVE  ExchangeInv(c)' /\ exchange'[c] = exchange[c]
  BY <1>1, <1>2, <1>5, Untouched DEF PInv
<1>6. ProcessInv'
  BY <1>1, <1>4, <1>5, FreeFields DEF ProcessInv, PInv
<1>7. QED
  BY <1>3, <1>4, <1>5, <1>6 DEF PInv
LEMMA RespondStep ==
  ASSUME PInv, TypeOK, NEW c \in Clients, Respond(c)
  PROVE  PInv'
<1>1. /\ Serving(c) /\ IsWrite(c) /\ exchange[c].request \in Inbound
      /\ LetThrough(exchange[c].request)
      /\ call[c].result \in Outcomes /\ EffectFits(call[c].result, exchange[c].effect)
  BY DEF Respond, Return, PInv, ExchangeInv, CallInv, ServedInv
<1>2. config' = config /\ process' = process /\ call' = [call EXCEPT ![c] = Idle]
  BY DEF Respond, Return
<1>3. exchange[c].request.transport = "http"
  BY <1>1, InboundAssumption DEF IsWrite
<1>4. DEFINE status == StatusOf(exchange[c].request.transport, call[c].result)
<1>5. /\ status \in Int
      /\ status \in {200, OK} <=> call[c].result = "ok"
      /\ call[c].result = "unavailable" => status \in {503, Internal}
  BY <1>1, <1>3, StatusCodes
<1> HIDE DEF status
<1>6. exchange[c] \in Exchanges
  BY DEF PInv
<1>7. exchange'[c] = [exchange[c] EXCEPT !.phase = "answered", !.status = status]
      /\ exchange' = [exchange EXCEPT ![c] = exchange'[c]]
  BY DEF Respond, PInv, status
<1>8. /\ exchange'[c] \in Exchanges
      /\ exchange'[c].phase = "answered" /\ exchange'[c].status = status
      /\ exchange'[c].request = exchange[c].request /\ exchange'[c].effect = exchange[c].effect
  BY <1>5, <1>6, <1>7 DEF Exchanges
<1>9. exchange' \in [Clients -> Exchanges]
  BY <1>7, <1>8 DEF PInv
<1>10. ProcessInv'
  BY <1>1, <1>2, FreeFields DEF ProcessInv, PInv, Serving
<1>11. ExchangeInv(c)'
  <2>1. \A r : LetThrough(r)' <=> LetThrough(r)
    BY <1>2 DEF LetThrough, Verdict
  <2>2. call'[c].status = "idle"
    BY <1>2, Statuses DEF TypeOK
  <2>3. Succeeded(c)' => call[c].result = "ok"
    BY <1>5, <1>8 DEF Succeeded, OK
  <2>4. RefusedForGood(c)' => call[c].result \notin {"ok", "unavailable"}
    BY <1>5, <1>8 DEF RefusedForGood, OK, InvalidArgument, NotFound, PermissionDenied, Aborted,
                      Unauthenticated, Internal
  <2>5. exchange[c].request.operation.kind \notin Reads
    BY <1>1 DEF IsWrite, Writes, Reads
  <2>6. QED
    BY <1>1, <1>8, <2>1, <2>2, <2>3, <2>4, <2>5
       DEF ExchangeInv, ServedInv, CallInv, AnsweredInv, Serving, AnsweredExchange, EffectFits
<1>12. ASSUME NEW d \in Clients, d # c PROVE ExchangeInv(d)' /\ exchange'[d] = exchange[d]
  BY <1>2, <1>7, <1>12, Untouched DEF PInv, TypeOK
<1>13. QED
  BY <1>8, <1>9, <1>10, <1>11, <1>12 DEF PInv

\* An exchange that is answered.
AnsweredWith(x, n, y) == [x EXCEPT !.phase = "answered", !.status = n, !.reply = y]

LEMMA AnsweredFields ==
  ASSUME NEW x \in Exchanges, NEW n, NEW y
  PROVE  LET z == AnsweredWith(x, n, y)
         IN  /\ z.phase = "answered" /\ z.status = n /\ z.reply = y /\ z.request = x.request
             /\ n \in Int /\ y \in Replies => z \in Exchanges
BY DEF AnsweredWith, Exchanges

\* A read of an admissible state succeeds.
LEMMA ReadStep ==
  ASSUME PInv, TypeOK, ActiveAdmissible, NEW c \in Clients, Read(c)
  PROVE  PInv'
<1> DEFINE kind == exchange[c].request.operation.kind
<1>1. Serving(c) /\ kind \in Reads /\ exchange[c].request \in Inbound
      /\ LetThrough(exchange[c].request)
  BY DEF Read, PInv, ExchangeInv, ServedInv
<1>2. config' = config /\ process' = process /\ call' = call
  BY DEF Read, vars
<1>3. PICK result \in {"ok", "unavailable"} : AnswerRead(c, result)
  BY DEF Read, ReadResult, CapabilityResult, ActiveAdmissible
<1>4. DEFINE status == StatusOf(exchange[c].request.transport, result)
             given == IF result = "ok" THEN ReadReply(kind, state) ELSE NoReply
<1>5. /\ status \in Int
      /\ status \in {200, OK} \/ status \in {503, Internal}
  BY <1>1, StatusCodes, InboundAssumption DEF Outcomes
<1>6. given \in Replies
  BY <1>1 DEF Replies, TypeOK
<1>7. exchange[c] \in Exchanges
  BY DEF PInv
<1>8. exchange'[c] = AnsweredWith(exchange[c], status, given)
      /\ exchange' = [exchange EXCEPT ![c] = exchange'[c]]
  BY <1>3 DEF AnswerRead, PInv, AnsweredWith
<1> HIDE DEF status, given
<1>9. /\ exchange'[c] \in Exchanges
      /\ exchange'[c].phase = "answered" /\ exchange'[c].status = status
      /\ exchange'[c].request = exchange[c].request
  BY <1>5, <1>6, <1>7, <1>8, AnsweredFields
<1>10. exchange' \in [Clients -> Exchanges]
  BY <1>8, <1>9 DEF PInv
<1>11. ProcessInv'
  BY <1>1, <1>2, FreeFields DEF ProcessInv, PInv, Serving
<1>12. ExchangeInv(c)'
  <2>1. \A r : LetThrough(r)' <=> LetThrough(r)
    BY <1>2 DEF LetThrough, Verdict
  <2>2. ~IsWrite(c) /\ ~IsWrite(c)'
    BY <1>1, <1>9 DEF IsWrite, Writes, Reads
  <2>3. ~RefusedForGood(c)'
    BY <1>5, <1>9 DEF RefusedForGood, OK, InvalidArgument, NotFound, PermissionDenied, Aborted,
                      Unauthenticated, Internal
  <2>4. CallInv(c)'
    BY <1>2, <2>2 DEF CallInv, PInv, ExchangeInv
  <2>5. QED
    BY <1>1, <1>9, <2>1, <2>2, <2>3, <2>4
       DEF ExchangeInv, ServedInv, AnsweredInv, Serving, AnsweredExchange
<1>13. ASSUME NEW d \in Clients, d # c PROVE ExchangeInv(d)' /\ exchange'[d] = exchange[d]
  BY <1>2, <1>8, <1>13, Untouched DEF PInv
<1>14. QED
  BY <1>9, <1>10, <1>11, <1>12, <1>13 DEF PInv

LEMMA DeliverStep ==
  ASSUME PInv, TypeOK, NEW c \in Clients, Deliver(c)
  PROVE  PInv'
<1>1. exchange' \in [Clients -> Exchanges] /\ exchange'[c] = Free
  BY FreeFields DEF Deliver, PInv
<1>2. config' = config /\ call' = call /\ ProcessInv'
  BY DEF Deliver, vars, ProcessInv, PInv
<1>3. ExchangeInv(c)'
  BY <1>1, <1>2, FreeFields
     DEF ExchangeInv, ServedInv, CallInv, AnsweredInv, Serving, AnsweredExchange, Deliver, PInv
<1>4. ASSUME NEW d \in Clients, d # c PROVE ExchangeInv(d)' /\ exchange'[d] = exchange[d]
  BY <1>2, <1>4, Untouched DEF Deliver, PInv
<1>5. QED
  BY <1>1, <1>2, <1>3, <1>4 DEF PInv

LEMMA StartStep == PInv /\ Start => PInv'
<1> SUFFICES ASSUME PInv, Start PROVE PInv'
  OBVIOUS
<1>1. exchange' = exchange /\ call' = call /\ config' = config
  BY DEF Start, vars
<1>2. ProcessInv'
  BY <1>1 DEF Start, ProcessInv, PInv
<1>3. QED
  BY <1>1, <1>2, Untouched DEF PInv

LEMMA PInvInductive == ProvisioningSpec => []PInv
<1>1. ASSUME IInv, PInv, [ProvisioningNext]_provisioningVars PROVE PInv'
  <2>1. TypeOK /\ OnlyAdmitted /\ ActiveAdmissible
    BY <1>1 DEF IInv, TInv
  <2>2. CASE UNCHANGED provisioningVars
    <3>1. exchange' = exchange /\ call' = call /\ config' = config /\ process' = process
      BY <2>2 DEF provisioningVars, vars
    <3>2. ProcessInv'
      BY <1>1, <3>1 DEF ProcessInv, PInv
    <3>3. QED
      BY <1>1, <3>1, <3>2, Untouched DEF PInv
  <2>3. CASE ProvisioningNext
    BY <1>1, <2>1, <2>3, StartStep, TurnAwayStep, CallServiceStep, BeginReadStep, WorkStep,
       RespondStep, ReadStep, DeliverStep, SettleStep DEF ProvisioningNext
  <2>4. QED
    BY <1>1, <2>2, <2>3
<1>2. QED
  BY <1>1, InitPInv, Composition, IInvInductive, PTL DEF ProvisioningSpec

-----------------------------------------------------------------------------
\* The properties.

\* A status below 500 tells a client what became of its write, for good.
THEOREM DefiniteTheorem == ProvisioningSpec => []DefiniteAnswers
<1>1. PInv => DefiniteAnswers
  BY DEF PInv, ExchangeInv, AnsweredInv, DefiniteAnswers, Succeeded, RefusedForGood
<1>2. QED
  BY <1>1, PInvInductive, PTL

\* Who is served was let through.
LEMMA ServedWasLetThrough ==
  ASSUME PInv, NEW c \in Clients, exchange[c].request # NoRequest, GotThrough(c)
  PROVE  /\ exchange[c].request \in Inbound
         /\ LetThrough(exchange[c].request)
         /\ Assembles(config)
<1>1. exchange[c].phase # "free"
  BY FreeFields DEF PInv
<1>2. Assembles(config)
  BY <1>1, FreeFields DEF PInv, ProcessInv
<1>3. QED
  BY <1>2 DEF PInv, ExchangeInv, ServedInv, AnsweredInv, GotThrough, Succeeded

\* The key of an HTTP caller has an entry of its own that grants the operation.
THEOREM GrantTheorem == ProvisioningSpec => []GrantedOnly
<1>1. ASSUME PInv, NEW c \in Clients, exchange[c].request # NoRequest, GotThrough(c),
             exchange[c].request.transport = "http"
      PROVE  \E w \in BearerWorkloads :
               /\ config.bearer[w].publicKey = exchange[c].request.credential.key
               /\ config.bearer[w].subject = exchange[c].request.credential.subject
               /\ Needed(exchange[c].request.operation.kind) \in config.bearer[w].permissions
  <2> DEFINE r == exchange[c].request
  <2>1. r \in Inbound /\ LetThrough(r)
    BY <1>1, ServedWasLetThrough
  <2>2. /\ r.operation.kind # "preflight"
        /\ BearerAuthorized(config.bearer, r.credential, HTTPPermission[r.operation.kind])
    BY <1>1, <2>1 DEF LetThrough, Verdict, HTTPVerdict
  <2>3. HTTPPermission[r.operation.kind] = Needed(r.operation.kind)
    BY <1>1, <2>1, <2>2, InboundAssumption DEF HTTPPermission, Needed
  <2>4. QED
    BY <2>2, <2>3 DEF BearerAuthorized
<1>2. PInv => GrantedOnly
  BY <1>1 DEF GrantedOnly
<1>3. QED
  BY <1>2, PInvInductive, PTL

\* Over gRPC each snapshot has one reader.
THEOREM SeparationTheorem == ProvisioningSpec => []SnapshotsSeparate
<1>1. ASSUME Assembles(config), NEW w \in MTLSWorkloads,
             NEW kind \in {"routes", "capabilities"},
             Includes(config.mtls[w].permissions, MethodPermission[kind])
      PROVE  w = IF kind = "routes" THEN "gateway" ELSE "identity"
  <2>1. config.mtls[w].permissions = <<ExactPermission[w]>>
    BY <1>1 DEF Assembles, Validated, MTLSPermissionsValid
  <2>2. MethodPermission[kind] = ExactPermission[w]
    BY <1>1, <2>1 DEF Includes
  <2>3. QED
    BY <2>2 DEF MethodPermission, ExactPermission, MTLSWorkloads
<1>2. ASSUME PInv, NEW c \in Clients, exchange[c].request # NoRequest, GotThrough(c),
             exchange[c].request.transport = "grpc",
             exchange[c].request.operation.kind \in {"routes", "capabilities"}
      PROVE  \E w \in MTLSWorkloads :
               /\ w = IF exchange[c].request.operation.kind = "routes" THEN "gateway" ELSE "identity"
               /\ exchange[c].request.credential = config.mtls[w].spiffe
               /\ \A v \in MTLSWorkloads \ {w} : exchange[c].request.credential # config.mtls[v].spiffe
  <2> DEFINE r == exchange[c].request
  <2>1. LetThrough(r) /\ Assembles(config)
    BY <1>2, ServedWasLetThrough
  <2>2. GRPCVerdict(config, r) = OK
    BY <1>2, <2>1 DEF LetThrough, Verdict
  <2>3. PICK w \in MTLSWorkloads :
          /\ config.mtls[w].spiffe = r.credential
          /\ Includes(config.mtls[w].permissions, MethodPermission[r.operation.kind])
    BY <1>2, <2>2 DEF GRPCVerdict, OK, PermissionDenied, Unauthenticated
  <2>4. w = IF r.operation.kind = "routes" THEN "gateway" ELSE "identity"
    BY <1>1, <1>2, <2>1, <2>3
  <2>5. \A v \in MTLSWorkloads \ {w} : r.credential # config.mtls[v].spiffe
    BY <2>1, <2>3 DEF Assembles, IdentitiesDistinct
  <2>6. QED
    BY <2>3, <2>4, <2>5
<1>3. PInv => SnapshotsSeparate
  BY <1>2 DEF SnapshotsSeparate, MTLSWorkloads
<1>4. QED
  BY <1>3, PInvInductive, PTL

\* No sequence of writes makes a read fail as if its caller were at fault.
THEOREM BlameTheorem == ProvisioningSpec => []ReadsNeverBlamed
<1>1. PInv => ReadsNeverBlamed
  BY DEF PInv, ExchangeInv, AnsweredInv, ReadsNeverBlamed
<1>2. QED
  BY <1>1, PInvInductive, PTL

\* Under every configuration the process serves with, a listed workload has what
\* Validate demands for it unless the last entry with its key id shuts it out.
THEOREM ListedTheorem == ProvisioningSpec => []ListedWorkloadServed
<1>1. ASSUME Assembles(config), NEW w \in BearerWorkloads, NEW permission \in RequiredPermissions[w]
      PROVE  BearerAuthorized(config.bearer, OwnToken(w), permission)
               <=> ~\E v \in BearerWorkloads : ShutsOut(v, w, permission)
  <2> DEFINE keyId == config.bearer[w].keyId
             Last(v) == Trusted(config.bearer, keyId, v)
             Agrees(v) == OwnToken(v) = OwnToken(w) /\ permission \in config.bearer[v].permissions
  <2>1. permission \in config.bearer[w].permissions
    BY <1>1 DEF Assembles, Validated, BearerPermissionsValid
  <2>2. \A u, v \in BearerWorkloads :
             /\ Position[u] \in Nat
             /\ Position[u] = Position[v] => u = v
    BY DEF Position, BearerWorkloads
  <2>3. \E v \in BearerWorkloads : Last(v)
    BY DEF Trusted, Position, BearerWorkloads
  <2>4. \A u, v \in BearerWorkloads : Last(u) /\ Last(v) => u = v
    BY <2>2 DEF Trusted
  <2>5. BearerAuthorized(config.bearer, OwnToken(w), permission)
          <=> \E v \in BearerWorkloads : Last(v) /\ Agrees(v)
    BY DEF BearerAuthorized, OwnToken, Trusted
  <2>6. \A v \in BearerWorkloads : ShutsOut(v, w, permission) <=> Last(v) /\ ~Agrees(v)
    <3>1. Agrees(w)
      BY <2>1
    <3>2. \A v \in BearerWorkloads : Last(v) /\ v # w => Position[v] > Position[w]
      BY <2>2 DEF Trusted
    <3>3. QED
      BY <3>1, <3>2, <2>2 DEF ShutsOut, Trusted
  <2> HIDE DEF Last, Agrees
  <2>7. QED
    BY <2>3, <2>4, <2>5, <2>6
<1>2. PInv => ListedWorkloadServed
  BY <1>1 DEF PInv, ProcessInv, ListedWorkloadServed
<1>3. QED
  BY <1>2, PInvInductive, PTL

-----------------------------------------------------------------------------
(***************************************************************************)
(* Two answers of one revision.  An answer is no newer than the state; one *)
(* of the current revision says what the state shows now; and two of one   *)
(* revision agree already, which no later step can change.                 *)
(***************************************************************************)
ReplyInv(c) ==
  Reply(c) # NoReply /\ exchange[c].request.operation.kind \in {"routes", "catalog", "capabilities"} =>
    /\ Reply(c).revision \in Nat
    /\ Reply(c).revision <= state.revision
    /\ Reply(c).revision = state.revision =>
         /\ HasReply(c, "routes") => Reply(c) = ReadReply("routes", state)
         /\ HasReply(c, "capabilities") =>
              ActiveReleases(Reply(c).content) = ActiveCapabilitySnapshot(state)
         /\ HasReply(c, "catalog") =>
              ActiveReleases({e \in Reply(c).content : e.active}) = ActiveCapabilitySnapshot(state)

AgreeInv == (\A c \in Clients : ReplyInv(c)) /\ RepliesAgree

\* The releases the catalog marks active are those of the capability snapshot.
LEMMA CatalogMarksActive ==
  ASSUME NEW s \in RegistryStates, ActiveRegistered(s)
  PROVE  ActiveReleases({e \in CapabilityCatalogs(s) : e.active}) = ActiveCapabilitySnapshot(s)
<1> DEFINE Release(m, v) ==
      [module |-> m, version |-> v, digest |-> s.releases[m][v].digest,
       permissions |-> s.releases[m][v].permissions]
<1>1. \A m, v : /\ CatalogEntry(s, m, v).module = m /\ CatalogEntry(s, m, v).version = v
                /\ CatalogEntry(s, m, v).digest = s.releases[m][v].digest
                /\ CatalogEntry(s, m, v).permissions = s.releases[m][v].permissions
                /\ CatalogEntry(s, m, v).active <=> s.active[m] = v
  BY DEF CatalogEntry
<1>2. {e \in CapabilityCatalogs(s) : e.active}
        = {CatalogEntry(s, m, s.active[m]) : m \in ActiveModules(s.active)}
  BY <1>1, AbsentAssumption
     DEF CapabilityCatalogs, RegisteredVersions, ActiveModules, ActiveRegistered, RegistryStates,
         ActiveMaps
<1>3. ActiveReleases({e \in CapabilityCatalogs(s) : e.active})
        = {Release(m, s.active[m]) : m \in ActiveModules(s.active)}
  BY <1>1, <1>2 DEF ActiveReleases
<1>4. ActiveCapabilitySnapshot(s) = {Release(m, s.active[m]) : m \in ActiveModules(s.active)}
  BY DEF ActiveCapabilitySnapshot, ActiveManifest
<1>5. QED
  BY <1>3, <1>4

\* The contribution lists a module carries over gRPC leave its release as it is.
LEMMA CapabilitiesOfActive ==
  ASSUME NEW s
  PROVE  ActiveReleases({ActiveModule(s, m) : m \in ActiveModules(s.active)})
           = ActiveCapabilitySnapshot(s)
<1> DEFINE Release(m) ==
      [module |-> m, version |-> s.active[m], digest |-> ActiveManifest(s, s.active, m).digest,
       permissions |-> ActiveManifest(s, s.active, m).permissions]
<1>1. \A m : /\ ActiveModule(s, m).module = m /\ ActiveModule(s, m).version = s.active[m]
             /\ ActiveModule(s, m).digest = ActiveManifest(s, s.active, m).digest
             /\ ActiveModule(s, m).permissions = ActiveManifest(s, s.active, m).permissions
  BY DEF ActiveModule
<1>2. ActiveReleases({ActiveModule(s, m) : m \in ActiveModules(s.active)})
        = {Release(m) : m \in ActiveModules(s.active)}
  BY <1>1 DEF ActiveReleases
<1>3. QED
  BY <1>2 DEF ActiveCapabilitySnapshot

\* What may happen to the answer of a client.
LEMMA ReplyStep ==
  ASSUME PInv, [ProvisioningNext]_provisioningVars, NEW c \in Clients
  PROVE  \/ Reply(c)' = NoReply
         \/ Reply(c)' = Reply(c) /\ exchange'[c].request = exchange[c].request
         \/ /\ state' = state
            /\ exchange'[c].request = exchange[c].request
            /\ exchange[c].request.operation.kind \in Reads
            /\ Reply(c)' = ReadReply(exchange[c].request.operation.kind, state)
<1> DEFINE Goal ==
      \/ Reply(c)' = NoReply
      \/ Reply(c)' = Reply(c) /\ exchange'[c].request = exchange[c].request
      \/ /\ state' = state
         /\ exchange'[c].request = exchange[c].request
         /\ exchange[c].request.operation.kind \in Reads
         /\ Reply(c)' = ReadReply(exchange[c].request.operation.kind, state)
<1>1. ASSUME exchange'[c] = exchange[c] PROVE Goal
  BY <1>1 DEF Reply
<1>2. ASSUME exchange'[c] \in {Free} \cup {Received(r) : r \in Inbound} PROVE Goal
  BY <1>2, FreeFields DEF Reply, Free
<1>3. ASSUME NEW r \in Inbound, NEW n, exchange'[c] = TurnedAway(r, n) PROVE Goal
  BY <1>3 DEF Reply, TurnedAway
<1>4. ASSUME NEW e, exchange'[c] = [exchange[c] EXCEPT !.effect = e] PROVE Goal
  BY <1>4 DEF Reply, PInv, Exchanges
<1>5. ASSUME NEW n, exchange'[c] = [exchange[c] EXCEPT !.phase = "answered", !.status = n] PROVE Goal
  BY <1>5 DEF Reply, PInv, Exchanges
<1>6. ASSUME Read(c) PROVE Goal
  <2>1. \E n, y : /\ exchange'[c] = AnsweredWith(exchange[c], n, y)
                  /\ y \in {NoReply, ReadReply(exchange[c].request.operation.kind, state)}
    BY <1>6 DEF Read, AnswerRead, AnsweredWith, PInv
  <2>2. QED
    BY <1>6, <2>1, AnsweredFields DEF Read, Reply, PInv, vars
<1> HIDE DEF Goal
<1> USE DEF PInv
<1>7. ASSUME NEW d \in Clients, NEW r \in Inbound,
             TurnAway(d, r) \/ CallService(d, r) \/ BeginRead(d, r) PROVE Goal
  BY <1>1, <1>2, <1>3, <1>7 DEF TurnAway, CallService, BeginRead, PInv
<1>8. ASSUME NEW d \in Clients, Work(d) PROVE Goal
  <2>1. CASE exchange' = exchange
    BY <1>1, <2>1
  <2>2. ASSUME NEW e, exchange' = [exchange EXCEPT ![d].effect = e] PROVE Goal
    <3>1. exchange'[c] \in {exchange[c], [exchange[c] EXCEPT !.effect = e]}
      BY <2>2
    <3>2. QED
      BY <1>1, <1>4, <3>1
  <2>3. QED
    BY <1>8, <2>1, <2>2 DEF Work
<1>9. ASSUME NEW d \in Clients, Respond(d) PROVE Goal
  <2>1. PICK n : exchange' = [exchange EXCEPT ![d].phase = "answered", ![d].status = n]
    BY <1>9 DEF Respond
  <2>2. exchange'[c] \in {exchange[c], [exchange[c] EXCEPT !.phase = "answered", !.status = n]}
    BY <2>1
  <2>3. QED
    BY <1>1, <1>5, <2>2
<1>10. ASSUME NEW d \in Clients, Read(d) \/ Deliver(d) PROVE Goal
  <2>1. CASE d = c
    BY <1>2, <1>6, <1>10, <2>1 DEF Deliver
  <2>2. CASE d # c
    BY <1>1, <1>10, <2>2 DEF Read, AnswerRead, Deliver
  <2>3. QED
    BY <2>1, <2>2
<1>11. ASSUME Settle PROVE Goal
  BY <1>1, <1>4, <1>11 DEF Settle
<1>12. ASSUME Start \/ UNCHANGED provisioningVars PROVE Goal
  BY <1>1, <1>12 DEF Start, provisioningVars
<1>13. Goal
  BY <1>7, <1>8, <1>9, <1>10, <1>11, <1>12 DEF ProvisioningNext
<1>14. QED
  BY <1>13 DEF Goal

\* An answer that is there already.
LEMMA ReplyKept ==
  ASSUME IInv, [Next]_vars, NEW c \in Clients, ReplyInv(c),
         Reply(c)' = Reply(c), exchange'[c].request = exchange[c].request
  PROVE  ReplyInv(c)'
<1>1. /\ state.revision \in Nat
      /\ state'.revision \in {state.revision, state.revision + 1}
  BY RevisionStep
<1>2. ASSUME state'.revision = state.revision
      PROVE  /\ ReadReply("routes", state') = ReadReply("routes", state)
             /\ ActiveCapabilitySnapshot(state') = ActiveCapabilitySnapshot(state)
  BY <1>2, SnapshotStep DEF ReadReply
<1>3. \A kind : HasReply(c, kind)' <=> HasReply(c, kind)
  BY DEF HasReply
<1>4. CASE state'.revision = state.revision
  BY <1>2, <1>3, <1>4 DEF ReplyInv
<1>5. CASE state'.revision = state.revision + 1
  BY <1>1, <1>5 DEF ReplyInv
<1>6. QED
  BY <1>1, <1>4, <1>5

\* An answer from the current state.
LEMMA ReplyGiven ==
  ASSUME IInv, state' = state, NEW c \in Clients,
         exchange'[c].request = exchange[c].request,
         exchange[c].request.operation.kind \in Reads,
         Reply(c)' = ReadReply(exchange[c].request.operation.kind, state)
  PROVE  /\ ReplyInv(c)'
         /\ exchange[c].request.operation.kind # "modules" => Reply(c)'.revision = state.revision
<1> DEFINE kind == exchange[c].request.operation.kind
<1>1. state \in RegistryStates /\ ActiveRegistered(state) /\ state.revision \in Nat
  BY DEF IInv, TInv, TypeOK, ActiveAdmissible, RegistryStates
<1>2. CASE kind = "routes"
  BY <1>1, <1>2 DEF ReplyInv, HasReply, ReadReply
<1>3. CASE kind = "capabilities"
  <2>1. /\ Reply(c)'.revision = state.revision
        /\ Reply(c)'.content = {ActiveModule(state, m) : m \in ActiveModules(state.active)}
    BY <1>3 DEF ReadReply
  <2>2. QED
    BY <1>1, <1>3, <2>1, CapabilitiesOfActive DEF ReplyInv, HasReply
<1>4. CASE kind = "catalog"
  <2>1. Reply(c)'.revision = state.revision /\ Reply(c)'.content = CapabilityCatalogs(state)
    BY <1>4 DEF ReadReply
  <2>2. QED
    BY <1>1, <1>4, <2>1, CatalogMarksActive DEF ReplyInv, HasReply
<1>5. CASE kind = "modules"
  BY <1>5 DEF ReplyInv
<1>6. QED
  BY <1>2, <1>3, <1>4, <1>5 DEF Reads

LEMMA AgreeStep ==
  ASSUME IInv, PInv, AgreeInv, [ProvisioningNext]_provisioningVars
  PROVE  AgreeInv'
<1> DEFINE Gone(c) == Reply(c)' = NoReply
           Kept(c) == Reply(c)' = Reply(c) /\ exchange'[c].request = exchange[c].request
           Given(c) ==
             /\ state' = state
             /\ exchange'[c].request = exchange[c].request
             /\ exchange[c].request.operation.kind \in Reads
             /\ Reply(c)' = ReadReply(exchange[c].request.operation.kind, state)
           Kind(c) == exchange[c].request.operation.kind
<1>1. \A c \in Clients : Gone(c) \/ Kept(c) \/ Given(c)
  BY ReplyStep
<1>2. \A c \in Clients : ReplyInv(c)'
  BY <1>1, ReplyKept, ReplyGiven, ServiceStep DEF AgreeInv, ReplyInv
<1>3. ASSUME NEW c \in Clients, Given(c), NEW kind \in {"routes", "catalog", "capabilities"},
             HasReply(c, kind)'
      PROVE  Reply(c)'.revision = state'.revision
  BY <1>3, ReplyGiven DEF HasReply
<1>4. ASSUME NEW c \in Clients, NEW d \in Clients,
             Reply(c)' # NoReply, Reply(d)' # NoReply, Reply(c)'.revision = Reply(d)'.revision
      PROVE  /\ HasReply(c, "routes")' /\ HasReply(d, "routes")' => Reply(c)' = Reply(d)'
             /\ HasReply(c, "capabilities")' /\ HasReply(d, "catalog")' =>
                  ActiveReleases(Reply(c)'.content)
                    = ActiveReleases({e \in Reply(d)'.content : e.active})
  <2>1. CASE Given(c) \/ Given(d)
    <3>1. ASSUME NEW k \in {"routes", "capabilities"}, NEW l \in {"routes", "catalog"},
                 HasReply(c, k)', HasReply(d, l)'
          PROVE  Reply(c)'.revision = state'.revision /\ Reply(d)'.revision = state'.revision
      BY <1>3, <1>4, <2>1, <3>1
    <3>2. QED
      BY <1>2, <3>1 DEF ReplyInv, HasReply
  <2>2. CASE Kept(c) /\ Kept(d)
    BY <1>4, <2>2 DEF AgreeInv, RepliesAgree, HasReply
  <2>3. QED
    BY <1>1, <1>4, <2>1, <2>2
<1>5. RepliesAgree'
  BY <1>4 DEF RepliesAgree
<1>6. QED
  BY <1>2, <1>5 DEF AgreeInv

\* Two answers of one revision agree, over whichever transport and however far
\* apart they were read (release.go:185-187).
THEOREM AgreementTheorem == ProvisioningSpec => []RepliesAgree
<1>1. ProvisioningInit => AgreeInv
  BY DEF ProvisioningInit, AgreeInv, ReplyInv, RepliesAgree, Reply, Free
<1>2. IInv /\ PInv /\ AgreeInv /\ [ProvisioningNext]_provisioningVars => AgreeInv'
  BY AgreeStep
<1>3. AgreeInv => RepliesAgree
  BY DEF AgreeInv
<1>4. QED
  BY <1>1, <1>2, <1>3, PInvInductive, Composition, IInvInductive, PTL DEF ProvisioningSpec
=============================================================================

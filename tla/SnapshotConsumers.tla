------------------------- MODULE SnapshotConsumers -------------------------
(***************************************************************************)
(* The readers of the registry: the Gateway, which serves the route        *)
(* snapshot, and Identity, which grants the capabilities of the active     *)
(* snapshot.  Each polls on its own; a reply is computed from one committed *)
(* state (biz.Release.Routes and ActiveCapabilities) and may be delayed    *)
(* past any number of changes, or lost.                                    *)
(***************************************************************************)
EXTENDS ReleaseContract

CONSTANTS Gateways, Identities,
          NoSnapshot    \* nothing received

Consumers == Gateways \cup Identities

ASSUME ConsumerAssumption == Gateways \cap Identities = {}

VARIABLES reply,    \* per consumer: the reply on its way
          view      \* per consumer: the snapshot it works from

consumerVars == <<reply, view>>
allVars == <<state, call, late, reply, view>>

\* The source of a reply: the two projections carry the same revision field.
Projection(k) ==
  [revision |-> state.revision,
   content  |-> IF k \in Gateways THEN Routes(state) ELSE ActiveCapabilitySnapshot(state)]

ConsumerInit ==
  /\ Init
  /\ reply = [k \in Consumers |-> NoSnapshot]
  /\ view = [k \in Consumers |-> NoSnapshot]

\* The service reads one Snapshot and answers the poll of k.
Serve(k) ==
  /\ reply[k] = NoSnapshot
  /\ reply' = [reply EXCEPT ![k] = Projection(k)]
  /\ UNCHANGED <<vars, view>>

Install(k) ==
  /\ reply[k] # NoSnapshot
  /\ view' = [view EXCEPT ![k] = reply[k]]
  /\ reply' = [reply EXCEPT ![k] = NoSnapshot]
  /\ UNCHANGED vars

LoseReply(k) ==
  /\ reply[k] # NoSnapshot
  /\ reply' = [reply EXCEPT ![k] = NoSnapshot]
  /\ UNCHANGED <<vars, view>>

Poll == \E k \in Consumers : Serve(k) \/ Install(k) \/ LoseReply(k)

ConsumerNext == \/ Next /\ UNCHANGED consumerVars
                \/ Poll

ConsumerSpec == ConsumerInit /\ [][ConsumerNext]_allVars

-----------------------------------------------------------------------------
Holds(k) == view[k] # NoSnapshot

\* The routes of the releases a capability snapshot names.
RoutesOfGranted(capabilities) ==
  UNION {{[module |-> c.module, surface |-> route.surface, prefix |-> TrimSlashes(route.prefix)] :
            route \in state.releases[c.module][c.version].routes} : c \in capabilities}

\* Identity grants the capabilities of exactly the releases the Gateway routes
\* to when both work from the same revision, however long ago and in whatever
\* order they read it (model/release.go:63-66: "Identity must never grant a
\* capability that cannot be reached at the same Registry revision").
GrantedIsReachable ==
  \A g \in Gateways, i \in Identities :
    (Holds(g) /\ Holds(i) /\ view[g].revision = view[i].revision)
      => view[g].content = RoutesOfGranted(view[i].content)

\* A consumer with one poll at a time never goes back to an older revision.
ViewsNeverRegress ==
  [][\A k \in Consumers : Holds(k) => view'[k].revision >= view[k].revision]_allVars
=============================================================================

------------------------- MODULE MCReleaseContract -------------------------
(***************************************************************************)
(* Two clients of a new registry, and of one whose active set an earlier   *)
(* version of the service admitted.                                        *)
(***************************************************************************)
EXTENDS ReleaseContract, RegistryInstance, TLC

CONSTANTS c1, c2

MCModules == {"platform", "shop", "forum"}
MCVersions == {"v1", "v2"}
MCManifests == {PlatformV1, ShopV1, ShopV1Again, ShopV2, ForumV1, ForumUndecodable}

Activate(module, version) == [kind |-> "activate", module |-> module, version |-> version]
Deactivate(module) == [kind |-> "deactivate", module |-> module]
Activations == {Activate("platform", "v1"), Activate("shop", "v1"), Activate("shop", "v2"),
                Activate("forum", "v1")}
MCTraffic == [kind : {"register"}, manifest : MCManifests] \cup Activations
               \cup {Deactivate("platform"), Deactivate("shop"), Deactivate(Blank)}
Symmetry == Permutations(Clients)

\* A database whose active set no validation ever saw: every release is
\* registered, and any versions are active, whether they agree or not.
Installed ==
  [m \in Modules |-> [v \in Versions |->
     CASE m = "platform" /\ v = "v1" -> PlatformV1
       [] m = "shop" -> IF v = "v1" THEN ShopV1 ELSE ShopV2
       [] m = "forum" /\ v = "v1" -> ForumV1
       [] OTHER -> NoRelease]]

Legacy ==
  {[revision |-> 1, releases |-> Installed, active |-> a] : a \in
     {a \in ActiveMaps : \A m \in ActiveModules(a) : Installed[m][a[m]] # NoRelease}}

Databases == Legacy \cup {NewRegistryState}
=============================================================================

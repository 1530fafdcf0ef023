------------------------ MODULE MCSnapshotConsumers ------------------------
(***************************************************************************)
(* One Gateway and one Identity reading while a client activates, replaces *)
(* and removes releases.                                                   *)
(***************************************************************************)
EXTENDS SnapshotConsumers, RegistryInstance

CONSTANTS c1, gateway, identity

MCModules == {"shop", "forum"}
MCVersions == {"v1", "v2"}
MCManifests == {ShopV1, ShopV1Again, ShopV2, ForumV1}
Activate(module, version) == [kind |-> "activate", module |-> module, version |-> version]
Deactivate(module) == [kind |-> "deactivate", module |-> module]
MCTraffic == [kind : {"register"}, manifest : MCManifests]
               \cup {Activate("shop", "v1"), Activate("shop", "v2"), Activate("forum", "v1")}
               \cup {Deactivate("shop"), Deactivate(Blank)}
=============================================================================

---------------------- MODULE MCMySQLReleaseRepository ---------------------
(***************************************************************************)
(* Two workers whose releases conflict by route, by navigation group and   *)
(* by permission code.                                                     *)
(***************************************************************************)
EXTENDS MySQLReleaseRepository, RegistryInstance, TLC

CONSTANTS w1, w2

MCModules == {"shop", "forum"}
MCVersions == {"v1", "v2"}
MCManifests == {ShopV1, ShopV2, ForumV1}
MCPermissions == {"read", "write"}
Activate(module, version) == [kind |-> "activate", module |-> module, version |-> version]
Deactivate(module) == [kind |-> "deactivate", module |-> module]
MCTraffic == [kind : {"register"}, manifest : MCManifests]
               \cup {Activate("shop", "v1"), Activate("shop", "v2"), Activate("forum", "v1")}
               \cup {Deactivate("shop"), Deactivate(Blank)}

LiveManifests == {ShopV1, ForumV1}
LiveTraffic == [kind : {"register"}, manifest : LiveManifests]
                 \cup {Activate("shop", "v1"), Activate("forum", "v1"), Deactivate("shop")}
                 \cup {Deactivate(Blank)}
Symmetry == Permutations(Workers)
=============================================================================

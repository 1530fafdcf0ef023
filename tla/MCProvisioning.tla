-------------------------- MODULE MCProvisioning ---------------------------
(***************************************************************************)
(* Two clients whose requests meet under the standard configuration, and   *)
(* every kind of caller and of configuration with one request at a time.   *)
(***************************************************************************)
EXTENDS Provisioning, RegistryInstance, FiniteSets, TLC

CONSTANTS c1, c2, site, elsewhere,
          gatewayKey, releaseKey, platformKey, otherKey,
          gatewayID, identityID, strangerID, notAnID

MCModules == {"shop", "forum"}
MCVersions == {"v1", "v2"}
MCManifests == {ShopV1, ShopV1Again, ShopV2, ForumV1, ForumUndecodable}

Entry(keyId, key, subject, permissions) ==
  [keyId |-> keyId, publicKey |-> key, subject |-> subject, permissions |-> permissions]
Peer(spiffe, permissions) == [spiffe |-> spiffe, permissions |-> permissions]
Token(keyId, key, subject) == [keyId |-> keyId, key |-> key, subject |-> subject]

\* configs/registry.yaml.
Standard ==
  [blank |-> {}, logFormat |-> "json", pool |-> [open |-> 2, idle |-> 1], lifetimes |-> {1},
   origins |-> {site},
   bearer |->
     [gateway  |-> Entry("k1", gatewayKey, "gateway", {"registry.routes.read"}),
      release  |-> Entry("k2", releaseKey, "ci",
                         {"registry.release.write", "registry.activation.write"}),
      platform |-> Entry("k3", platformKey, "platform",
                         {"registry.activation.write", "registry.routes.read"})],
   mtls |-> [gateway  |-> Peer(gatewayID, <<"platform.registry.routes.read">>),
             identity |-> Peer(identityID, <<"platform.registry.active-capabilities.read">>)]]

BothPermissions ==
  <<"platform.registry.active-capabilities.read", "platform.registry.routes.read">>

Variants ==
  {Standard,
   \* key ids given twice, in each order of their grants, and three times
   [Standard EXCEPT !.bearer["release"].keyId = "k1"],
   [Standard EXCEPT !.bearer["platform"].keyId = "k1"],
   [Standard EXCEPT !.bearer["platform"].keyId = "k2"],
   [Standard EXCEPT !.bearer["release"].keyId = "k1", !.bearer["platform"].keyId = "k1"],
   \* one key and subject for two entries, under one key id and under two
   [Standard EXCEPT !.bearer["platform"] = Entry("k1", gatewayKey, "gateway", @.permissions)],
   [Standard EXCEPT !.bearer["release"] = Entry("k1", gatewayKey, "gateway", @.permissions)],
   [Standard EXCEPT !.bearer["release"] = Entry("k2", gatewayKey, "gateway", @.permissions)],
   \* grants beyond and below what is required
   [Standard EXCEPT !.bearer["gateway"].permissions = @ \cup {"registry.activation.write"}],
   [Standard EXCEPT !.bearer["gateway"].permissions = {}],
   [Standard EXCEPT !.bearer["release"].permissions = {"registry.release.write"}],
   [Standard EXCEPT !.bearer["platform"].permissions = {"registry.routes.read"}],
   [Standard EXCEPT !.mtls["gateway"].permissions = BothPermissions],
   [Standard EXCEPT !.mtls["identity"].permissions = <<>>],
   \* identities that are one, or none
   [Standard EXCEPT !.mtls["identity"].spiffe = gatewayID],
   [Standard EXCEPT !.mtls["identity"].spiffe = notAnID],
   \* the other rules
   [Standard EXCEPT !.blank = {"database.url"}],
   [Standard EXCEPT !.logFormat = "xml"],
   [Standard EXCEPT !.pool.open = 0, !.pool.idle = 0],
   [Standard EXCEPT !.pool.idle = 3],
   [Standard EXCEPT !.lifetimes = {0}],
   [Standard EXCEPT !.origins = {}],
   [Standard EXCEPT !.origins = {NoOrigin}]}

HTTP(origin, body, credential, operation) ==
  [transport |-> "http", origin |-> origin, body |-> body, credential |-> credential,
   operation |-> operation]
Call(credential, operation) == HTTP(NoOrigin, "json", credential, operation)
GRPC(credential, kind) ==
  [transport |-> "grpc", origin |-> NoOrigin, body |-> "message", credential |-> credential,
   operation |-> [kind |-> kind]]

Register(manifest) == [kind |-> "register", manifest |-> manifest]
Activate(module, version) == [kind |-> "activate", module |-> module, version |-> version]
Deactivate(module) == [kind |-> "deactivate", module |-> module]
Do(kind) == [kind |-> kind]

GatewayToken == Token("k1", gatewayKey, "gateway")
ReleaseToken == Token("k2", releaseKey, "ci")
PlatformToken == Token("k3", platformKey, "platform")
Tokens == {GatewayToken, ReleaseToken, PlatformToken,
           Token("k1", releaseKey, "ci"), Token("k1", otherKey, "gateway"),
           Token("k2", gatewayKey, "gateway"), Token("k2", releaseKey, "gateway"), NoToken}

AnyCaller ==
  {Call(token, operation) : token \in Tokens, operation \in {Activate("shop", "v1"), Do("routes")}}
    \cup {Call(GatewayToken, Register(ShopV1)), Call(PlatformToken, Register(ShopV1)),
          HTTP(elsewhere, "json", PlatformToken, Activate("shop", "v1")),
          HTTP(site, "none", NoToken, Do("preflight")),
          HTTP(site, "broken", ReleaseToken, Register(ShopV1))}
    \cup {GRPC(peer, kind) : peer \in {gatewayID, identityID}, kind \in {"routes", "capabilities"}}
    \cup {GRPC(peer, "routes") : peer \in {strangerID, NoPeer}}
    \cup {GRPC(gatewayID, "undeclared"), GRPC(identityID, "health"), GRPC(strangerID, "health")}

Busy ==
  {Call(ReleaseToken, operation) : operation \in
     {Register(ShopV1), Register(ShopV1Again), Register(ShopV2), Register(ForumUndecodable),
      Activate("shop", "v1"), Activate("shop", "v2"), Activate("shop", Blank), Deactivate("shop")}}
    \cup {Call(PlatformToken, Do("catalog")), Call(PlatformToken, Do("modules")),
          Call(GatewayToken, Do("routes")),
          GRPC(gatewayID, "routes"), GRPC(identityID, "capabilities")}

MCInbound == Busy \cup AnyCaller
MCTraffic == {r.operation : r \in {r \in MCInbound : r.operation.kind \in Writes}}

\* A configuration or a request that is only there for who gets through is
\* looked at alone, in a registry with at most MaxAlone revisions.
MaxAlone == 2
Current == {c \in Clients : exchange[c] # Free}
Sparse ==
  (config # Standard \/ \E c \in Current : exchange[c].request \notin Busy)
    => Cardinality(Current) <= 1 /\ state.revision <= MaxAlone

Symmetry == Permutations(Clients)
=============================================================================

----------------------- MODULE WorkloadAuthorization -----------------------
(***************************************************************************)
(* Who may call the provisioning surface: the rules a configuration must   *)
(* meet before the process serves (config.Validate and the assembly of the *)
(* two tables), and the decision each transport takes from its table.      *)
(*                                                                         *)
(* A configuration is abstracted to                                        *)
(*   blank          the required fields that are empty or white space      *)
(*   logFormat      "text", "json" or another word                         *)
(*   pool           [open, idle], the limits of the connection pool        *)
(*   lifetimes      the two pool durations, 0 for a text that is none      *)
(*   origins        the allowed origins, NoOrigin for a blank entry        *)
(*   bearer         per HTTP workload [keyId, publicKey, subject,          *)
(*                  permissions], the permissions a set                    *)
(*   mtls           per gRPC workload [spiffe, permissions], the           *)
(*                  permissions a sequence                                 *)
(***************************************************************************)
EXTENDS Integers, Sequences

CONSTANTS SpiffeIDs,   \* the texts that are SPIFFE IDs
          NoOrigin,    \* a request without an Origin header
          NoToken,     \* a request without a bearer token
          NoPeer       \* a connection without a verified SPIFFE identity

BearerWorkloads == {"gateway", "release", "platform"}
MTLSWorkloads == {"gateway", "identity"}

Includes(permissions, permission) == \E i \in DOMAIN permissions : permissions[i] = permission

-----------------------------------------------------------------------------
\* Validate.  The order of the rules only chooses the message.

PoolLimitsValid(pool) == pool.open > 0 /\ pool.idle \in 0..pool.open

\* What each HTTP workload must be granted, at the least.
RequiredPermissions ==
  [gateway  |-> {"registry.routes.read"},
   release  |-> {"registry.release.write", "registry.activation.write"},
   platform |-> {"registry.activation.write", "registry.routes.read"}]

BearerPermissionsValid(bearer) ==
  \A w \in BearerWorkloads : RequiredPermissions[w] \subseteq bearer[w].permissions

\* What each gRPC workload is granted, and nothing else.
ExactPermission ==
  [gateway  |-> "platform.registry.routes.read",
   identity |-> "platform.registry.active-capabilities.read"]

\* Mutant: the permission may have others beside it.
MTLSPermissionsIncluded(mtls) ==
  \A w \in MTLSWorkloads : Includes(mtls[w].permissions, ExactPermission[w])

MTLSPermissionsValid(mtls) ==
  \A w \in MTLSWorkloads : mtls[w].permissions = <<ExactPermission[w]>>

Validated(config) ==
  /\ config.blank = {}
  /\ config.logFormat \in {"text", "json"}
  /\ PoolLimitsValid(config.pool)
  /\ \A duration \in config.lifetimes : duration > 0
  /\ \A w \in MTLSWorkloads : config.mtls[w].spiffe \in SpiffeIDs
  /\ BearerPermissionsValid(config.bearer)
  /\ MTLSPermissionsValid(config.mtls)
  /\ config.origins # {}

\* grpcauth.New.
IdentitiesDistinct(mtls) ==
  \A v, w \in MTLSWorkloads : v # w => mtls[v].spiffe # mtls[w].spiffe

\* The process starts from this configuration.
Assembles(config) == Validated(config) /\ IdentitiesDistinct(config.mtls)

-----------------------------------------------------------------------------
\* HTTP.

\* The order trustedWorkloads writes its map in.
Position == [gateway |-> 1, release |-> 2, platform |-> 3]

\* Mutant: the map keeps the first entry.
TrustedFirst(bearer, keyId, w) ==
  /\ bearer[w].keyId = keyId
  /\ \A v \in BearerWorkloads : bearer[v].keyId = keyId => Position[v] >= Position[w]

\* The map keeps, for a key id, the last entry that has it.
Trusted(bearer, keyId, w) ==
  /\ bearer[w].keyId = keyId
  /\ \A v \in BearerWorkloads : bearer[v].keyId = keyId => Position[v] <= Position[w]

\* Verifier.Authorize: a token names a key id and a subject and verifies with
\* one key; the entry of that key id decides.
BearerAuthorized(bearer, token, permission) ==
  \E w \in BearerWorkloads :
    /\ Trusted(bearer, token.keyId, w)
    /\ bearer[w].publicKey = token.key
    /\ bearer[w].subject = token.subject
    /\ permission \in bearer[w].permissions

\* Mutant: the activations are bound with the routes.
HTTPPermissionShared ==
  [register   |-> "registry.release.write",
   activate   |-> "registry.routes.read",
   deactivate |-> "registry.routes.read",
   routes     |-> "registry.routes.read",
   modules    |-> "registry.routes.read",
   catalog    |-> "registry.routes.read"]

\* The permission each operation is bound under.
HTTPPermission ==
  [register   |-> "registry.release.write",
   activate   |-> "registry.activation.write",
   deactivate |-> "registry.activation.write",
   routes     |-> "registry.routes.read",
   modules    |-> "registry.routes.read",
   catalog    |-> "registry.routes.read"]

\* The middleware in its order; 200 lets the request through.
HTTPVerdict(config, request) ==
  IF request.origin # NoOrigin /\ request.origin \notin config.origins THEN 403
  ELSE IF request.operation.kind = "preflight" THEN 204
  ELSE IF request.body = "broken" THEN 400
  ELSE IF request.credential = NoToken THEN 401
  ELSE IF ~BearerAuthorized(config.bearer, request.credential,
                            HTTPPermission[request.operation.kind]) THEN 403
  ELSE 200

-----------------------------------------------------------------------------
\* gRPC.

OK == 0
InvalidArgument == 3
NotFound == 5
PermissionDenied == 7
Aborted == 10
Internal == 13
Unauthenticated == 16

\* GRPCMethodPermissions.
MethodPermission ==
  [routes       |-> "platform.registry.routes.read",
   capabilities |-> "platform.registry.active-capabilities.read"]

\* The interceptor; OK lets the call through.
GRPCVerdict(config, call) ==
  LET holders == {w \in MTLSWorkloads : config.mtls[w].spiffe = call.credential}
      method  == call.operation.kind
  IN  IF call.credential = NoPeer THEN Unauthenticated
      ELSE IF holders = {} THEN PermissionDenied
      ELSE IF method = "health" THEN OK
      ELSE IF method \notin DOMAIN MethodPermission THEN PermissionDenied
      ELSE IF \A w \in holders : ~Includes(config.mtls[w].permissions, MethodPermission[method])
           THEN PermissionDenied
      ELSE OK
=============================================================================

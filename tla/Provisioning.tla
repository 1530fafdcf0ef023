---------------------------- MODULE Provisioning ----------------------------
(***************************************************************************)
(* The provisioning surface: the configuration decides whether the process *)
(* serves and which workload may ask for what; a request passes the        *)
(* middleware or the interceptor of its transport, becomes a call of the   *)
(* release service or a read of one snapshot, and the outcome becomes a    *)
(* status.  The service is ReleaseContract.                                *)
(*                                                                         *)
(* A request is [transport, origin, body, credential, operation]; body is  *)
(* "broken" for a JSON body that does not parse, credential is a bearer    *)
(* token over HTTP and a SPIFFE ID over gRPC.                              *)
(***************************************************************************)
EXTENDS ReleaseContract, WorkloadAuthorization

CONSTANTS Configurations,  \* the configurations an operator may supply
          Inbound,         \* the requests that may arrive
          NoReply          \* an answer without a body

Writes == {"register", "activate", "deactivate"}
Reads == {"routes", "modules", "catalog", "capabilities"}

\* HTTP serves the operations of the three groups; a gRPC call may name any
\* method, but none that writes exists.
ASSUME InboundAssumption ==
  \A r \in Inbound :
    /\ r.transport \in {"http", "grpc"}
    /\ r.transport = "http" => r.operation.kind \in DOMAIN HTTPPermission \cup {"preflight"}
    /\ r.operation.kind \in Writes => r.transport = "http" /\ r.operation \in Traffic

VARIABLES config,    \* the configuration of this process
          process,   \* "starting", "serving" or "refused"
          exchange   \* per client: the request, its answer and its effect

provisioningVars == <<vars, config, process, exchange>>

\* effect is history: "none", "done", or "open" while the repository has
\* answered and the effect is in doubt.
Free == [phase |-> "free", request |-> NoRequest, status |-> OK, reply |-> NoReply,
         effect |-> "none"]
Received(request) ==
  [phase |-> "served", request |-> request, status |-> OK, reply |-> NoReply, effect |-> "none"]
TurnedAway(request, status) ==
  [phase |-> "answered", request |-> request, status |-> status, reply |-> NoReply,
   effect |-> "none"]

IsWrite(c) == exchange[c].request.operation.kind \in Writes
Serving(c) == exchange[c].phase = "served"
AnsweredExchange(c) == exchange[c].phase = "answered"

ProvisioningInit ==
  /\ Init
  /\ config \in Configurations
  /\ process = "starting"
  /\ exchange = [c \in Clients |-> Free]

-----------------------------------------------------------------------------
\* The tables of outcomes.

\* Mutant: an unavailable repository is reported as a conflict.
DomainStatusConflict ==
  [release_not_found |-> 404, release_invalid |-> 400, release_immutable |-> 409,
   route_conflict |-> 409, navigation_group_conflict |-> 409,
   self_deactivation_forbidden |-> 403, unavailable |-> 409]

DomainStatus ==
  [release_not_found |-> 404, release_invalid |-> 400, release_immutable |-> 409,
   route_conflict |-> 409, navigation_group_conflict |-> 409,
   self_deactivation_forbidden |-> 403, unavailable |-> 503]

DomainCode ==
  [release_not_found |-> NotFound, release_invalid |-> InvalidArgument,
   release_immutable |-> Aborted, route_conflict |-> Aborted,
   navigation_group_conflict |-> Aborted,
   self_deactivation_forbidden |-> PermissionDenied]

\* An error of the repository is in neither table: HTTP reports it as an
\* unavailable dependency, gRPC as internal.
StatusOf(transport, result) ==
  IF transport = "http"
  THEN IF result = "ok" THEN 200 ELSE DomainStatus[result]
  ELSE IF result = "ok" THEN OK
  ELSE IF result = "unavailable" THEN Internal
  ELSE DomainCode[result]

Verdict(request) ==
  IF request.transport = "http" THEN HTTPVerdict(config, request)
                                ELSE GRPCVerdict(config, request)

LetThrough(request) == Verdict(request) = IF request.transport = "http" THEN 200 ELSE OK

\* A contribution as the gRPC message carries it: the icon of its navigation
\* group is not part of it.
ActiveContribution(page) ==
  [surface |-> page.surface, group |-> page.group, title |-> page.title, sort |-> page.sort]

ActiveModule(s, m) ==
  LET manifest == ActiveManifest(s, s.active, m)
  IN  [module |-> m, version |-> s.active[m], digest |-> manifest.digest,
       permissions |-> manifest.permissions,
       contributions |-> {ActiveContribution(page) : page \in manifest.pages}]

\* The module listing says nothing of the revision it was read at.
NoRevision == 0

\* What an operation reads from one snapshot, and whether it fails.
ReadResult(kind, s) == IF kind = "capabilities" THEN CapabilityResult(s) ELSE "ok"

ReadReply(kind, s) ==
  [revision |-> IF kind = "modules" THEN NoRevision ELSE s.revision,
   content  |-> CASE kind = "routes"       -> Routes(s)
                  [] kind = "modules"      -> ModuleListing(s)
                  [] kind = "catalog"      -> CapabilityCatalogs(s)
                  [] kind = "capabilities" -> {ActiveModule(s, m) : m \in ActiveModules(s.active)}]

-----------------------------------------------------------------------------
\* The process reads its configuration and builds its tables, or ends.
Start ==
  /\ process = "starting"
  /\ process' = IF Assembles(config) THEN "serving" ELSE "refused"
  /\ UNCHANGED <<vars, config, exchange>>

\* A request arrives and is turned away, or is complete, before a controller.
TurnAway(c, request) ==
  /\ process = "serving"
  /\ exchange[c] = Free
  /\ ~LetThrough(request) \/ request.operation.kind = "health"
  /\ exchange' = [exchange EXCEPT ![c] = TurnedAway(request, Verdict(request))]
  /\ UNCHANGED <<vars, config, process>>

\* A controller calls the release service.
CallService(c, request) ==
  /\ process = "serving"
  /\ exchange[c] = Free
  /\ LetThrough(request)
  /\ request.operation.kind \in Writes
  /\ Invoke(c, request.operation)
  /\ exchange' = [exchange EXCEPT ![c] = Received(request)]
  /\ UNCHANGED <<config, process>>

\* The repository works on a call: it takes effect, is refused, or is in doubt.
Work(c) ==
  /\ \/ /\ Apply(c)
        /\ exchange' = [exchange EXCEPT ![c].effect =
                         IF Result(call[c].request, state) = "ok" THEN "done" ELSE "none"]
     \/ /\ Refuse(c)
        /\ UNCHANGED exchange
     \/ /\ Doubt(c)
        /\ exchange' = [exchange EXCEPT ![c].effect = "open"]
  /\ UNCHANGED <<config, process>>

\* The doubt ends, whether its client still waits for the answer or not.
Settle ==
  /\ \/ /\ TakeEffectLate
        /\ exchange' = [c \in Clients |->
             IF exchange[c].effect = "open"
             THEN [exchange[c] EXCEPT !.effect = IF Result(late, state) = "ok" THEN "done" ELSE "none"]
             ELSE exchange[c]]
     \/ /\ NeverTakeEffect
        /\ exchange' = [c \in Clients |->
             IF exchange[c].effect = "open" THEN [exchange[c] EXCEPT !.effect = "none"]
                                            ELSE exchange[c]]
  /\ UNCHANGED <<config, process>>

\* The controller answers with the outcome of the call.
Respond(c) ==
  /\ Return(c)
  /\ exchange' = [exchange EXCEPT
       ![c].phase = "answered",
       ![c].status = StatusOf(exchange[c].request.transport, call[c].result)]
  /\ UNCHANGED <<config, process>>

\* A read arrives, is admitted and waits for a snapshot.
BeginRead(c, request) ==
  /\ process = "serving"
  /\ exchange[c] = Free
  /\ LetThrough(request)
  /\ request.operation.kind \in Reads
  /\ exchange' = [exchange EXCEPT ![c] = Received(request)]
  /\ UNCHANGED <<vars, config, process>>

AnswerRead(c, result) ==
  LET request == exchange[c].request
  IN  exchange' = [exchange EXCEPT
        ![c].phase = "answered",
        ![c].status = StatusOf(request.transport, result),
        ![c].reply = IF result = "ok" THEN ReadReply(request.operation.kind, state) ELSE NoReply]

\* The repository gives the read its snapshot, or fails.
Read(c) ==
  /\ Serving(c)
  /\ exchange[c].request.operation.kind \in Reads
  /\ \/ AnswerRead(c, ReadResult(exchange[c].request.operation.kind, state))
     \/ AnswerRead(c, "unavailable")
  /\ UNCHANGED <<vars, config, process>>

\* The answer leaves; the client has it, or the connection broke.
Deliver(c) ==
  /\ AnsweredExchange(c)
  /\ exchange' = [exchange EXCEPT ![c] = Free]
  /\ UNCHANGED <<vars, config, process>>

ProvisioningNext ==
  \/ Start
  \/ \E c \in Clients :
       \/ \E request \in Inbound :
            TurnAway(c, request) \/ CallService(c, request) \/ BeginRead(c, request)
       \/ Work(c) \/ Respond(c) \/ Read(c) \/ Deliver(c)
  \/ Settle

ProvisioningSpec == ProvisioningInit /\ [][ProvisioningNext]_provisioningVars

-----------------------------------------------------------------------------
\* Safety.

Succeeded(c) == AnsweredExchange(c) /\ exchange[c].status \in {200, OK}
RefusedForGood(c) ==
  /\ AnsweredExchange(c)
  /\ \/ exchange[c].status \in 400..499
     \/ exchange[c].status \in {InvalidArgument, NotFound, PermissionDenied, Aborted, Unauthenticated}
GotThrough(c) == Serving(c) \/ Succeeded(c)

\* A status the caller need not doubt is one it can rely on: after 200 its write
\* has taken effect, after 4xx it has not and never will, although an attempt
\* whose commit is in doubt may take effect after its answer (web/status.go).
DefiniteAnswers ==
  \A c \in Clients : exchange[c].request # NoRequest /\ IsWrite(c) =>
    /\ Succeeded(c) => exchange[c].effect = "done"
    /\ RefusedForGood(c) => exchange[c].effect = "none"

Needed(kind) ==
  CASE kind = "register"                   -> "registry.release.write"
    [] kind \in {"activate", "deactivate"} -> "registry.activation.write"
    [] OTHER                               -> "registry.routes.read"

\* Whatever the key ids of a configuration, the service is reached over HTTP
\* only with a key whose own entry grants the operation, and the permission to
\* read is never one to write (router.go:23-24: "read and write capabilities
\* never share a group").
GrantedOnly ==
  \A c \in Clients :
    (exchange[c].request # NoRequest /\ exchange[c].request.transport = "http" /\ GotThrough(c))
      => \E w \in BearerWorkloads :
           /\ config.bearer[w].publicKey = exchange[c].request.credential.key
           /\ config.bearer[w].subject = exchange[c].request.credential.subject
           /\ Needed(exchange[c].request.operation.kind) \in config.bearer[w].permissions

\* Over gRPC only Identity reads the capabilities and only the Gateway the
\* routes, under every configuration the process starts from
\* (server_test.go:33, "PublishesActiveCapabilitiesOnlyToIdentity").
SnapshotsSeparate ==
  \A c \in Clients :
    (exchange[c].request # NoRequest /\ exchange[c].request.transport = "grpc" /\ GotThrough(c))
      => /\ exchange[c].request.operation.kind = "capabilities" =>
              /\ exchange[c].request.credential = config.mtls["identity"].spiffe
              /\ exchange[c].request.credential # config.mtls["gateway"].spiffe
         /\ exchange[c].request.operation.kind = "routes" =>
              /\ exchange[c].request.credential = config.mtls["gateway"].spiffe
              /\ exchange[c].request.credential # config.mtls["identity"].spiffe

OwnToken(w) ==
  [keyId |-> config.bearer[w].keyId, key |-> config.bearer[w].publicKey,
   subject |-> config.bearer[w].subject]

\* v is the last entry with the key id of w, and is not to be taken for w.
ShutsOut(v, w, permission) ==
  /\ config.bearer[v].keyId = config.bearer[w].keyId
  /\ Position[v] > Position[w]
  /\ \A u \in BearerWorkloads :
       config.bearer[u].keyId = config.bearer[w].keyId => Position[u] <= Position[v]
  /\ OwnToken(v) # OwnToken(w) \/ permission \notin config.bearer[v].permissions

\* Nothing refuses a key id given twice: a configuration that lists a workload
\* with all Validate demands is accepted, and the workload is shut out for good
\* by the last entry with its key id, unless that has its key and subject and
\* the permission as well.  Nothing else shuts a listed workload out
\* (dependencies.go:65-66).
ListedWorkloadServed ==
  process = "serving" =>
    \A w \in BearerWorkloads : \A permission \in RequiredPermissions[w] :
      BearerAuthorized(config.bearer, OwnToken(w), permission)
        <=> ~\E v \in BearerWorkloads : ShutsOut(v, w, permission)

\* An admitted read is answered with a snapshot or "unavailable": no sequence
\* of writes leaves an active version without its release, which would be
\* reported as the fault of the reader (release.go:231-234).
ReadsNeverBlamed ==
  \A c \in Clients :
    (AnsweredExchange(c) /\ exchange[c].request.operation.kind \in Reads
       /\ RefusedForGood(c)) => ~LetThrough(exchange[c].request)

Reply(c) == exchange[c].reply
HasReply(c, kind) == Reply(c) # NoReply /\ exchange[c].request.operation.kind = kind

\* What a reply says of the active releases.
ActiveReleases(content) ==
  {[module |-> e.module, version |-> e.version, digest |-> e.digest,
    permissions |-> e.permissions] : e \in content}

\* Two answers of one revision agree however far apart they were read, over
\* whichever transport: the routes are the same, and the releases the catalog
\* marks active are those of the capability snapshot, although releases are
\* registered without moving the revision (release.go:185-187: "discovery
\* cannot drift from the release that was registered and activated").
RepliesAgree ==
  \A c, d \in Clients :
    (Reply(c) # NoReply /\ Reply(d) # NoReply /\ Reply(c).revision = Reply(d).revision) =>
      /\ HasReply(c, "routes") /\ HasReply(d, "routes") => Reply(c) = Reply(d)
      /\ HasReply(c, "capabilities") /\ HasReply(d, "catalog") =>
           ActiveReleases(Reply(c).content)
             = ActiveReleases({e \in Reply(d).content : e.active})
=============================================================================

----------------------- MODULE MCActiveSetValidation -----------------------
(***************************************************************************)
(* Three modules, each of which may have any of the releases below active. *)
(* Two of them have a release for every prefix up to MaxLength besides, so *)
(* that all pairs of prefixes meet.                                        *)
(***************************************************************************)
EXTENDS ActiveSetValidation, RegistryInstance, SequencesExt, TLC

CONSTANTS Letters, MaxLength

MCModules == {"platform", "shop", "forum"}

Variants ==
  [v1 |-> [routes |-> {Route("public", S), Route("public", SBelow)},
          pages |-> {Page("ops", "Ops", 1, "")}],
   v2 |-> [routes |-> {Route("public", SBelow), Route("internal", S)},
           pages |-> {Page("ops", "Ops", 1, "cart"), Page("crm", "Sales", 3, "")}],
   v3 |-> [routes |-> {Route("public", ST), Route("admin", SSlash)},
           pages |-> {Page("ops", "Ops", 1, "bell"), Page("crm", "CRM", 2, "")}],
   v4 |-> [routes |-> {Route("internal", S)},
           pages |-> {Page("ops", "Ops", 1, ""), Page("ops", "Ops", 1, "cart"),
                      Page("crm", "CRM", 3, "bell")}],
   v5 |-> [routes |-> {Route("admin", ST)},
           pages |-> {Page("ops", "Ops", 1, "bell")}]]

Words(n) == UNION {[1..k -> Letters \cup {Slash}] : k \in 0..n}
MCPaths == Words(MaxLength) \cup {SBelow}

\* The prefixes are absolute; the version of a release spells its prefix.
Spelled(prefix) == FoldLeft(\o, "", prefix)
Absolute == {Root \o word : word \in Words(MaxLength - 1)}
Single ==
  [v \in {Spelled(prefix) : prefix \in Absolute} |->
     [routes |-> {Route("public", CHOOSE prefix \in Absolute : Spelled(prefix) = v)},
      pages  |-> {}]]

MCVersions == DOMAIN Variants \cup DOMAIN Single
MCManifest(m, v) ==
  LET content == (Variants @@ Single)[v]
  IN  Document(m, v, v, "valid", content.routes, content.pages, {})
MCManifests == {MCManifest(m, v) : m \in MCModules, v \in MCVersions}
MCRegistry ==
  [revision |-> 1,
   releases |-> [m \in MCModules |-> [v \in MCVersions |->
                   IF m = "platform" /\ v \notin DOMAIN Variants THEN NoRelease
                   ELSE MCManifest(m, v)]],
   active   |-> [m \in MCModules |-> "none"]]

=============================================================================

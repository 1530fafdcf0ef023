-------------------------- MODULE RegistryInstance -------------------------
(***************************************************************************)
(* The documents of the small instances TLC checks: three modules, the     *)
(* control plane, a shop and a forum, whose releases meet in every way the *)
(* aggregate distinguishes.                                                *)
(***************************************************************************)
EXTENDS Naturals, Sequences

Page(group, title, sort, icon) ==
  [surface |-> "admin", group |-> group, title |-> title, sort |-> sort, icon |-> icon]
Route(surface, prefix) == [surface |-> surface, prefix |-> prefix]

\* /s, /s/, /s/x and /st
S == <<"/", "s">>
SSlash == <<"/", "s", "/">>
SBelow == <<"/", "s", "/", "x">>
ST == <<"/", "s", "t">>

Document(id, version, digest, form, routes, pages, permissions) ==
  [id |-> id, version |-> version, digest |-> digest, form |-> form,
   routes |-> routes, pages |-> pages, permissions |-> permissions]

PlatformV1 == Document("platform", "v1", "p1", "valid", {}, {Page("ops", "Ops", 1, "")}, {})

\* Serves /s, and leaves the icon of the group it shares out.
ShopV1 == Document("shop", "v1", "s1", "valid", {Route("public", SSlash)},
                   {Page("ops", "Ops", 1, "")}, {"read"})
\* The same version with other content.
ShopV1Again == [ShopV1 EXCEPT !.digest = "s1b", !.permissions = {"read", "write"}]
\* Serves /st and the internal /s, gives the group an icon, declares another permission.
ShopV2 == Document("shop", "v2", "s2", "valid", {Route("public", ST), Route("internal", S)},
                   {Page("ops", "Ops", 1, "cart")}, {"write"})

\* Overlaps shop v1 below /s, disagrees with shop v2 on the icon of the group,
\* and serves the internal route shop v2 serves too.
ForumV1 == Document("forum", "v1", "f1", "valid", {Route("public", SBelow), Route("internal", S)},
                    {Page("ops", "Ops", 1, "bell")}, {"write"})
ForumUndecodable == [ForumV1 EXCEPT !.digest = "f0", !.form = "undecodable"]
=============================================================================

---------------------------- MODULE RoutePrefix ----------------------------
(***************************************************************************)
(* Route prefixes as the registry aggregate compares them                  *)
(* (internal/biz/model/release.go).  A prefix is a string, that is, a      *)
(* sequence of characters of which only the slash matters.                 *)
(***************************************************************************)
EXTENDS Naturals, Sequences
Strings == INSTANCE SequencesExt

Slash == "/"
Root == <<Slash>>

\* strings.TrimRight(value, "/"): the string up to its last other character.
TrimSlashes(value) ==
  LET kept == {n \in 1..Len(value) : value[n] # Slash}
  IN  SubSeq(value, 1, IF kept = {} THEN 0 ELSE CHOOSE n \in kept : \A k \in kept : k <= n)

\* "/" stands for the prefix that has no other character.
NormalizedRoutePrefix(value) ==
  LET trimmed == TrimSlashes(value)
  IN  IF trimmed = <<>> THEN Root ELSE trimmed

\* Mutant: the prefix comparison without the segment boundary.
OverlapWithoutBoundary(left, right) == Strings!IsPrefix(right, left) \/ Strings!IsPrefix(left, right)

\* One prefix is the other, or reaches below the other at a segment boundary.
RoutePrefixesOverlap(left, right) ==
  \/ left = right
  \/ left = Root
  \/ right = Root
  \/ Strings!IsPrefix(Append(right, Slash), left)
  \/ Strings!IsPrefix(Append(left, Slash), right)

(***************************************************************************)
(* The Gateway sends a request path to the owner of a prefix that the path *)
(* equals or continues at a segment boundary.  The Gateway is another      *)
(* repository: this is the meaning its route snapshot has for it.          *)
(***************************************************************************)
Serves(prefix, path) ==
  \/ prefix = Root
  \/ path = prefix
  \/ Strings!IsPrefix(Append(prefix, Slash), path)
=============================================================================

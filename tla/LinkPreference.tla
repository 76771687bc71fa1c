---------------------------- MODULE LinkPreference ----------------------------
(***************************************************************************)
(* The rule by which a node chooses between two links to the same peer     *)
(* (linkIsPreferred in transport/link_registry.mjs).  A node hash is only  *)
(* ever compared (compareHex64Asc), so nodes are natural numbers; a link   *)
(* is known by its provider's level and by whether this end dialled it.    *)
(***************************************************************************)
EXTENDS Naturals

\* Mutant of linkIsPreferred: at one level the newest link wins.
NewestIsPreferred(self, remote, candidate, against) == candidate.level >= against.level

(***************************************************************************)
(* At `self`, the candidate towards `remote` should be kept in place of    *)
(* `against`: the higher level wins, and at one level the link dialled by  *)
(* the smaller node hash does, whatever `against` is.                      *)
(***************************************************************************)
linkIsPreferred(self, remote, candidate, against) ==
  \/ candidate.level > against.level
  \/ /\ candidate.level = against.level
     /\ IF candidate.initiator THEN self < remote ELSE remote < self

=============================================================================

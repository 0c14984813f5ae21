---------------------------- MODULE MCCacheStore ----------------------------
(* Three tags, values of sizes 1, 2 and 3: an overwrite can grow, shrink *)
(* or keep the size of an entry, and a store may need no, one or two victims. *)
EXTENDS CacheStore, TLC

MCSize == [v \in Vals |-> CASE ToString(v) = "small" -> 1 [] ToString(v) = "large" -> 2 [] OTHER -> 3]

Symmetry == Permutations(Tags)

=============================================================================

---------------------------- MODULE MCClusterLife ----------------------------
(* The instance of MCClusterUp; and two clusters with workers in one          *)
(* container and on one machine, the second with `ray stop` in its commands.  *)
EXTENDS MCClusterUp, ClusterLife

CONSTANTS a, b, inn, shed, hub

MCUses == (a :> {inn, shed}) @@ (b :> {inn, shed})
=============================================================================

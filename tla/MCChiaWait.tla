------------------------------ MODULE MCChiaWait ------------------------------
(* A head, the driver's machine and a worker machine on the LAN, and a        *)
(* tunneled machine of the same kind that joins later.                        *)
EXTENDS ChiaWait, TLC

CONSTANTS head, desk, lan, far, j, k, a, b, c

MCOffers == (head :> {}) @@ (desk :> {}) @@ (lan :> {j, k}) @@ (far :> {j, k})
MCParent == (a :> NoCall) @@ (b :> NoCall) @@ (c :> b)

OfKind(x) == [Anywhere EXCEPT !.kind = x]
MCWants == (a :> {OfKind(k), [OfKind(k) EXCEPT !.unchecked = TRUE]})
        @@ (b :> {[OfKind(j) EXCEPT !.spread = TRUE]})
        @@ (c :> {[Anywhere EXCEPT !.node = lan]})
=============================================================================

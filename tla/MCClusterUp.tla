----------------------------- MODULE MCClusterUp -----------------------------
(* Two machines, far behind a tunnel and lan on the LAN.  Type A runs on     *)
(* both and is balanced by itself, type B only on the tunneled machine, which *)
(* gets a relay and tunnels that depend on it.                                *)
EXTENDS ClusterUp, TLC

CONSTANTS far, lan, A, B

MCTypes  == <<A, B>>
MCUsable == (A :> <<far, lan>>) @@ (B :> <<far>>)

MCOneType   == <<A>>
MCOneUsable == (A :> <<lan>>)

MCRelayTypes  == <<B>>
MCRelayUsable == (B :> <<far>>)

=============================================================================

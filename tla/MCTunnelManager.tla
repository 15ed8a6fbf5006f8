-------------------------- MODULE MCTunnelManager --------------------------
(* Small instances of TunnelManager: the pools the ids are drawn from. *)
EXTENDS TunnelManager

MCIdsOf == [c |-> {1}, s |-> {2}]

\* Every draw collides with every other.
MCOneId == [c |-> {1}, s |-> {1}]
=============================================================================

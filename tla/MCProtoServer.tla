--------------------------- MODULE MCProtoServer ---------------------------
(* Host "x" is behind the router "r", "y" connects directly or through "r". *)
EXTENDS ProtoServer

MCAddrsOf == [x |-> {"r"}, y |-> {"r", "y"}]
=============================================================================

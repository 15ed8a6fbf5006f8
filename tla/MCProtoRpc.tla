----------------------------- MODULE MCProtoRpc -----------------------------
EXTENDS ProtoRpc

\* Independent requests: every endpoint has one request of a type.
MCOwnerOf == [r1 |-> "a", r2 |-> "a", r3 |-> "b"]
MCTypesApart == [r1 |-> "share", r2 |-> "trans", r3 |-> "share"]

\* Two requests of one type at the server end.
MCOwnerServer == [r1 |-> "b", r2 |-> "b"]
MCTypesSame == [r1 |-> "share", r2 |-> "share"]
=============================================================================

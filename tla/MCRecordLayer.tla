---------------------------- MODULE MCRecordLayer ----------------------------
(* Instances of RecordLayer: the PZP's client end and the hub's server end.  *)
EXTENDS RecordLayer

CONSTANTS client, server

MCPeer == [e \in End |-> IF e = client THEN server ELSE client]

\* How many records ssl_write may prepare at each end.
MCOneWay   == [e \in End |-> IF e = client THEN 2 ELSE 0]
MCBothWays == [e \in End |-> IF e = client THEN 2 ELSE 1]

=============================================================================

---------------------------- MODULE MCDiscovery ----------------------------
(* Instances of Discovery: a PZP that answers with its machine name, a PZP  *)
(* that answers with the service name alone, and a responder of another    *)
(* service on the same network.                                            *)
EXTENDS Discovery

CONSTANTS pzp1, pzp2, printer

MCOwner == [p \in Peers |-> CASE p = pzp1 -> "machine.service"
                              [] p = pzp2 -> "service"
                              [] OTHER    -> "other"]

\* Responses that carry the address at once, or after other records.
MCRecords == [p \in Peers |-> {<<"A">>, <<"short", "A">>}]

=============================================================================

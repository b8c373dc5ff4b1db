---------------------------- MODULE MCEnrolment ----------------------------
(* Instances of Enrolment: a PZP that answers with its machine name, a PZP *)
(* that answers with the service name alone, and a responder of another    *)
(* service on the same network.                                            *)
EXTENDS Enrolment

CONSTANTS pzp1, pzp2, printer

MCOwner == [p \in Peers |-> CASE p = pzp1 -> "machine.service"
                              [] p = pzp2 -> "service"
                              [] OTHER    -> "other"]

\* Responses that carry the address.
MCRecords == [p \in Peers |-> {<<"A">>, <<"short", "A">>}]

\* A response of pzp1 may leave its address out, or hide it behind a record that
\* the walk misreads.
MCRecordsAny ==
  [MCRecords EXCEPT ![pzp1] = {<<"A">>, <<"short">>, <<"long", "A">>}]

=============================================================================

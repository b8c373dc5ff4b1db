---------------------------- MODULE MCHandshake ----------------------------
(* Instances of Handshake: the settings of both applications.              *)
EXTENDS Handshake

CONSTANTS a, b, dhe, rsa

Cert(who_, ok_) == [of |-> who_, ok |-> ok_]

Base == [max |-> 3, cmin |-> 0, csuites |-> {dhe, rsa}, cauth |-> "REQUIRED",
  ccert |-> [c \in Client |-> Cert(c, TRUE)],
  smin |-> 0, ssuites |-> [v \in Version |-> <<dhe, rsa>>], sauth |-> "REQUIRED",
  scert |-> Cert("server", TRUE), renegotiates |-> TRUE,
  connections |-> 1, renegotiations |-> 0, losses |-> 0, ticks |-> 0, data |-> 0]

\* Every mode and every certificate, in SSL 3.0 and in TLS 1.2
MCCertificates ==
  {[Base EXCEPT !.max = v, !.csuites = {s}, !.cauth = ca, !.sauth = sa,
                !.scert = sc, !.ccert = [c \in Client |-> cc]] :
     v \in {0, 3}, s \in {dhe, rsa}, ca \in AuthMode, sa \in AuthMode,
     sc \in {None, Cert("server", TRUE), Cert("server", FALSE)},
     cc \in {None, Cert(a, TRUE), Cert(a, FALSE)}}

\* Versions and suites that fit, or do not
MCVersions ==
  {[Base EXCEPT !.max = v, !.cmin = cm, !.smin = sm, !.csuites = cs, !.losses = 1,
                !.ssuites = [w \in Version |-> IF w < 2 THEN <<rsa>> ELSE <<dhe, rsa>>]] :
     v \in {1, 3}, cm \in {0, 2}, sm \in {0, 2}, cs \in {{dhe}, {dhe, rsa}}}

\* Data and a renegotiation in one connection
MCRenegotiations ==
  {[Base EXCEPT !.renegotiates = r, !.renegotiations = 1, !.data = 2, !.csuites = {s}] :
     r \in BOOLEAN, s \in {dhe, rsa}}

\* Several connections and a cache whose entries expire
MCResumptions ==
  {[Base EXCEPT !.connections = 3, !.ticks = 2, !.csuites = {rsa}, !.cauth = "NONE"],
   [Base EXCEPT !.connections = 3, !.ticks = 2, !.csuites = {dhe}, !.sauth = "NONE"],
   [Base EXCEPT !.connections = 2, !.losses = 1, !.csuites = {rsa}],
   [Base EXCEPT !.connections = 2, !.renegotiations = 1, !.data = 1, !.csuites = {rsa}]}

\* Of two clients one has no certificate, and the server does not insist.
MCOneCertificate ==
  {[Base EXCEPT !.connections = 3, !.ticks = 2, !.csuites = {rsa}, !.sauth = "OPTIONAL",
                !.ccert = [c \in Client |-> IF c = a THEN Cert(a, TRUE) ELSE None]]}

MCConfig == MCCertificates \cup MCVersions \cup MCRenegotiations \cup MCResumptions
=============================================================================

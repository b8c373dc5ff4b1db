----------------------------- MODULE Handshake -----------------------------
(***************************************************************************)
(* The TLS handshake between one server and the clients that connect to it *)
(* one after the other: ssl_cli.c, ssl_srv.c and the parts of ssl_tls.c     *)
(* they share, from ssl_handshake to ssl_renegotiate and ssl_session_reset, *)
(* with the server's session cache of module SessionCache.                 *)
(*                                                                         *)
(* An action is one turn of ssl_handshake_client_step's or                 *)
(* ssl_handshake_server_step's switch.  Every turn first flushes what the   *)
(* one before it has written, so each call may come back with WANT_WRITE or *)
(* WANT_READ between any two actions.                                      *)
(*                                                                         *)
(* Cryptography is ideal: a random number is fresh, a hash is the sequence *)
(* of what went into it, a secret is the term it is computed from, and a    *)
(* record is of use only to an end that holds the key it was written under. *)
(***************************************************************************)
EXTENDS SessionCache

CONSTANTS
  Client,  \* the clients
  Config,  \* what the applications at both ends may have set, see Settings
  DHE      \* the cipher suites with a DHE_RSA key exchange, the others use RSA

End == {"client", "server"}
Other(e) == IF e = "client" THEN "server" ELSE "client"

Version == 0..3                          \* minor versions, SSL 3.0 to TLS 1.2
AuthMode == {"NONE", "OPTIONAL", "REQUIRED"}

\* A certificate is [of |-> who presents it, ok |-> does it verify?] or None.
Settings ==
  {"max", "cmin", "csuites", "cauth", "ccert",          \* the clients'
   "smin", "ssuites", "sauth", "scert", "renegotiates", \* the server's
   "connections", "renegotiations", "losses", "ticks", "data"}  \* bounds

ASSUME ConfigAssumption ==
  \A cf \in Config :
    /\ DOMAIN cf = Settings
    /\ {cf.max, cf.cmin, cf.smin} \subseteq Version
    /\ {cf.cauth, cf.sauth} \subseteq AuthMode

VARIABLES
  conf,    \* the settings of this behaviour
  budget,  \* what is left of its bounds
  who,     \* the client that is connected
  ctx,     \* the ssl_context of each end
  net,     \* the records on their way to each end, oldest first
  saved,   \* the session each client's application has kept
  nonce,   \* the random numbers drawn so far
  origin   \* history: the sessions for which the server has accepted a Finished

cacheVars == <<chain, now>>
envVars == <<conf, budget, who, saved, origin>>
vars == <<conf, budget, who, ctx, net, saved, nonce, origin, chain, now>>

States == <<"HELLO_REQUEST", "CLIENT_HELLO", "SERVER_HELLO",
  "SERVER_CERTIFICATE", "SERVER_KEY_EXCHANGE", "CERTIFICATE_REQUEST",
  "SERVER_HELLO_DONE", "CLIENT_CERTIFICATE", "CLIENT_KEY_EXCHANGE",
  "CERTIFICATE_VERIFY", "CLIENT_CHANGE_CIPHER_SPEC", "CLIENT_FINISHED",
  "SERVER_CHANGE_CIPHER_SPEC", "SERVER_FINISHED", "FLUSH_BUFFERS",
  "HANDSHAKE_WRAPUP", "HANDSHAKE_OVER">>

\* ssl->state++
Following(s) == States[1 + CHOOSE i \in 1..16 : States[i] = s]

HandshakeMessages == {"ClientHello", "ServerHello", "Certificate",
  "ServerKeyExchange", "CertificateRequest", "ServerHelloDone",
  "ClientKeyExchange", "CertificateVerify", "Finished"}

\* "NoCertificate" and "NoRenegotiation" are warnings, "Fatal" any other alert.
Messages == HandshakeMessages \cup
  {"ChangeCipherSpec", "Data", "NoCertificate", "NoRenegotiation", "Fatal"}

\* Why an end has left the connection.
Reasons == {"no", "closed", "lost", "eof", "alert", "version", "nocipher",
  "hello", "renegotiation", "nocert", "badcert", "unexpected", "mac",
  "signature", "finished"}

NewSession == [id |-> None, suite |-> None, master |-> None, peer |-> None]

-----------------------------------------------------------------------------
(* The ssl_context.                                                        *)

\* ssl_handshake_init
HandshakeInit(c) ==
  [c EXCEPT !.resume = FALSE, !.rc = None, !.rs = None, !.dh = None,
            !.premaster = None, !.sum = <<>>, !.neg = NewSession, !.tneg = None]

\* ssl_init.  ssl_session_reset leaves max, auth and verify of the last
\* connection as they are.
Reset(c) ==
  HandshakeInit([c EXCEPT !.state = "HELLO_REQUEST", !.reneg = FALSE,
    !.own = None, !.peer = None, !.ses = None, !.tin = None, !.tout = None,
    !.out = None, !.msg = None, !.end = "no"])

New == Reset([state |-> "", minor |-> 0, max |-> 0, reneg |-> FALSE,
  own |-> None, peer |-> None, ses |-> None, neg |-> None, resume |-> FALSE,
  rc |-> None, rs |-> None, dh |-> None, premaster |-> None, sum |-> <<>>,
  tneg |-> None, tin |-> None, tout |-> None, auth |-> FALSE,
  verify |-> "unknown", out |-> None, msg |-> None, end |-> "no"])

Own(e) == IF e = "client" THEN conf.ccert[who] ELSE conf.scert
Auth(e) == IF e = "client" THEN conf.cauth ELSE conf.sauth

Advance(c) == [c EXCEPT !.state = Following(@)]
Fail(c, why) == [c EXCEPT !.end = why]

\* update_checksum, which takes in handshake messages only
Hashed(c, m) == [c EXCEPT !.sum = IF m.msg \in HandshakeMessages THEN Append(@, m) ELSE @]

\* ssl_write_record.  The record waits in out_msg until it is flushed.
Sent(c, m) == [Hashed(c, m) EXCEPT !.out = [key |-> c.tout, body |-> m]]
Abort(c, why) == Sent(Fail(c, why), [msg |-> "Fatal"])

\* ssl_read_record: the message in in_msg, hashed during a handshake only.
Received(c, m) ==
  [(IF c.state = "HANDSHAKE_OVER" THEN c ELSE Hashed(c, m)) EXCEPT !.msg = m]

\* ssl3_prf, tls1_prf, tls_prf_sha256 and tls_prf_sha384
PRF(secret, label, seed) == <<label, secret, seed>>

\* ssl_derive_keys: the master secret, unless a session is resumed, ...
Master(c) == IF c.resume THEN c.neg.master ELSE PRF(c.premaster, "master", <<c.rc, c.rs>>)

\* ... and the key block for the suite, with keys of their own for both directions.
KeyBlock(c, master) ==
  [block |-> PRF(master, "keys", <<c.rc, c.rs>>), suite |-> c.neg.suite, minor |-> c.minor]

Derived(c) ==
  [c EXCEPT !.neg.master = Master(c), !.tneg = KeyBlock(c, Master(c)),
            !.premaster = None, !.rc = None, !.rs = None]

\* Defect: an end writes under the key of the other direction.
OutKeyOfOther(e, c) == <<Other(e), c.tneg>>

OutKey(e, c) == <<e, c.tneg>>
InKey(e, c) == <<Other(e), c.tneg>>

\* calc_verify, the hash of the handshake so far
Transcript(c) == c.sum

\* calc_finished
FinishedBy(e, c) == PRF(c.neg.master, e, Transcript(c))

\* The messages ssl_read_record may bring e's parser in its present state.
Awaits(e) ==
  LET c == ctx[e]
      Ordinary ==
        IF e = "client"
        THEN [SERVER_HELLO |-> {"ServerHello"},
              SERVER_CERTIFICATE |-> {"Certificate"},
              SERVER_KEY_EXCHANGE |-> IF c.neg.suite \in DHE THEN {"ServerKeyExchange"} ELSE {},
              CERTIFICATE_REQUEST |-> HandshakeMessages,
              SERVER_HELLO_DONE |-> IF c.auth THEN {"ServerHelloDone"} ELSE {},
              SERVER_CHANGE_CIPHER_SPEC |-> {"ChangeCipherSpec"},
              SERVER_FINISHED |-> {"Finished"},
              HANDSHAKE_OVER |-> {"Data"}]
        ELSE [CLIENT_HELLO |-> IF c.reneg THEN {} ELSE {"ClientHello"},
              CLIENT_CERTIFICATE |-> IF conf.sauth = "NONE" THEN {}
                                     ELSE IF c.minor = 0 THEN {"Certificate", "NoCertificate"}
                                     ELSE {"Certificate"},
              CLIENT_KEY_EXCHANGE |-> {"ClientKeyExchange"},
              CERTIFICATE_VERIFY |-> IF c.neg.peer = None THEN {} ELSE {"CertificateVerify"},
              CLIENT_CHANGE_CIPHER_SPEC |-> {"ChangeCipherSpec"},
              CLIENT_FINISHED |-> {"Finished"},
              HANDSHAKE_OVER |-> {"Data", "ClientHello"}]
  IN  IF c.state \in DOMAIN Ordinary THEN Ordinary[c.state] ELSE {}

\* e's parser runs under the key of its handshake once it expects Finished.
ReadKey(e) ==
  IF Awaits(e) = {"Finished"} THEN InKey(e, ctx[e]) ELSE ctx[e].tin

\* A turn of e's loop begins: ssl_flush_output has nothing left to do.
At(e, s) == ctx[e].state = s /\ ctx[e].end = "no" /\ ctx[e].out = None

\* e's parser is to get message m as the record before it in the stream.
Gets(e, s, ms) ==
  /\ At(e, s)
  /\ net[e] # <<>>
  /\ Head(net[e]).key = ReadKey(e)
  /\ Head(net[e]).body.msg \in ms \cap Awaits(e)

Incoming(e) == Head(net[e]).body

Becomes(e, c) == ctx' = [ctx EXCEPT ![e] = c] /\ net' = net
Consumes(e, c) == ctx' = [ctx EXCEPT ![e] = c] /\ net' = [net EXCEPT ![e] = Tail(@)]

Draws(n) == nonce' = nonce + n

-----------------------------------------------------------------------------
(* The hellos.                                                             *)

\* state HELLO_REQUEST, at both ends
Start(e) ==
  /\ At(e, "HELLO_REQUEST")
  /\ Becomes(e, Advance(ctx[e]))
  /\ UNCHANGED <<envVars, cacheVars, nonce>>

\* ssl_write_client_hello.  A session is offered in the first handshake only.
WriteClientHello ==
  LET c == ctx["client"]
      hello == [msg |-> "ClientHello", max |-> c.max, random |-> nonce,
                id |-> IF c.reneg \/ ~c.resume THEN None ELSE c.neg.id,
                suites |-> conf.csuites,
                info |-> IF c.reneg THEN <<c.own>> ELSE <<>>]
  IN  /\ At("client", "CLIENT_HELLO")
      /\ Becomes("client",
           Sent([Advance(c) EXCEPT !.minor = IF c.reneg THEN @ ELSE conf.cmin,
                                   !.rc = nonce], hello))
      /\ Draws(1)
      /\ UNCHANGED <<envVars, cacheVars>>

\* Defect: only the server's favourite is tried.
ChosenFavourite(h, minor) ==
  IF conf.ssuites[minor][1] \in h.suites THEN conf.ssuites[minor][1] ELSE None

\* The server's order of preference decides.
Chosen(h, minor) ==
  LET list == conf.ssuites[minor]
      both == {i \in 1..Len(list) : list[i] \in h.suites}
  IN  IF both = {} THEN None ELSE list[First(both)]

\* ssl_parse_client_hello.  A renegotiation's hello is in in_msg already.
ParseClientHello ==
  LET c == ctx["server"]
      h == IF c.reneg THEN c.msg ELSE Incoming("server")
      minor == IF h.max <= 3 THEN h.max ELSE 3
      read == [Hashed(c, h) EXCEPT !.msg = h, !.minor = minor]
      suite == Chosen(h, minor)
      taken == [read EXCEPT !.max = h.max, !.rc = h.random,
                            !.neg.id = h.id, !.neg.suite = suite]
      next == CASE minor < conf.smin -> Abort(read, "version")
                [] minor >= conf.smin /\ suite = None -> Fail(taken, "nocipher")
                [] minor >= conf.smin /\ suite # None /\ c.reneg /\ h.info # <<c.peer>>
                     -> Abort(taken, "renegotiation")
                [] OTHER -> Advance(taken)
  IN  /\ At("server", "CLIENT_HELLO")
      /\ \/ c.reneg /\ Becomes("server", next)
         \/ Gets("server", "CLIENT_HELLO", {"ClientHello"}) /\ Consumes("server", next)
      /\ UNCHANGED <<envVars, cacheVars, nonce>>

\* ssl_write_server_hello.  A session of the cache puts the server's
\* ChangeCipherSpec first; otherwise a new session id is drawn.
WriteServerHello ==
  LET c == [ctx["server"] EXCEPT !.rs = nonce]
      resumes == ~c.reneg /\ Matches(c.neg) # {}
      next == IF resumes
              THEN Derived([c EXCEPT !.resume = TRUE, !.neg = Restored(c.neg),
                                     !.state = "SERVER_CHANGE_CIPHER_SPEC"])
              ELSE [Advance(c) EXCEPT !.resume = FALSE, !.neg.id = nonce + 1]
      hello == [msg |-> "ServerHello", minor |-> c.minor, random |-> nonce,
                id |-> next.neg.id, suite |-> next.neg.suite,
                info |-> IF c.reneg THEN <<c.peer, c.own>> ELSE <<>>]
  IN  /\ At("server", "SERVER_HELLO")
      /\ Becomes("server", Sent(next, hello))
      /\ Draws(2)
      /\ UNCHANGED <<envVars, cacheVars>>

\* What is wrong with a ServerHello, "no" for nothing.
HelloError(c, h) ==
  CASE h.minor > c.max -> "hello"
    [] h.minor <= c.max /\ h.minor < conf.cmin -> "version"
    [] h.minor \in conf.cmin..c.max /\ h.suite \notin conf.csuites -> "nocipher"
    [] h.minor \in conf.cmin..c.max /\ h.suite \in conf.csuites
         /\ c.reneg /\ h.info # <<c.own, c.peer>> -> "renegotiation"
    [] OTHER -> "no"

\* ssl_parse_server_hello, when it refuses: the alert goes with two of the errors.
RefuseServerHello ==
  LET c == Received(ctx["client"], Incoming("client"))
      error == HelloError(c, c.msg)
  IN  /\ Gets("client", "SERVER_HELLO", {"ServerHello"})
      /\ error # "no"
      /\ Consumes("client", IF error \in {"version", "renegotiation"} THEN Abort(c, error)
                            ELSE Fail(c, error))
      /\ UNCHANGED <<envVars, cacheVars, nonce>>

\* ssl_parse_server_hello.  The session the client has offered is resumed when
\* id and suite are its own.
ParseServerHello ==
  LET h == Incoming("client")
      c == [Received(ctx["client"], h) EXCEPT !.minor = h.minor, !.rs = h.random]
      resumes == /\ ~c.reneg /\ c.resume
                 /\ c.neg.id = h.id /\ c.neg.suite = h.suite
  IN  /\ Gets("client", "SERVER_HELLO", {"ServerHello"})
      /\ HelloError(c, h) = "no"
      /\ Consumes("client",
           IF resumes THEN Derived([c EXCEPT !.state = "SERVER_CHANGE_CIPHER_SPEC"])
           ELSE [Advance(c) EXCEPT !.resume = FALSE, !.neg.id = h.id, !.neg.suite = h.suite])
      /\ UNCHANGED <<envVars, cacheVars, nonce>>

-----------------------------------------------------------------------------
(* Certificates and keys.                                                  *)

CertificateState(e) == IF e = "client" THEN "CLIENT_CERTIFICATE" ELSE "SERVER_CERTIFICATE"

\* ssl_write_certificate.  A client without a certificate sends an empty
\* list, or a warning in SSL 3.0.
WriteCertificate(e) ==
  LET c == ctx[e]
      m == IF e = "client" /\ Own(e) = None /\ c.minor = 0
           THEN [msg |-> "NoCertificate"]
           ELSE [msg |-> "Certificate", cert |-> Own(e)]
  IN  /\ At(e, CertificateState(e))
      /\ Becomes(e, CASE e = "client" /\ ~c.auth -> Advance(c)
                      [] e = "server" /\ Own(e) = None -> Fail(c, "nocert")
                      [] OTHER -> Sent(Advance(c), m))
      /\ UNCHANGED <<envVars, cacheVars, nonce>>

\* ssl_parse_certificate at a server that asks for none
SkipCertificate ==
  /\ At("server", "CLIENT_CERTIFICATE")
  /\ conf.sauth = "NONE"
  /\ Becomes("server", [Advance(ctx["server"]) EXCEPT !.verify = "skipped"])
  /\ UNCHANGED <<envVars, cacheVars, nonce>>

\* ssl_parse_certificate.  No alert tells the peer why the handshake ends.
ParseCertificate(e) ==
  LET m == Incoming(e)
      c == Advance(Received(ctx[e], m))
      cert == IF m.msg = "NoCertificate" THEN None ELSE m.cert
      checked == IF Auth(e) = "NONE" THEN c.verify
                 ELSE IF cert = None THEN "missing" ELSE IF cert.ok THEN "ok" ELSE "bad"
      next == [c EXCEPT !.verify = checked, !.neg.peer = IF cert = None THEN @ ELSE cert]
  IN  /\ Gets(e, CertificateState(Other(e)), {"Certificate", "NoCertificate"})
      /\ Consumes(e, IF Auth(e) = "REQUIRED" /\ checked # "ok"
                     THEN Fail(next, "badcert") ELSE next)
      /\ UNCHANGED <<envVars, cacheVars, nonce>>

\* ssl_write_server_key_exchange: the parameters of DHE, signed with both randoms.
WriteServerKeyExchange ==
  LET c == ctx["server"]
      m == [msg |-> "ServerKeyExchange", dh |-> nonce,
            signed |-> <<c.rc, c.rs, nonce>>, by |-> conf.scert]
  IN  /\ At("server", "SERVER_KEY_EXCHANGE")
      /\ IF c.neg.suite \in DHE
         THEN Becomes("server", Sent([Advance(c) EXCEPT !.dh = nonce], m)) /\ Draws(1)
         ELSE Becomes("server", Advance(c)) /\ Draws(0)
      /\ UNCHANGED <<envVars, cacheVars>>

\* ssl_parse_server_key_exchange
ParseServerKeyExchange ==
  LET m == Incoming("client")
      c == Advance(Received(ctx["client"], m))
  IN  /\ \/ /\ Gets("client", "SERVER_KEY_EXCHANGE", {"ServerKeyExchange"})
            /\ Consumes("client",
                 IF m.signed = <<c.rc, c.rs, m.dh>> /\ m.by = c.neg.peer
                 THEN [c EXCEPT !.dh = m.dh] ELSE Fail(c, "signature"))
         \/ /\ At("client", "SERVER_KEY_EXCHANGE")
            /\ ctx["client"].neg.suite \notin DHE
            /\ Becomes("client", Advance(ctx["client"]))
      /\ UNCHANGED <<envVars, cacheVars, nonce>>

\* ssl_write_certificate_request
WriteCertificateRequest ==
  LET c == Advance(ctx["server"])
  IN  /\ At("server", "CERTIFICATE_REQUEST")
      /\ Becomes("server", IF conf.sauth = "NONE" THEN c
                           ELSE Sent(c, [msg |-> "CertificateRequest"]))
      /\ UNCHANGED <<envVars, cacheVars, nonce>>

\* ssl_parse_certificate_request.  Any other message stays for the next turn.
ParseCertificateRequest ==
  LET m == Incoming("client")
  IN  /\ Gets("client", "CERTIFICATE_REQUEST", HandshakeMessages)
      /\ Consumes("client", [Advance(Received(ctx["client"], m)) EXCEPT
                                !.auth = m.msg = "CertificateRequest"])
      /\ UNCHANGED <<envVars, cacheVars, nonce>>

\* ssl_write_server_hello_done
WriteServerHelloDone ==
  /\ At("server", "SERVER_HELLO_DONE")
  /\ Becomes("server", Sent(Advance(ctx["server"]), [msg |-> "ServerHelloDone"]))
  /\ UNCHANGED <<envVars, cacheVars, nonce>>

\* Defect: the message already read is not looked at.
ParseServerHelloDoneReads ==
  /\ Gets("client", "SERVER_HELLO_DONE", {"ServerHelloDone"})
  /\ Consumes("client", Advance(Received(ctx["client"], Incoming("client"))))
  /\ UNCHANGED <<envVars, cacheVars, nonce>>

\* ssl_parse_server_hello_done reads only behind a CertificateRequest.
ParseServerHelloDone ==
  LET c == ctx["client"]
  IN  /\ \/ /\ Gets("client", "SERVER_HELLO_DONE", {"ServerHelloDone"})
            /\ Consumes("client", Advance(Received(c, Incoming("client"))))
         \/ /\ At("client", "SERVER_HELLO_DONE") /\ ~c.auth
            /\ Becomes("client", IF c.msg.msg = "ServerHelloDone" THEN Advance(c)
                                 ELSE Fail(c, "unexpected"))
      /\ UNCHANGED <<envVars, cacheVars, nonce>>

\* ssl_write_client_key_exchange: the other half of DHE, or a premaster secret
\* of the client that names the version it has offered.
WriteClientKeyExchange ==
  LET c == ctx["client"]
      agrees == c.neg.suite \in DHE
      secret == IF agrees THEN <<c.dh, nonce>> ELSE <<c.max, nonce>>
      m == [msg |-> "ClientKeyExchange",
            half |-> IF agrees THEN nonce ELSE None,
            sealed |-> IF agrees THEN None ELSE <<c.neg.peer, secret>>]
  IN  /\ At("client", "CLIENT_KEY_EXCHANGE")
      /\ Becomes("client", Sent(Derived([Advance(c) EXCEPT !.premaster = secret]), m))
      /\ Draws(1)
      /\ UNCHANGED <<envVars, cacheVars>>

\* ssl_parse_client_key_exchange.  A premaster secret that cannot be opened, or
\* names another version, is replaced by a random one.
ParseClientKeyExchange ==
  LET m == Incoming("server")
      c == Advance(Received(ctx["server"], m))
      opens == m.sealed # None /\ m.sealed[1] = conf.scert /\ m.sealed[2][1] = c.max
      secret == IF c.neg.suite \in DHE THEN <<c.dh, m.half>>
                ELSE IF opens THEN m.sealed[2] ELSE <<None, nonce>>
  IN  /\ Gets("server", "CLIENT_KEY_EXCHANGE", {"ClientKeyExchange"})
      /\ Consumes("server", Derived([c EXCEPT !.premaster = secret]))
      /\ Draws(IF c.neg.suite \in DHE \/ opens THEN 0 ELSE 1)
      /\ UNCHANGED <<envVars, cacheVars>>

\* ssl_write_certificate_verify: the transcript so far, signed.
WriteCertificateVerify ==
  LET c == ctx["client"]
      m == [msg |-> "CertificateVerify", signed |-> Transcript(c), by |-> Own("client")]
  IN  /\ At("client", "CERTIFICATE_VERIFY")
      /\ Becomes("client", IF ~c.auth \/ Own("client") = None THEN Advance(c)
                           ELSE Sent(Advance(c), m))
      /\ UNCHANGED <<envVars, cacheVars, nonce>>

\* ssl_parse_certificate_verify takes the hash before it reads the message.
ParseCertificateVerify ==
  LET c == ctx["server"]
      m == Incoming("server")
      read == Advance(Received(c, m))
  IN  /\ \/ /\ Gets("server", "CERTIFICATE_VERIFY", {"CertificateVerify"})
            /\ Consumes("server", IF m.signed = Transcript(c) /\ m.by = c.neg.peer THEN read
                                  ELSE Fail(read, "signature"))
         \/ /\ At("server", "CERTIFICATE_VERIFY") /\ c.neg.peer = None
            /\ Becomes("server", Advance(c))
      /\ UNCHANGED <<envVars, cacheVars, nonce>>

-----------------------------------------------------------------------------
(* ChangeCipherSpec and Finished: the server's come first when a session is *)
(* resumed.                                                                *)

SpecState(e) == IF e = "client" THEN "CLIENT_CHANGE_CIPHER_SPEC" ELSE "SERVER_CHANGE_CIPHER_SPEC"
FinishedState(e) == IF e = "client" THEN "CLIENT_FINISHED" ELSE "SERVER_FINISHED"

\* ssl_write_change_cipher_spec, still under the old key
WriteChangeCipherSpec(e) ==
  /\ At(e, SpecState(e))
  /\ Becomes(e, Sent(Advance(ctx[e]), [msg |-> "ChangeCipherSpec"]))
  /\ UNCHANGED <<envVars, cacheVars, nonce>>

\* ssl_parse_change_cipher_spec
ParseChangeCipherSpec(e) ==
  /\ Gets(e, SpecState(Other(e)), {"ChangeCipherSpec"})
  /\ Consumes(e, Advance(Received(ctx[e], Incoming(e))))
  /\ UNCHANGED <<envVars, cacheVars, nonce>>

\* Defect: a client is done when it has written its Finished, always.
AfterWritingDone(e, c) == IF e = "client" THEN "HANDSHAKE_WRAPUP"
                          ELSE IF ~c.resume THEN Following(c.state) ELSE "CLIENT_CHANGE_CIPHER_SPEC"

\* Where a handshake goes once e has written or read its second-to-last Finished.
AfterWriting(e, c) == IF ~c.resume THEN Following(c.state)
                      ELSE IF e = "client" THEN "HANDSHAKE_WRAPUP" ELSE "CLIENT_CHANGE_CIPHER_SPEC"
AfterReading(e, c) == IF ~c.resume THEN Following(c.state)
                      ELSE IF e = "client" THEN "CLIENT_CHANGE_CIPHER_SPEC" ELSE "HANDSHAKE_WRAPUP"

\* ssl_write_finished: the first record under the new key
WriteFinished(e) ==
  LET c == ctx[e]
      m == [msg |-> "Finished", hash |-> FinishedBy(e, c)]
  IN  /\ At(e, FinishedState(e))
      /\ Becomes(e, Sent([c EXCEPT !.own = m.hash, !.tout = OutKey(e, c),
                                   !.state = AfterWriting(e, c)], m))
      /\ origin' = IF e = "server" /\ ~c.resume THEN origin \cup {c.neg} ELSE origin
      /\ UNCHANGED <<conf, budget, who, saved, cacheVars, nonce>>

\* Defect: the peer's verify data are not kept.
ParseFinishedForgets(e) ==
  LET m == Incoming(e)
      c == [Received(ctx[e], m) EXCEPT !.tin = InKey(e, ctx[e])]
  IN  /\ Gets(e, FinishedState(Other(e)), {"Finished"})
      /\ m.hash = FinishedBy(Other(e), ctx[e])
      /\ Consumes(e, [c EXCEPT !.state = AfterReading(e, c)])
      /\ UNCHANGED <<envVars, cacheVars, nonce>>

\* ssl_parse_finished: the peer's hash is computed before its message is read.
ParseFinished(e) ==
  LET m == Incoming(e)
      expected == FinishedBy(Other(e), ctx[e])
      c == [Received(ctx[e], m) EXCEPT !.tin = InKey(e, ctx[e])]
  IN  /\ Gets(e, FinishedState(Other(e)), {"Finished"})
      /\ Consumes(e, IF m.hash = expected
                     THEN [c EXCEPT !.peer = expected, !.state = AfterReading(e, c)]
                     ELSE Fail(c, "finished"))
      /\ UNCHANGED <<envVars, cacheVars, nonce>>

\* The turn between the server's last flush and the wrapup
FlushBuffers(e) ==
  /\ At(e, "FLUSH_BUFFERS")
  /\ Becomes(e, Advance(ctx[e]))
  /\ UNCHANGED <<envVars, cacheVars, nonce>>

\* ssl_handshake_wrapup: the session becomes the active one, and the server
\* puts it into its cache, a resumed one again.
Wrapup(e) ==
  LET c == ctx[e]
  IN  /\ At(e, "HANDSHAKE_WRAPUP")
      /\ Becomes(e, HandshakeInit([Advance(c) EXCEPT !.ses = c.neg]))
      /\ IF e = "server"
         THEN Put(c.neg) ELSE UNCHANGED chain
      /\ UNCHANGED <<envVars, nonce, now>>

-----------------------------------------------------------------------------
(* Records that end a connection, and the connection itself.               *)

\* ssl_flush_output lets go of the record, also of a failing call's alert.
Flush(e) ==
  /\ ctx[e].out # None
  /\ ctx' = [ctx EXCEPT ![e].out = None]
  /\ net' = [net EXCEPT ![Other(e)] = Append(@, ctx[e].out)]
  /\ UNCHANGED <<envVars, cacheVars, nonce>>

\* ssl_read_record or the parser turns a record down.
RefuseRecord(e) ==
  LET c == ctx[e]
      r == Head(net[e])
  IN  /\ At(e, c.state) /\ Awaits(e) # {} /\ net[e] # <<>>
      /\ \/ r.key # ReadKey(e) /\ Consumes(e, Abort(c, "mac"))
         \/ /\ r.key = ReadKey(e) /\ r.body.msg \notin Awaits(e)
            /\ Consumes(e, Fail(c, IF r.body.msg = "Fatal" THEN "alert" ELSE "unexpected"))
      /\ UNCHANGED <<envVars, cacheVars, nonce>>

\* The peer's application has closed the connection.
Eof(e) ==
  /\ At(e, ctx[e].state) /\ Awaits(e) # {} /\ net[e] = <<>>
  /\ ctx[Other(e)].end # "no"
  /\ Becomes(e, Fail(ctx[e], "eof"))
  /\ UNCHANGED <<envVars, cacheVars, nonce>>

Spend(b) == budget[b] > 0 /\ budget' = [budget EXCEPT ![b] = @ - 1]

\* The socket breaks.
Lose(e) ==
  /\ ctx[e].end = "no"
  /\ Spend("losses")
  /\ Becomes(e, Fail(ctx[e], "lost"))
  /\ UNCHANGED <<conf, who, saved, origin, cacheVars, nonce>>

-----------------------------------------------------------------------------
(* The applications.                                                       *)

\* ssl_write
WriteData(e) ==
  /\ At(e, "HANDSHAKE_OVER")
  /\ Spend("data")
  /\ Becomes(e, Sent(ctx[e], [msg |-> "Data"]))
  /\ UNCHANGED <<conf, who, saved, origin, cacheVars, nonce>>

\* ssl_read
ReadData(e) ==
  /\ Gets(e, "HANDSHAKE_OVER", {"Data"})
  /\ Consumes(e, Received(ctx[e], Incoming(e)))
  /\ UNCHANGED <<envVars, cacheVars, nonce>>

\* The first half of ssl_renegotiate
Renegotiating(c) == HandshakeInit([c EXCEPT !.state = "HELLO_REQUEST", !.reneg = TRUE])

\* ssl_read at a server that gets a ClientHello
ReadHello ==
  LET c == Received(ctx["server"], Incoming("server"))
  IN  /\ Gets("server", "HANDSHAKE_OVER", {"ClientHello"})
      /\ Consumes("server", IF conf.renegotiates THEN Renegotiating(c)
                            ELSE Sent(c, [msg |-> "NoRenegotiation"]))
      /\ UNCHANGED <<envVars, cacheVars, nonce>>

\* ssl_renegotiate at the client
Renegotiate ==
  /\ At("client", "HANDSHAKE_OVER")
  /\ Spend("renegotiations")
  /\ Becomes("client", Renegotiating(ctx["client"]))
  /\ UNCHANGED <<conf, who, saved, origin, cacheVars, nonce>>

\* The application is done; a client keeps its session for the next time.
Close(e) ==
  /\ At(e, "HANDSHAKE_OVER")
  /\ Becomes(e, Fail(ctx[e], "closed"))
  /\ saved' = IF e = "client" THEN [saved EXCEPT ![who] = ctx[e].ses] ELSE saved
  /\ UNCHANGED <<conf, budget, who, origin, cacheVars, nonce>>

\* The server resets its context for the client that comes next, which may
\* set the session it has kept (ssl_set_session).
Connect(c) ==
  /\ \A e \in End : ctx[e].end # "no"
  /\ Spend("connections")
  /\ who' = c
  /\ \E offers \in BOOLEAN :
       /\ offers => saved[c] # None
       /\ ctx' = [client |-> [New EXCEPT !.resume = offers, !.max = conf.max,
                                         !.neg = IF offers THEN saved[c] ELSE @],
                  server |-> Reset(ctx["server"])]
  /\ net' = [e \in End |-> <<>>]
  /\ UNCHANGED <<conf, saved, origin, cacheVars, nonce>>

Tick ==
  /\ Spend("ticks")
  /\ now' = now + 1
  /\ UNCHANGED <<conf, who, ctx, net, saved, nonce, origin, chain>>

-----------------------------------------------------------------------------
Init ==
  /\ conf \in Config
  /\ budget = [b \in {"connections", "renegotiations", "losses", "ticks", "data"} |-> conf[b]]
  /\ who = None
  /\ ctx = [e \in End |-> Fail(New, "closed")]
  /\ net = [e \in End |-> <<>>]
  /\ saved = [c \in Client |-> None]
  /\ nonce = 1 /\ origin = {}
  /\ chain = <<>> /\ now = 1

\* One turn of ssl_handshake or ssl_read
ClientTurn ==
  \/ WriteClientHello \/ RefuseServerHello \/ ParseServerHello
  \/ ParseServerKeyExchange \/ ParseCertificateRequest \/ ParseServerHelloDone
  \/ WriteClientKeyExchange \/ WriteCertificateVerify

ServerTurn ==
  \/ ParseClientHello \/ WriteServerHello \/ SkipCertificate
  \/ WriteServerKeyExchange \/ WriteCertificateRequest \/ WriteServerHelloDone
  \/ ParseClientKeyExchange \/ ParseCertificateVerify \/ ReadHello

CommonTurn(e) ==
  \/ Start(e) \/ WriteCertificate(e) \/ ParseCertificate(e)
  \/ WriteChangeCipherSpec(e) \/ ParseChangeCipherSpec(e)
  \/ WriteFinished(e) \/ ParseFinished(e) \/ FlushBuffers(e) \/ Wrapup(e)
  \/ Flush(e) \/ RefuseRecord(e) \/ Eof(e) \/ ReadData(e)

Turn(e) == CommonTurn(e) \/ (e = "client" /\ ClientTurn) \/ (e = "server" /\ ServerTurn)

Application(e) == WriteData(e) \/ Close(e) \/ Lose(e)

Next == \/ \E e \in End : Turn(e) \/ Application(e)
        \/ \E c \in Client : Connect(c)
        \/ Renegotiate \/ Tick

Spec == Init /\ [][Next]_vars

\* The applications call again after WANT_READ and WANT_WRITE, and read: as
\* long as an end can go on, one of them does.
FairSpec == Spec /\ WF_vars(\E e \in End : Turn(e))

-----------------------------------------------------------------------------
TypeOK ==
  /\ conf \in Config /\ who \in Client \cup {None}
  /\ nonce \in Nat /\ now \in Nat
  /\ \A e \in End :
       /\ ctx[e].state \in {States[i] : i \in 1..17}
       /\ ctx[e].end \in Reasons
       /\ ctx[e].minor \in Version
       /\ \A i \in 1..Len(net[e]) : net[e][i].body.msg \in Messages
  /\ \A c \in Client : saved[c] = None \/ DOMAIN saved[c] = DOMAIN NewSession
  /\ CacheBounded

Over(e) == ctx[e].state = "HANDSHAKE_OVER"

\* When both ends have completed a handshake they agree on everything it
\* negotiates (ssl_handshake_wrapup): version, session and the keys of both
\* directions, whichever way the handshake went.
Agreement ==
  Over("client") /\ Over("server") /\ who # None =>
    LET c == ctx["client"]
        s == ctx["server"]
    IN  /\ c.minor = s.minor
        /\ \A f \in {"id", "suite", "master"} : c.ses[f] = s.ses[f]
        /\ c.tin = s.tout /\ c.tout = s.tin
        /\ c.own = s.peer /\ c.peer = s.own

\* Two ends of this library never refuse each other's records, signatures or
\* Finished messages, nor the renegotiation info: their keys change at the same
\* record, and their transcripts stay the same.
NeverOutOfStep ==
  \A e \in End : ctx[e].end \notin {"mac", "signature", "finished", "renegotiation"}

\* An end that requires a certificate completes no handshake without having
\* verified one of the peer it is connected to, be it in this handshake or in
\* the one that made the session it resumes.
PeerIsVerified ==
  \A e \in End : Over(e) /\ Auth(e) = "REQUIRED" /\ who # None =>
    /\ ctx[e].ses.peer = Own(Other(e))
    /\ ctx[e].ses.peer.ok

\* No end believes a first handshake complete that the other has rejected.
RejectedByBoth ==
  \A e \in End : ctx[e].end \in {"version", "nocipher", "hello", "nocert", "badcert"}
    => ctx[e].ses # None \/ ctx[Other(e)].ses = None

\* What the cache and the clients keep are sessions the server has negotiated,
\* with the master secret of their id.
Negotiated(s) == \E o \in origin : o.id = s.id /\ o.suite = s.suite /\ o.master = s.master

SessionsAreNegotiated ==
  /\ \A i \in 1..Len(chain) : Negotiated(chain[i])
  /\ \A c \in Client : saved[c] = None \/ Negotiated(saved[c])

\* A resumed session has the peer's certificate of the handshake that made it
\* (ssl_cache_get: "Restore peer certificate").
PeerIsRestored ==
  who # None /\ ctx["server"].ses # None =>
    \E o \in origin : o.id = ctx["server"].ses.id /\ o.peer = ctx["server"].ses.peer

\* Each handshake ends: completed, refused, or with the connection.
HandshakeEnds ==
  (\E e \in End : ctx[e].end = "no" /\ ~Over(e))
    ~> (\A e \in End : ctx[e].end # "no" \/ Over(e))

\* The settings let the two ends connect.
Compatible(c) ==
  /\ conf.max >= conf.smin /\ conf.max >= conf.cmin
  /\ \E i \in 1..Len(conf.ssuites[conf.max]) : conf.ssuites[conf.max][i] \in conf.csuites
  /\ conf.scert # None
  /\ conf.cauth = "REQUIRED" => conf.scert.ok
  /\ conf.sauth = "REQUIRED" => conf.ccert[c] # None /\ conf.ccert[c].ok

\* Ends whose settings fit complete their first handshake unless the
\* connection breaks.
CompatibleConnect ==
  (who # None /\ Compatible(who) /\ \A e \in End : ctx[e].end = "no")
    ~> ((\A e \in End : ctx[e].ses # None) \/ \E e \in End : ctx[e].end = "lost")

=============================================================================

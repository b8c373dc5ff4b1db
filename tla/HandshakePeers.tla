---------------------------- MODULE HandshakePeers ----------------------------
(***************************************************************************)
(* What an end knows of its peer when a handshake is over: Handshake's types, *)
(* that no one believes in a handshake the other has refused, that a          *)
(* certificate that is required has been verified, and that both ends hold    *)
(* the keys of the same handshake.                                          *)
(***************************************************************************)
EXTENDS HandshakeProofs

-----------------------------------------------------------------------------
(* The fields of a context, and which of them an operator changes           *)

Fields == {"state", "minor", "max", "reneg", "own", "peer", "ses", "neg", "resume",
  "rc", "rs", "dh", "premaster", "sum", "tneg", "tin", "tout", "auth", "verify",
  "out", "msg", "end"}
SessionFields == {"id", "suite", "master", "peer"}

Context(c) == DOMAIN c = Fields /\ DOMAIN c.neg = SessionFields

\* d is c but for the fields in F.
Same(c, d, F) == Context(d) /\ \A f \in Fields \ F : d[f] = c[f]

\* The transcript behind message m.
With(s, m) == IF m.msg \in HandshakeMessages THEN Append(s, m) ELSE s

\* state++ changes the state.
LEMMA AdvanceIs ==
  ASSUME NEW c, Context(c)
  PROVE  Same(c, Advance(c), {"state"}) /\ Advance(c).state = Following(c.state)
  BY DEF Same, Context, Advance, Fields

\* An end that gives up.
LEMMA FailIs ==
  ASSUME NEW c, Context(c), NEW why
  PROVE  Same(c, Fail(c, why), {"end"}) /\ Fail(c, why).end = why
  BY DEF Same, Context, Fail, Fields

\* The transcript takes in a message of the handshake.
LEMMA HashedIs ==
  ASSUME NEW c, Context(c), NEW m
  PROVE  Same(c, Hashed(c, m), {"sum"}) /\ Hashed(c, m).sum = With(c.sum, m)
  BY DEF Same, Context, Hashed, Fields, With

\* A message is in out_msg.
LEMMA SentIs ==
  ASSUME NEW c, Context(c), NEW m
  PROVE  /\ Same(c, Sent(c, m), {"sum", "out"})
         /\ Sent(c, m).out = [key |-> c.tout, body |-> m]
         /\ Sent(c, m).sum = With(c.sum, m)
<1>1. PICK h : h = Hashed(c, m)
      OBVIOUS
<1>2. Same(c, h, {"sum"}) /\ h.sum = With(c.sum, m)
      BY <1>1, HashedIs
<1>3. Sent(c, m) = [h EXCEPT !.out = [key |-> c.tout, body |-> m]]
      BY <1>1 DEF Sent
<1> QED
  BY <1>2, <1>3 DEF Same, Context, Fields

\* So is one that the transcript takes in.
LEMMA SentMessageIs ==
  ASSUME NEW c, Context(c), NEW m, m.msg \in HandshakeMessages
  PROVE  /\ Same(c, Sent(c, m), {"sum", "out"})
         /\ Sent(c, m).out = [key |-> c.tout, body |-> m]
         /\ Sent(c, m).sum = Append(c.sum, m)
<1>1. With(c.sum, m) = Append(c.sum, m)
      BY DEF With
<1> QED
  BY <1>1, SentIs

\* An alert goes out, and the end gives up.
LEMMA AbortIs ==
  ASSUME NEW c, Context(c), NEW why
  PROVE  /\ Same(c, Abort(c, why), {"end", "out"})
         /\ Abort(c, why).out = [key |-> c.tout, body |-> [msg |-> "Fatal"]]
         /\ Abort(c, why).end = why
<1>1. PICK f, m : f = Fail(c, why) /\ m = [msg |-> "Fatal"]
      OBVIOUS
<1>2. Same(c, f, {"end"}) /\ f.end = why
      BY <1>1, FailIs
<1>3. Context(f) /\ f.tout = c.tout /\ f.sum = c.sum
      BY <1>2 DEF Same, Fields
<1>4. With(f.sum, m) = f.sum
      BY <1>1 DEF With, HandshakeMessages
<1>5. /\ Same(f, Sent(f, m), {"sum", "out"})
      /\ Sent(f, m).out = [key |-> f.tout, body |-> m]
      /\ Sent(f, m).sum = f.sum
      BY <1>3, <1>4, SentIs
<1>6. Abort(c, why) = Sent(f, m)
      BY <1>1 DEF Abort
<1> QED
  BY <1>1, <1>2, <1>3, <1>5, <1>6 DEF Same, Fields

\* A message is in in_msg.
LEMMA ReceivedIs ==
  ASSUME NEW c, Context(c), NEW m
  PROVE  /\ Same(c, Received(c, m), {"sum", "msg"})
         /\ Received(c, m).msg = m
         /\ Received(c, m).sum = IF c.state = "HANDSHAKE_OVER" THEN c.sum ELSE With(c.sum, m)
<1>1. PICK h : h = IF c.state = "HANDSHAKE_OVER" THEN c ELSE Hashed(c, m)
      OBVIOUS
<1>2. /\ Same(c, h, {"sum"})
      /\ h.sum = IF c.state = "HANDSHAKE_OVER" THEN c.sum ELSE With(c.sum, m)
      BY <1>1, HashedIs DEF Same
<1>3. Received(c, m) = [h EXCEPT !.msg = m]
      BY <1>1 DEF Received
<1> QED
  BY <1>2, <1>3 DEF Same, Context, Fields

\* The master secret and the keys.
LEMMA DerivedIs ==
  ASSUME NEW c, Context(c)
  PROVE  /\ Same(c, Derived(c), {"neg", "tneg", "premaster", "rc", "rs"})
         /\ Derived(c).neg = [c.neg EXCEPT !.master = Master(c)]
         /\ Derived(c).tneg = KeyBlock(c, Master(c))
<1>1. PICK k, b : k = Master(c) /\ b = KeyBlock(c, k)
      OBVIOUS
<1>2. Derived(c) = [c EXCEPT !.neg.master = k, !.tneg = b,
                             !.premaster = None, !.rc = None, !.rs = None]
      BY <1>1 DEF Derived
<1>3. Derived(c).neg = [c.neg EXCEPT !.master = k]
      BY <1>2 DEF Context, Fields
<1>4. DOMAIN Derived(c).neg = SessionFields
      BY <1>3 DEF Context
<1>5. Context(Derived(c))
      BY <1>2, <1>4 DEF Context
<1>6. Same(c, Derived(c), {"neg", "tneg", "premaster", "rc", "rs"})
      BY <1>2, <1>5 DEF Same, Context, Fields
<1>7. Derived(c).tneg = b
      BY <1>2 DEF Context, Fields
<1> QED
  BY <1>1, <1>3, <1>6, <1>7

\* Nothing is left of a handshake.
LEMMA HandshakeInitIs ==
  ASSUME NEW c, DOMAIN c = Fields
  PROVE  /\ Same(c, HandshakeInit(c),
                 {"resume", "rc", "rs", "dh", "premaster", "sum", "neg", "tneg"})
         /\ HandshakeInit(c).resume = FALSE /\ HandshakeInit(c).sum = <<>>
         /\ HandshakeInit(c).neg = NewSession /\ HandshakeInit(c).dh = None
  BY DEF Same, Context, HandshakeInit, Fields, NewSession, SessionFields

-----------------------------------------------------------------------------
(* What each action does, field by field                                     *)

\* A message of one of the kinds; a hello has a version.
MessageOK(m) ==
  /\ m.msg \in Messages
  /\ m.msg = "ClientHello" => m.max \in Version
  /\ m.msg = "ServerHello" => m.minor \in Version

\* The states of a handshake, and those before it is over.
Underway == {"HELLO_REQUEST", "CLIENT_HELLO", "SERVER_HELLO", "SERVER_CERTIFICATE",
  "SERVER_KEY_EXCHANGE", "CERTIFICATE_REQUEST", "SERVER_HELLO_DONE", "CLIENT_CERTIFICATE",
  "CLIENT_KEY_EXCHANGE", "CERTIFICATE_VERIFY", "CLIENT_CHANGE_CIPHER_SPEC",
  "CLIENT_FINISHED", "SERVER_CHANGE_CIPHER_SPEC", "SERVER_FINISHED", "FLUSH_BUFFERS",
  "HANDSHAKE_WRAPUP"}
Named == Underway \cup {"HANDSHAKE_OVER"}

\* A context in a state of the handshake.
ContextOK(e, c) ==
  /\ Context(c) /\ c.state \in Named /\ c.end \in Reasons
  /\ c.minor \in Version /\ c.max \in Version
  /\ c.ses = None \/ DOMAIN c.ses = SessionFields
  /\ c.out # None => MessageOK(c.out.body)
  /\ e = "server" /\ c.reneg /\ c.end = "no" /\ c.state \in {"HELLO_REQUEST", "CLIENT_HELLO"}
       => c.msg.msg = "ClientHello" /\ c.msg.max \in Version

\* Records under way.
RecordsOK(w) == Sequence(w) /\ \A i \in 1..Len(w) : MessageOK(w[i].body)

Typed ==
  /\ conf \in Config /\ who \in Client \cup {None} /\ nonce \in Nat /\ now \in Nat
  /\ DOMAIN ctx = End /\ DOMAIN net = End /\ DOMAIN saved = Client
  /\ \A e \in End : ContextOK(e, ctx[e]) /\ RecordsOK(net[e])
  /\ \A c \in Client : saved[c] = None \/ DOMAIN saved[c] = SessionFields

\* The settings, as far as the types need them.
LEMMA SettingsOK ==
  ASSUME Typed
  PROVE  conf.max \in Version /\ conf.cmin \in Version /\ conf.smin \in Version
  BY ConfigAssumption DEF Typed

\* An end has a context.
LEMMA TypedAt ==
  ASSUME Typed, NEW e \in End
  PROVE  Context(ctx[e]) /\ ContextOK(e, ctx[e])
  BY DEF Typed, ContextOK

\* The record that is to be read next.
LEMMA TypedIncoming ==
  ASSUME Typed, NEW e \in End, net[e] # <<>>
  PROVE  MessageOK(Incoming(e)) /\ Head(net[e]) = net[e][1] /\ 1 \in 1..Len(net[e])
<1>1. RecordsOK(net[e])
      BY DEF Typed
<1>2. Len(net[e]) \in Nat /\ Len(net[e]) >= 1 /\ Head(net[e]) = net[e][1]
  <2>1. PICK S : net[e] \in Seq(S)
        BY <1>1 DEF RecordsOK, Sequence
  <2>2. Len(net[e]) \in Nat
        BY <2>1
  <2> QED
    BY <1>1, <2>2, HeadOf DEF RecordsOK
<1>3. 1 \in 1..Len(net[e])
      BY <1>2
<1> QED
  BY <1>1, <1>2, <1>3 DEF RecordsOK, Incoming

\* The turn before a handshake.
LEMMA StartIs ==
  ASSUME Typed, NEW e \in End, Start(e), NEW c, c = ctx[e]
  PROVE  \E d : /\ At(e, "HELLO_REQUEST") /\ Becomes(e, d)
                /\ Same(c, d, {"state"}) /\ d.state = "CLIENT_HELLO"
<1>1. PICK d : d = Advance(c)
      OBVIOUS
<1>2. Context(c) /\ At(e, "HELLO_REQUEST") /\ Becomes(e, d)
      BY <1>1, TypedAt DEF Start
<1>3. Same(c, d, {"state"}) /\ d.state = Following(c.state)
      BY <1>1, <1>2, AdvanceIs
<1> QED
  BY <1>2, <1>3, ServerStates DEF At

ClientHello(c) ==
  [msg |-> "ClientHello", max |-> c.max, random |-> nonce,
   id |-> IF c.reneg \/ ~c.resume THEN None ELSE c.neg.id,
   suites |-> conf.csuites, info |-> IF c.reneg THEN <<c.own>> ELSE <<>>]

\* The client offers a session, or none.
LEMMA WriteClientHelloIs ==
  ASSUME Typed, WriteClientHello, NEW c, c = ctx["client"]
  PROVE  \E d : /\ At("client", "CLIENT_HELLO") /\ Becomes("client", d)
                /\ Same(c, d, {"state", "minor", "rc", "sum", "out"})
                /\ d.state = "SERVER_HELLO" /\ d.rc = nonce
                /\ d.minor = IF c.reneg THEN c.minor ELSE conf.cmin
                /\ d.sum = Append(c.sum, ClientHello(c))
                /\ d.out = [key |-> c.tout, body |-> ClientHello(c)]
                /\ nonce' = nonce + 1
<1>1. PICK m, a, b, d : /\ m = ClientHello(c) /\ a = Advance(c)
                        /\ b = [a EXCEPT !.minor = IF c.reneg THEN @ ELSE conf.cmin,
                                         !.rc = nonce]
                        /\ d = Sent(b, m)
      OBVIOUS
<1>2. /\ Context(c) /\ At("client", "CLIENT_HELLO") /\ Becomes("client", d)
      /\ nonce' = nonce + 1
      BY <1>1, TypedAt DEF WriteClientHello, ClientHello, Draws, End
<1>3. Same(c, a, {"state"}) /\ a.state = "SERVER_HELLO"
      BY <1>1, <1>2, AdvanceIs, ServerStates DEF At
<1>4. /\ Same(a, b, {"minor", "rc"}) /\ b.rc = nonce
      /\ b.minor = IF c.reneg THEN c.minor ELSE conf.cmin
      BY <1>1, <1>3 DEF Same, Context, Fields
<1>5. Context(b)
      BY <1>4 DEF Same
<1>6. m.msg \in HandshakeMessages /\ d = Sent(b, m)
      BY <1>1 DEF ClientHello, HandshakeMessages
<1>7. /\ Same(b, d, {"sum", "out"}) /\ d.out = [key |-> b.tout, body |-> m]
      /\ d.sum = Append(b.sum, m)
      BY <1>5, <1>6, SentMessageIs
<1>8. /\ Same(c, d, {"state", "minor", "rc", "sum", "out"})
      /\ d.state = a.state /\ d.rc = b.rc /\ d.minor = b.minor
      /\ b.tout = c.tout /\ b.sum = c.sum
      BY <1>3, <1>4, <1>7 DEF Same, Fields
<1> QED
  BY <1>1, <1>2, <1>3, <1>4, <1>7, <1>8

\* What the server makes of a ClientHello: it takes part, or leaves the connection.
HelloRead(c, h, d) ==
  LET minor == IF h.max <= 3 THEN h.max ELSE 3
      suite == Chosen(h, minor)
  IN  \/ /\ minor < conf.smin
         /\ Same(c, d, {"sum", "msg", "minor", "end", "out"})
         /\ d.end = "version" /\ d.minor = minor
         /\ d.out = [key |-> c.tout, body |-> [msg |-> "Fatal"]]
      \/ /\ minor >= conf.smin /\ suite = None
         /\ Same(c, d, {"sum", "msg", "minor", "max", "rc", "neg", "end"})
         /\ d.end = "nocipher" /\ d.minor = minor /\ d.max = h.max
      \/ /\ minor >= conf.smin /\ suite # None /\ c.reneg /\ h.info # <<c.peer>>
         /\ Same(c, d, {"sum", "msg", "minor", "max", "rc", "neg", "end", "out"})
         /\ d.end = "renegotiation" /\ d.minor = minor /\ d.max = h.max
         /\ d.out = [key |-> c.tout, body |-> [msg |-> "Fatal"]]
      \/ /\ minor >= conf.smin /\ suite # None /\ (c.reneg => h.info = <<c.peer>>)
         /\ Same(c, d, {"state", "sum", "msg", "minor", "max", "rc", "neg"})
         /\ d.state = "SERVER_HELLO" /\ d.minor = minor /\ d.max = h.max
         /\ d.rc = h.random /\ d.msg = h /\ d.sum = With(c.sum, h)
         /\ d.neg = [[c.neg EXCEPT !.id = h.id] EXCEPT !.suite = suite]

HelloSeen(c, h, minor) == [Hashed(c, h) EXCEPT !.msg = h, !.minor = minor]
HelloTaken(c, h, minor, suite) ==
  [HelloSeen(c, h, minor) EXCEPT !.max = h.max, !.rc = h.random,
                                 !.neg.id = h.id, !.neg.suite = suite]

Noted(c, h, minor, suite, r, t) ==
  /\ Same(c, r, {"sum", "msg", "minor"}) /\ r.minor = minor
  /\ Same(c, t, {"sum", "msg", "minor", "max", "rc", "neg"})
  /\ t.sum = With(c.sum, h) /\ t.msg = h /\ t.minor = minor /\ t.max = h.max
  /\ t.rc = h.random
  /\ t.neg = [[c.neg EXCEPT !.id = h.id] EXCEPT !.suite = suite]

\* What the server has noted of a ClientHello.
LEMMA HelloTakenIs ==
  ASSUME NEW c, Context(c), NEW h, NEW minor, NEW suite
  PROVE  Noted(c, h, minor, suite, HelloSeen(c, h, minor), HelloTaken(c, h, minor, suite))
<1> SUFFICES ASSUME NEW r, r = HelloSeen(c, h, minor),
                    NEW t, t = HelloTaken(c, h, minor, suite)
             PROVE  Noted(c, h, minor, suite, r, t)
      OBVIOUS
<1>1. PICK x : x = Hashed(c, h)
      OBVIOUS
<1>2. Same(c, x, {"sum"}) /\ x.sum = With(c.sum, h)
      BY <1>1, HashedIs
<1>3. r = [x EXCEPT !.msg = h, !.minor = minor]
      BY <1>1 DEF HelloSeen
<1>4. /\ Same(c, r, {"sum", "msg", "minor"}) /\ r.sum = With(c.sum, h) /\ r.msg = h
      /\ r.minor = minor
      BY <1>2, <1>3 DEF Same, Context, Fields
<1>5. t = [r EXCEPT !.max = h.max, !.rc = h.random, !.neg.id = h.id, !.neg.suite = suite]
      BY DEF HelloTaken
<1>6. t.neg = [[c.neg EXCEPT !.id = h.id] EXCEPT !.suite = suite] /\ DOMAIN t = Fields
  <2>1. {"neg", "max", "rc"} \subseteq DOMAIN r /\ DOMAIN r = Fields /\ r.neg = c.neg
        BY <1>4 DEF Same, Context, Fields
  <2>2. DOMAIN t = DOMAIN r /\ t.neg = [[r.neg EXCEPT !.id = h.id] EXCEPT !.suite = suite]
        BY ONLY <1>5, <2>1
  <2> QED
    BY <2>1, <2>2
<1>7. DOMAIN t.neg = DOMAIN c.neg
      BY <1>6
<1>8. /\ Same(c, t, {"sum", "msg", "minor", "max", "rc", "neg"})
      /\ t.sum = With(c.sum, h) /\ t.msg = h /\ t.minor = minor /\ t.max = h.max
      /\ t.rc = h.random
      BY <1>4, <1>5, <1>6, <1>7 DEF Same, Context, Fields
<1> QED
  BY <1>4, <1>6, <1>8 DEF Noted

\* ssl_parse_client_hello of a message, without the record it came in.
LEMMA HelloReadIs ==
  ASSUME NEW c, Context(c), c.state = "CLIENT_HELLO", NEW h, NEW minor, NEW suite,
         minor = IF h.max <= 3 THEN h.max ELSE 3, suite = Chosen(h, minor),
         NEW r, r = HelloSeen(c, h, minor), NEW t, t = HelloTaken(c, h, minor, suite),
         NEW d,
         \/ minor < conf.smin /\ d = Abort(r, "version")
         \/ minor >= conf.smin /\ suite = None /\ d = Fail(t, "nocipher")
         \/ minor >= conf.smin /\ suite # None /\ c.reneg /\ h.info # <<c.peer>>
              /\ d = Abort(t, "renegotiation")
         \/ minor >= conf.smin /\ suite # None /\ (c.reneg => h.info = <<c.peer>>)
              /\ d = Advance(t)
  PROVE  HelloRead(c, h, d)
<1>0. Noted(c, h, minor, suite, r, t)
      BY HelloTakenIs, Zenon
<1>1. /\ Same(c, r, {"sum", "msg", "minor"}) /\ r.minor = minor
      /\ Same(c, t, {"sum", "msg", "minor", "max", "rc", "neg"})
      /\ t.sum = With(c.sum, h) /\ t.msg = h /\ t.minor = minor /\ t.max = h.max
      /\ t.rc = h.random
      /\ t.neg = [[c.neg EXCEPT !.id = h.id] EXCEPT !.suite = suite]
      BY ONLY <1>0 DEF Noted
<1>2. /\ Context(r) /\ Context(t) /\ r.tout = c.tout /\ t.tout = c.tout
      /\ t.state = "CLIENT_HELLO"
      BY <1>1 DEF Same, Fields
<1>3. CASE minor < conf.smin /\ d = Abort(r, "version")
  <2>1. /\ Same(r, d, {"end", "out"}) /\ d.end = "version"
        /\ d.out = [key |-> r.tout, body |-> [msg |-> "Fatal"]]
        BY <1>2, <1>3, AbortIs
  <2>2. Same(c, d, {"sum", "msg", "minor", "end", "out"}) /\ d.minor = minor
        BY <1>1, <2>1 DEF Same, Fields
  <2> QED
    BY <1>2, <1>3, <2>1, <2>2 DEF HelloRead
<1>4. CASE minor >= conf.smin /\ suite = None /\ d = Fail(t, "nocipher")
  <2>1. Same(t, d, {"end"}) /\ d.end = "nocipher"
        BY <1>2, <1>4, FailIs
  <2>2. /\ Same(c, d, {"sum", "msg", "minor", "max", "rc", "neg", "end"})
        /\ d.minor = minor /\ d.max = h.max
        BY <1>1, <2>1 DEF Same, Fields
  <2> QED
    BY <1>4, <2>1, <2>2 DEF HelloRead
<1>5. CASE /\ minor >= conf.smin /\ suite # None /\ c.reneg /\ h.info # <<c.peer>>
           /\ d = Abort(t, "renegotiation")
  <2>1. /\ Same(t, d, {"end", "out"}) /\ d.end = "renegotiation"
        /\ d.out = [key |-> t.tout, body |-> [msg |-> "Fatal"]]
        BY <1>2, <1>5, AbortIs
  <2>2. /\ Same(c, d, {"sum", "msg", "minor", "max", "rc", "neg", "end", "out"})
        /\ d.minor = minor /\ d.max = h.max
        BY <1>1, <2>1 DEF Same, Fields
  <2> QED
    BY <1>2, <1>5, <2>1, <2>2 DEF HelloRead
<1>6. CASE /\ minor >= conf.smin /\ suite # None /\ (c.reneg => h.info = <<c.peer>>)
           /\ d = Advance(t)
  <2>1. Same(t, d, {"state"}) /\ d.state = Following(t.state)
        BY <1>2, <1>6, AdvanceIs
  <2>2. d.state = "SERVER_HELLO"
        BY <1>2, <2>1, ServerStates
  <2>3. /\ Same(c, d, {"state", "sum", "msg", "minor", "max", "rc", "neg"})
        /\ d.minor = minor /\ d.max = h.max /\ d.rc = h.random /\ d.msg = h
        /\ d.sum = With(c.sum, h) /\ d.neg = t.neg
        BY <1>1, <2>1 DEF Same, Fields
  <2> QED
    BY <1>1, <1>6, <2>2, <2>3 DEF HelloRead
<1> QED
  BY <1>3, <1>4, <1>5, <1>6

\* The server reads a ClientHello, or has read it: then it renegotiates.
LEMMA ParseClientHelloIs ==
  ASSUME Typed, ParseClientHello, NEW c, c = ctx["server"]
  PROVE  \E h, d : /\ At("server", "CLIENT_HELLO") /\ HelloRead(c, h, d)
                   /\ h.msg = "ClientHello" /\ h.max \in Version
                   /\ \/ c.reneg /\ h = c.msg /\ Becomes("server", d)
                      \/ /\ ~ c.reneg /\ h = Incoming("server")
                         /\ net["server"] # <<>> /\ Consumes("server", d)
<1>1. PICK h, minor, suite, r, t, d :
        /\ h = IF c.reneg THEN c.msg ELSE Incoming("server")
        /\ minor = IF h.max <= 3 THEN h.max ELSE 3
        /\ suite = Chosen(h, minor)
        /\ r = HelloSeen(c, h, minor) /\ t = HelloTaken(c, h, minor, suite)
        /\ d = CASE minor < conf.smin -> Abort(r, "version")
                 [] minor >= conf.smin /\ suite = None -> Fail(t, "nocipher")
                 [] minor >= conf.smin /\ suite # None /\ c.reneg /\ h.info # <<c.peer>>
                      -> Abort(t, "renegotiation")
                 [] OTHER -> Advance(t)
      OBVIOUS
<1>2. /\ At("server", "CLIENT_HELLO")
      /\ \/ c.reneg /\ Becomes("server", d)
         \/ Gets("server", "CLIENT_HELLO", {"ClientHello"}) /\ Consumes("server", d)
      BY <1>1, Zenon DEF ParseClientHello, HelloSeen, HelloTaken
<1>3. ContextOK("server", c) /\ Context(c) /\ c.state = "CLIENT_HELLO" /\ c.end = "no"
      BY <1>2, TypedAt DEF At, End
<1>4. ASSUME Gets("server", "CLIENT_HELLO", {"ClientHello"})
      PROVE  /\ ~ c.reneg /\ net["server"] # <<>> /\ Incoming("server").msg = "ClientHello"
             /\ Incoming("server").max \in Version
  <2>1. "ClientHello" \in Awaits("server") /\ Incoming("server").msg = "ClientHello"
        /\ net["server"] # <<>>
        BY <1>4, GetsFacts
  <2>2. c.state = "CLIENT_HELLO" => (c.reneg => "ClientHello" \notin Awaits("server"))
        BY DEF Awaits
  <2>3. MessageOK(Incoming("server"))
        BY <2>1, TypedIncoming DEF End
  <2> QED
    BY <1>3, <2>1, <2>2, <2>3 DEF MessageOK
<1>5. h.msg = "ClientHello" /\ h.max \in Version
      BY <1>1, <1>2, <1>3, <1>4 DEF ContextOK
<1>6. minor \in Int /\ conf.smin \in Int
      BY <1>1, <1>5, SettingsOK DEF Version
<1>7. \/ minor < conf.smin /\ d = Abort(r, "version")
      \/ minor >= conf.smin /\ suite = None /\ d = Fail(t, "nocipher")
      \/ minor >= conf.smin /\ suite # None /\ c.reneg /\ h.info # <<c.peer>>
           /\ d = Abort(t, "renegotiation")
      \/ minor >= conf.smin /\ suite # None /\ (c.reneg => h.info = <<c.peer>>)
           /\ d = Advance(t)
      BY ONLY <1>1, <1>6
<1>8. HelloRead(c, h, d)
      BY ONLY <1>1, <1>3, <1>7, HelloReadIs
<1> QED
  BY <1>1, <1>2, <1>4, <1>5, <1>8

KeysOf(master, rc, rs, suite, minor) ==
  [block |-> PRF(master, "keys", <<rc, rs>>), suite |-> suite, minor |-> minor]

ServerHello(c, n) ==
  [msg |-> "ServerHello", minor |-> c.minor, random |-> nonce, id |-> n.id,
   suite |-> n.suite, info |-> IF c.reneg THEN <<c.peer, c.own>> ELSE <<>>]

\* The session ssl_cache_get answers with is a session.
LEMMA RestoredIs ==
  ASSUME NEW s, DOMAIN s = SessionFields
  PROVE  /\ DOMAIN Restored(s) = SessionFields /\ Restored(s).id = s.id
         /\ Restored(s).suite = s.suite
         /\ Restored(s).master = chain[First(Matches(s))].master
         /\ Restored(s).peer = IF chain[First(Matches(s))].peer = None THEN s.peer
                               ELSE chain[First(Matches(s))].peer
  BY DEF Restored, SessionFields

\* A field that is set to what it is.
LEMMA SameField ==
  ASSUME NEW n, DOMAIN n = SessionFields
  PROVE  [n EXCEPT !.master = n.master] = [x \in SessionFields |-> n[x]]
  BY ONLY DOMAIN n = SessionFields

\* The keys of a resumed session.
LEMMA ResumedIs ==
  ASSUME NEW c, Context(c), c.resume
  PROVE  /\ Same(c, Derived(c), {"neg", "tneg", "premaster", "rc", "rs"})
         /\ Derived(c).neg = [x \in SessionFields |-> c.neg[x]]
         /\ Derived(c).tneg = KeysOf(c.neg.master, c.rc, c.rs, c.neg.suite, c.minor)
<1>1. Master(c) = c.neg.master
      BY DEF Master
<1>2. /\ Same(c, Derived(c), {"neg", "tneg", "premaster", "rc", "rs"})
      /\ Derived(c).neg = [c.neg EXCEPT !.master = Master(c)]
      /\ Derived(c).tneg = KeyBlock(c, Master(c))
      BY DerivedIs
<1>3. Derived(c).neg = [x \in SessionFields |-> c.neg[x]]
      BY <1>1, <1>2, SameField DEF Context
<1> QED
  BY <1>1, <1>2, <1>3 DEF KeyBlock, KeysOf

Found(c) == [[c EXCEPT !.rs = nonce] EXCEPT !.resume = TRUE, !.neg = Restored(c.neg),
                                            !.state = "SERVER_CHANGE_CIPHER_SPEC"]
Fresh(c) == [Advance([c EXCEPT !.rs = nonce]) EXCEPT !.resume = FALSE, !.neg.id = nonce + 1]

\* A context that goes on with the session of the cache.
LEMMA FoundIs ==
  ASSUME NEW c, Context(c)
  PROVE  /\ Same(c, Found(c), {"rs", "resume", "neg", "state"})
         /\ Found(c).rs = nonce /\ Found(c).resume = TRUE /\ Found(c).neg = Restored(c.neg)
         /\ Found(c).state = "SERVER_CHANGE_CIPHER_SPEC"
<1>1. PICK r : r = Restored(c.neg)
      OBVIOUS
<1>2. DOMAIN r = SessionFields
      BY <1>1, RestoredIs DEF Context
<1>3. Found(c) = [[c EXCEPT !.rs = nonce] EXCEPT !.resume = TRUE, !.neg = r,
                                                 !.state = "SERVER_CHANGE_CIPHER_SPEC"]
      BY <1>1 DEF Found
<1> QED
  BY <1>1, <1>2, <1>3 DEF Same, Context, Fields

\* A context that negotiates a session of its own.
LEMMA FreshIs ==
  ASSUME NEW c, Context(c), c.state = "SERVER_HELLO"
  PROVE  /\ Same(c, Fresh(c), {"rs", "resume", "neg", "state"})
         /\ Fresh(c).rs = nonce /\ Fresh(c).resume = FALSE
         /\ Fresh(c).neg = [c.neg EXCEPT !.id = nonce + 1]
         /\ Fresh(c).state = "SERVER_CERTIFICATE"
<1>1. PICK b : b = [c EXCEPT !.rs = nonce]
      OBVIOUS
<1>a. PICK a : a = Advance(b)
      OBVIOUS
<1>2. Same(c, b, {"rs"}) /\ b.rs = nonce
      BY <1>1 DEF Same, Context, Fields
<1>3. Context(b) /\ b.state = "SERVER_HELLO"
      BY <1>2 DEF Same, Fields
<1>4. Same(b, a, {"state"}) /\ a.state = "SERVER_CERTIFICATE"
      BY <1>a, <1>3, AdvanceIs, ServerStates
<1>5. /\ Same(c, a, {"rs", "state"}) /\ a.state = "SERVER_CERTIFICATE" /\ a.rs = nonce
      BY <1>2, <1>4 DEF Same, Fields
<1>6. {"neg", "resume"} \subseteq DOMAIN a /\ a.neg = c.neg /\ DOMAIN a = Fields
      BY <1>5 DEF Same, Context, Fields
<1>7. Fresh(c) = [a EXCEPT !.resume = FALSE, !.neg.id = nonce + 1]
      BY <1>1, <1>a DEF Fresh
<1>8. /\ DOMAIN Fresh(c) = DOMAIN a /\ Fresh(c).neg = [a.neg EXCEPT !.id = nonce + 1]
      /\ Fresh(c).resume = FALSE
      /\ \A f \in DOMAIN a \ {"neg", "resume"} : Fresh(c)[f] = a[f]
      BY ONLY <1>6, <1>7
<1>9. Same(a, Fresh(c), {"resume", "neg"}) /\ Fresh(c).neg = [c.neg EXCEPT !.id = nonce + 1]
      BY <1>6, <1>8 DEF Same, Context
<1> QED
  BY <1>5, <1>8, <1>9 DEF Same, Fields

\* The fields of a context that goes on with a session of the cache, behind its hello.
FoundInCache(c, d) ==
  /\ ~ c.reneg /\ Matches(c.neg) # {}
  /\ Same(c, d, {"rs", "resume", "neg", "state", "tneg", "premaster", "rc", "sum", "out"})
  /\ d.state = "SERVER_CHANGE_CIPHER_SPEC" /\ d.resume = TRUE
  /\ d.neg = [x \in SessionFields |-> Restored(c.neg)[x]]
  /\ d.tneg = KeysOf(d.neg.master, c.rc, nonce, d.neg.suite, c.minor)

\* Those of a context that negotiates a session of its own.
NewlyNamed(c, d) ==
  /\ c.reneg \/ Matches(c.neg) = {}
  /\ Same(c, d, {"rs", "resume", "neg", "state", "sum", "out"})
  /\ d.state = "SERVER_CERTIFICATE" /\ d.resume = FALSE /\ d.rs = nonce
  /\ d.neg = [c.neg EXCEPT !.id = nonce + 1]

\* The record that holds message m, and the transcript with it.
Says(c, d, m) == d.sum = Append(c.sum, m) /\ d.out = [key |-> c.tout, body |-> m]

\* A hello of the server.
LEMMA HelloSaid ==
  ASSUME NEW c, Context(c), NEW n, Context(n), n.tout = c.tout, n.sum = c.sum
  PROVE  /\ Same(n, Sent(n, ServerHello(c, n.neg)), {"sum", "out"})
         /\ Says(c, Sent(n, ServerHello(c, n.neg)), ServerHello(c, n.neg))
<1>1. PICK m : m = ServerHello(c, n.neg)
      OBVIOUS
<1>2. m.msg \in HandshakeMessages
      BY <1>1 DEF ServerHello, HandshakeMessages
<1>3. /\ Same(n, Sent(n, m), {"sum", "out"})
      /\ Sent(n, m).out = [key |-> n.tout, body |-> m]
      /\ Sent(n, m).sum = Append(n.sum, m)
      BY <1>2, SentMessageIs
<1> QED
  BY <1>1, <1>3 DEF Says

\* The ServerHello names a session of the cache, or a new one.
LEMMA WriteServerHelloIs ==
  ASSUME Typed, WriteServerHello, NEW c, c = ctx["server"]
  PROVE  \E d : /\ At("server", "SERVER_HELLO") /\ Becomes("server", d)
                /\ nonce' = nonce + 2
                /\ FoundInCache(c, d) \/ NewlyNamed(c, d)
                /\ Says(c, d, ServerHello(c, d.neg))
<1>1. PICK b : b = [c EXCEPT !.rs = nonce]
      OBVIOUS
<1>2. Context(c)
      BY TypedAt DEF End
<1>3. /\ b.neg = c.neg /\ b.reneg = c.reneg /\ b.minor = c.minor /\ b.peer = c.peer
      /\ b.own = c.own
      BY <1>1, <1>2 DEF Context, Fields
<1>4. PICK n : n = IF ~ c.reneg /\ Matches(c.neg) # {} THEN Derived(Found(c)) ELSE Fresh(c)
      OBVIOUS
<1>5. n = IF ~ b.reneg /\ Matches(b.neg) # {}
          THEN Derived([b EXCEPT !.resume = TRUE, !.neg = Restored(b.neg),
                                 !.state = "SERVER_CHANGE_CIPHER_SPEC"])
          ELSE [Advance(b) EXCEPT !.resume = FALSE, !.neg.id = nonce + 1]
      BY <1>1, <1>3, <1>4, Zenon DEF Found, Fresh
<1>6. PICK d : d = Sent(n, ServerHello(c, n.neg))
      OBVIOUS
<1>7. ServerHello(c, n.neg) =
        [msg |-> "ServerHello", minor |-> b.minor, random |-> nonce,
         id |-> n.neg.id, suite |-> n.neg.suite,
         info |-> IF b.reneg THEN <<b.peer, b.own>> ELSE <<>>]
      BY <1>3 DEF ServerHello
<1>8. At("server", "SERVER_HELLO") /\ Becomes("server", d) /\ nonce' = nonce + 2
  <2> DEFINE b0 == [ctx["server"] EXCEPT !.rs = nonce]
             n0 == IF ~ b0.reneg /\ Matches(b0.neg) # {}
                   THEN Derived([b0 EXCEPT !.resume = TRUE, !.neg = Restored(b0.neg),
                                           !.state = "SERVER_CHANGE_CIPHER_SPEC"])
                   ELSE [Advance(b0) EXCEPT !.resume = FALSE, !.neg.id = nonce + 1]
             m0 == [msg |-> "ServerHello", minor |-> b0.minor, random |-> nonce,
                    id |-> n0.neg.id, suite |-> n0.neg.suite,
                    info |-> IF b0.reneg THEN <<b0.peer, b0.own>> ELSE <<>>]
  <2>1. At("server", "SERVER_HELLO") /\ Becomes("server", Sent(n0, m0)) /\ nonce' = nonce + 2
        BY DEF WriteServerHello, Draws
  <2>2. b = b0
        BY <1>1
  <2> HIDE DEF b0
  <2>3. n = n0
        BY <1>5, <2>2
  <2> HIDE DEF n0
  <2>4. m0 = ServerHello(c, n.neg)
        BY <1>7, <2>2, <2>3
  <2> HIDE DEF m0
  <2> QED
    BY <1>6, <2>1, <2>3, <2>4
<1>9. c.state = "SERVER_HELLO"
      BY <1>8 DEF At
<1>10. CASE ~ c.reneg /\ Matches(c.neg) # {}
  <2>1. /\ Same(c, Found(c), {"rs", "resume", "neg", "state"})
        /\ Found(c).rs = nonce /\ Found(c).resume = TRUE /\ Found(c).neg = Restored(c.neg)
        /\ Found(c).state = "SERVER_CHANGE_CIPHER_SPEC"
        BY <1>2, FoundIs
  <2>2. PICK f : f = Found(c)
        OBVIOUS
  <2>3. n = Derived(f)
        BY <1>4, <1>10, <2>2
  <2>4. Context(f) /\ f.resume /\ f.rc = c.rc /\ f.minor = c.minor
        BY <2>1, <2>2 DEF Same, Fields
  <2>5. /\ Same(f, n, {"neg", "tneg", "premaster", "rc", "rs"})
        /\ n.neg = [x \in SessionFields |-> f.neg[x]]
        /\ n.tneg = KeysOf(f.neg.master, f.rc, f.rs, f.neg.suite, f.minor)
        BY <2>3, <2>4, ResumedIs
  <2>6. /\ Same(c, n, {"rs", "resume", "neg", "state", "tneg", "premaster", "rc"})
        /\ n.state = f.state /\ n.resume = f.resume
        BY <2>1, <2>2, <2>5 DEF Same, Fields
  <2>7. Context(n) /\ n.tout = c.tout /\ n.sum = c.sum
        BY <2>6 DEF Same, Fields
  <2>8. Same(n, d, {"sum", "out"}) /\ Says(c, d, ServerHello(c, n.neg))
        BY <1>2, <1>6, <2>7, HelloSaid
  <2>9. /\ Same(c, d, {"rs", "resume", "neg", "state", "tneg", "premaster", "rc", "sum", "out"})
        /\ d.neg = n.neg /\ d.state = n.state /\ d.resume = n.resume /\ d.tneg = n.tneg
        BY <2>6, <2>8 DEF Same, Fields
  <2>10. n.neg.master = f.neg.master /\ n.neg.suite = f.neg.suite
        BY <2>5 DEF SessionFields
  <2>11. FoundInCache(c, d)
        BY <1>10, <2>1, <2>2, <2>4, <2>5, <2>6, <2>9, <2>10 DEF FoundInCache
  <2> QED
    BY <1>8, <2>8, <2>9, <2>11
<1>11. CASE ~ (~ c.reneg /\ Matches(c.neg) # {})
  <2>1. n = Fresh(c)
        BY <1>4, <1>11
  <2>2. /\ Same(c, n, {"rs", "resume", "neg", "state"})
        /\ n.rs = nonce /\ n.resume = FALSE /\ n.neg = [c.neg EXCEPT !.id = nonce + 1]
        /\ n.state = "SERVER_CERTIFICATE"
        BY <1>2, <1>9, <2>1, FreshIs
  <2>3. Context(n) /\ n.tout = c.tout /\ n.sum = c.sum
        BY <2>2 DEF Same, Fields
  <2>4. Same(n, d, {"sum", "out"}) /\ Says(c, d, ServerHello(c, n.neg))
        BY <1>2, <1>6, <2>3, HelloSaid
  <2>5. /\ Same(c, d, {"rs", "resume", "neg", "state", "sum", "out"})
        /\ d.neg = n.neg /\ d.state = n.state /\ d.resume = n.resume /\ d.rs = n.rs
        BY <2>2, <2>4 DEF Same, Fields
  <2>6. NewlyNamed(c, d)
        BY <1>11, <2>2, <2>5 DEF NewlyNamed
  <2> QED
    BY <1>8, <2>4, <2>5, <2>6
<1> QED
  BY <1>10, <1>11

\* The messages that tell neither who speaks nor that a handshake is complete.
Plain == {"ServerKeyExchange", "CertificateRequest", "ServerHelloDone", "ClientKeyExchange",
          "CertificateVerify", "ChangeCipherSpec", "Data", "NoCertificate",
          "NoRenegotiation", "Fatal"}

Scratch == {"state", "sum", "msg", "out", "end", "dh", "verify", "auth", "neg", "tneg",
            "premaster", "rc", "rs"}

\* The keys of the handshake are as far in d as they are in c.
SameKeys(c, d) == d.tneg = c.tneg /\ d.rc = c.rc /\ d.neg.master = c.neg.master

\* d is c further on in the same handshake, with the same peer.
Drift(c, d) ==
  /\ Context(c) /\ Same(c, d, Scratch)
  /\ d.neg.id = c.neg.id /\ d.neg.suite = c.neg.suite /\ d.neg.peer = c.neg.peer
  /\ d.out = c.out \/ (d.out.key = c.tout /\ d.out.body.msg \in Plain)
  /\ c.state # "CLIENT_KEY_EXCHANGE" => SameKeys(c, d)

\* d is in the state of c, and on the connection as much as c.
AsFar(c, d) == d.state = c.state /\ d.end = c.end

\* Drift, step by step.
LEMMA DriftFrom ==
  ASSUME NEW c, Context(c)
  PROVE  Drift(c, c)
  BY DEF Drift, Same, SameKeys

\* The next state.
LEMMA DriftAdvance ==
  ASSUME NEW c, NEW d, Drift(c, d)
  PROVE  /\ Drift(c, Advance(d)) /\ Advance(d).state = Following(d.state)
         /\ Advance(d).end = d.end
<1>1. PICK x : x = Advance(d)
      OBVIOUS
<1>2. Same(d, x, {"state"}) /\ x.state = Following(d.state)
      BY <1>1, AdvanceIs DEF Drift, Same
<1>3. Same(c, x, Scratch) /\ x.end = d.end /\ x.neg = d.neg /\ x.out = d.out
      /\ x.tneg = d.tneg /\ x.rc = d.rc
      BY <1>2 DEF Drift, Same, Fields, Scratch
<1> QED
  BY <1>1, <1>2, <1>3 DEF Drift, SameKeys

\* A failure.
LEMMA DriftFail ==
  ASSUME NEW c, NEW d, Drift(c, d), NEW why
  PROVE  Drift(c, Fail(d, why)) /\ Fail(d, why).state = d.state /\ Fail(d, why).end = why
<1>1. PICK x : x = Fail(d, why)
      OBVIOUS
<1>2. Same(d, x, {"end"}) /\ x.end = why
      BY <1>1, FailIs DEF Drift, Same
<1>3. Same(c, x, Scratch) /\ x.state = d.state /\ x.neg = d.neg /\ x.out = d.out
      /\ x.tneg = d.tneg /\ x.rc = d.rc
      BY <1>2 DEF Drift, Same, Fields, Scratch
<1> QED
  BY <1>1, <1>2, <1>3 DEF Drift, SameKeys

\* A message that goes out.
LEMMA DriftSent ==
  ASSUME NEW c, NEW d, Drift(c, d), NEW m, m.msg \in Plain
  PROVE  Drift(c, Sent(d, m)) /\ AsFar(d, Sent(d, m))
<1>1. PICK x : x = Sent(d, m)
      OBVIOUS
<1>2. Same(d, x, {"sum", "out"}) /\ x.out = [key |-> d.tout, body |-> m]
      BY <1>1, SentIs DEF Drift, Same
<1>3. Same(c, x, Scratch) /\ AsFar(d, x) /\ x.neg = d.neg /\ x.out.body.msg \in Plain
      /\ x.out.key = c.tout /\ x.tneg = d.tneg /\ x.rc = d.rc
      BY <1>2 DEF Drift, Same, Fields, Scratch, AsFar
<1> QED
  BY <1>1, <1>2, <1>3 DEF Drift, SameKeys

\* An alert.
LEMMA DriftAbort ==
  ASSUME NEW c, NEW d, Drift(c, d), NEW why
  PROVE  Drift(c, Abort(d, why)) /\ Abort(d, why).state = d.state /\ Abort(d, why).end = why
<1>1. PICK x, m : x = Fail(d, why) /\ m = [msg |-> "Fatal"]
      OBVIOUS
<1>2. Drift(c, x) /\ x.state = d.state /\ x.end = why
      BY <1>1, DriftFail
<1>3. Drift(c, Sent(x, m)) /\ AsFar(x, Sent(x, m))
      BY <1>1, <1>2, DriftSent DEF Plain
<1> QED
  BY <1>1, <1>2, <1>3 DEF Abort, AsFar

\* A message that comes in.
LEMMA DriftReceived ==
  ASSUME NEW c, NEW d, Drift(c, d), NEW m
  PROVE  Drift(c, Received(d, m)) /\ AsFar(d, Received(d, m)) /\ Received(d, m).out = d.out
         /\ Received(d, m).msg = m
<1>1. PICK x : x = Received(d, m)
      OBVIOUS
<1>2. Same(d, x, {"sum", "msg"}) /\ x.msg = m
      BY <1>1, ReceivedIs DEF Drift, Same
<1>3. Same(c, x, Scratch) /\ AsFar(d, x) /\ x.neg = d.neg /\ x.out = d.out
      /\ x.tneg = d.tneg /\ x.rc = d.rc
      BY <1>2 DEF Drift, Same, Fields, Scratch, AsFar
<1> QED
  BY <1>1, <1>2, <1>3 DEF Drift, SameKeys

\* The keys.
LEMMA DriftDerived ==
  ASSUME NEW c, NEW d, Drift(c, d), c.state = "CLIENT_KEY_EXCHANGE"
  PROVE  Drift(c, Derived(d)) /\ AsFar(d, Derived(d))
<1>1. PICK x, k : x = Derived(d) /\ k = Master(d)
      OBVIOUS
<1>2. /\ Same(d, x, {"neg", "tneg", "premaster", "rc", "rs"})
      /\ x.neg = [d.neg EXCEPT !.master = k]
      BY <1>1, DerivedIs DEF Drift, Same
<1>3. Same(c, x, Scratch) /\ AsFar(d, x) /\ x.out = d.out
      BY <1>2 DEF Drift, Same, Fields, Scratch, AsFar
<1>4. x.neg.id = d.neg.id /\ x.neg.suite = d.neg.suite /\ x.neg.peer = d.neg.peer
      BY <1>2 DEF Drift, Same, Context, SessionFields
<1> QED
  BY <1>1, <1>3, <1>4 DEF Drift

\* A field of no interest here.
LEMMA DriftField ==
  ASSUME NEW c, NEW d, Drift(c, d), NEW f \in {"dh", "premaster", "auth", "verify"}, NEW v
  PROVE  Drift(c, [d EXCEPT ![f] = v]) /\ AsFar(d, [d EXCEPT ![f] = v])
<1>1. PICK x : x = [d EXCEPT ![f] = v]
      OBVIOUS
<1>2. DOMAIN d = Fields
      BY DEF Drift, Same, Context
<1>3. DOMAIN x = Fields /\ \A g \in Fields \ {f} : x[g] = d[g]
      BY <1>1, <1>2
<1>4. AsFar(d, x) /\ x.neg = d.neg /\ x.out = d.out /\ x.tneg = d.tneg /\ x.rc = d.rc
      BY <1>3 DEF Fields, AsFar
<1>5. Same(c, x, Scratch)
      BY <1>3, <1>4 DEF Drift, Same, Context, Scratch
<1> QED
  BY <1>1, <1>4, <1>5 DEF Drift, SameKeys

Middle == {"SERVER_KEY_EXCHANGE", "CERTIFICATE_REQUEST", "SERVER_HELLO_DONE",
           "CLIENT_KEY_EXCHANGE", "CERTIFICATE_VERIFY", "CLIENT_CHANGE_CIPHER_SPEC",
           "SERVER_CHANGE_CIPHER_SPEC", "FLUSH_BUFFERS"}

\* What the turns of an end leave alone.
Around == UNCHANGED <<conf, budget, who, saved, origin, chain, now>>

Took(e, d) == Becomes(e, d) \/ (net[e] # <<>> /\ Consumes(e, d))

\* d has the keys of the handshake, made from the random numbers in c.
NewKeys(c, d) == d.tneg = KeysOf(d.neg.master, c.rc, c.rs, d.neg.suite, d.minor)

\* A turn in the middle of a handshake that tells the peer nothing.
MiddleTurn(e, c, d) ==
  /\ c.state \in Middle /\ c.end = "no" /\ c.out = None
  /\ Took(e, d) /\ Drift(c, d)
  /\ \/ d.end = "no" /\ d.state = Following(c.state)
     \/ d.end \in {"unexpected", "signature"} /\ d.state \in {c.state, Following(c.state)}
  /\ c.state = "CLIENT_KEY_EXCHANGE" => NewKeys(c, d)
  /\ nonce' \in {nonce, nonce + 1} /\ Around

Middling(e) == \E d : MiddleTurn(e, ctx[e], d)

\* The turn as the model has it.
LEMMA MiddleIs ==
  ASSUME NEW e, NEW s \in Middle, At(e, s), NEW d, Took(e, d), Drift(ctx[e], d),
         \/ d.end = "no" /\ d.state = Following(s)
         \/ d.end \in {"unexpected", "signature"} /\ d.state \in {s, Following(s)},
         s = "CLIENT_KEY_EXCHANGE" => NewKeys(ctx[e], d),
         nonce' \in {nonce, nonce + 1}, Around
  PROVE  Middling(e)
  BY DEF Middling, MiddleTurn, At

\* A turn that only goes on.
LEMMA GoingOn ==
  ASSUME Typed, NEW e \in End, NEW s, At(e, s)
  PROVE  /\ Drift(ctx[e], Advance(ctx[e])) /\ Advance(ctx[e]).state = Following(s)
         /\ Advance(ctx[e]).end = "no"
<1>1. Drift(ctx[e], ctx[e])
      BY TypedAt, DriftFrom
<1> QED
  BY <1>1, DriftAdvance DEF At

\* A turn that reads and goes on.
LEMMA ReadingOn ==
  ASSUME Typed, NEW e \in End, NEW s, NEW ms, Gets(e, s, ms)
  PROVE  /\ Drift(ctx[e], Advance(Received(ctx[e], Incoming(e))))
         /\ Advance(Received(ctx[e], Incoming(e))).state = Following(s)
         /\ Advance(Received(ctx[e], Incoming(e))).end = "no"
         /\ At(e, s) /\ net[e] # <<>>
<1>1. PICK r : r = Received(ctx[e], Incoming(e))
      OBVIOUS
<1>2. Drift(ctx[e], ctx[e]) /\ At(e, s) /\ net[e] # <<>>
      BY TypedAt, DriftFrom, GetsFacts
<1>3. Drift(ctx[e], r) /\ AsFar(ctx[e], r)
      BY <1>1, <1>2, DriftReceived
<1> QED
  BY <1>1, <1>2, <1>3, DriftAdvance DEF At, AsFar

\* ssl_write_server_key_exchange.
LEMMA WriteServerKeyExchangeIs ==
  ASSUME Typed, WriteServerKeyExchange
  PROVE  Middling("server")
<1>1. PICK c, a : c = ctx["server"] /\ a = Advance(c)
      OBVIOUS
<1>2. PICK m : m = [msg |-> "ServerKeyExchange", dh |-> nonce,
                    signed |-> <<c.rc, c.rs, nonce>>, by |-> conf.scert]
      OBVIOUS
<1>3. /\ At("server", "SERVER_KEY_EXCHANGE") /\ Around
      /\ \/ Becomes("server", Sent([a EXCEPT !.dh = nonce], m)) /\ nonce' = nonce + 1
         \/ Becomes("server", a) /\ nonce' = nonce + 0
      BY <1>1, <1>2 DEF WriteServerKeyExchange, Draws, Around, envVars, cacheVars
<1>4. /\ Drift(c, a) /\ a.state = Following("SERVER_KEY_EXCHANGE") /\ a.end = "no"
      BY <1>1, <1>3, GoingOn DEF End
<1>5. PICK x : x = [a EXCEPT !.dh = nonce]
      OBVIOUS
<1>6. Drift(c, x) /\ AsFar(a, x)
      BY <1>4, <1>5, DriftField
<1>7. Drift(c, Sent(x, m)) /\ AsFar(x, Sent(x, m))
      BY <1>2, <1>6, DriftSent DEF Plain
<1>8. nonce + 0 = nonce
      BY DEF Typed
<1>9. PICK d : /\ d \in {a, Sent(x, m)} /\ Took("server", d)
      BY <1>3, <1>5 DEF Took
<1> QED
  BY <1>1, <1>3, <1>4, <1>6, <1>7, <1>8, <1>9, MiddleIs DEF Middle, AsFar

\* ssl_parse_server_key_exchange.
LEMMA ParseServerKeyExchangeIs ==
  ASSUME Typed, ParseServerKeyExchange
  PROVE  Middling("client")
<1>1. PICK c, r, m : c = ctx["client"] /\ m = Incoming("client") /\ r = Advance(Received(c, m))
      OBVIOUS
<1>2. /\ Around /\ nonce' = nonce
      /\ \/ /\ Gets("client", "SERVER_KEY_EXCHANGE", {"ServerKeyExchange"})
            /\ \/ Consumes("client", [r EXCEPT !.dh = m.dh])
               \/ Consumes("client", Fail(r, "signature"))
         \/ At("client", "SERVER_KEY_EXCHANGE") /\ Becomes("client", Advance(c))
      BY <1>1 DEF ParseServerKeyExchange, Around, envVars, cacheVars
<1>3. CASE /\ Gets("client", "SERVER_KEY_EXCHANGE", {"ServerKeyExchange"})
           /\ \/ Consumes("client", [r EXCEPT !.dh = m.dh])
              \/ Consumes("client", Fail(r, "signature"))
  <2>1. /\ Drift(c, r) /\ r.state = Following("SERVER_KEY_EXCHANGE") /\ r.end = "no"
        /\ At("client", "SERVER_KEY_EXCHANGE") /\ net["client"] # <<>>
        BY <1>1, <1>3, ReadingOn DEF End
  <2>2. PICK x, f : x = [r EXCEPT !.dh = m.dh] /\ f = Fail(r, "signature")
        OBVIOUS
  <2>3. Drift(c, x) /\ AsFar(r, x)
        BY <2>1, <2>2, DriftField
  <2>4. Drift(c, f) /\ f.state = r.state /\ f.end = "signature"
        BY <2>1, <2>2, DriftFail
  <2>5. PICK d : d \in {x, f} /\ Took("client", d)
        BY <1>3, <2>1, <2>2 DEF Took
  <2> QED
    BY <1>1, <1>2, <2>1, <2>3, <2>4, <2>5, MiddleIs DEF Middle, AsFar
<1>4. CASE At("client", "SERVER_KEY_EXCHANGE") /\ Becomes("client", Advance(c))
  BY <1>1, <1>2, <1>4, GoingOn, MiddleIs DEF Middle, End, Took
<1> QED
  BY <1>2, <1>3, <1>4

\* Both ends of a CertificateRequest.
LEMMA CertificateRequestIs ==
  ASSUME Typed, NEW e \in End,
         \/ e = "server" /\ WriteCertificateRequest
         \/ e = "client" /\ ParseCertificateRequest
  PROVE  Middling(e)
<1>1. CASE e = "server" /\ WriteCertificateRequest
  <2>1. PICK a, m : a = Advance(ctx["server"]) /\ m = [msg |-> "CertificateRequest"]
        OBVIOUS
  <2>2. /\ At("server", "CERTIFICATE_REQUEST") /\ Around /\ nonce' = nonce
        /\ Becomes("server", a) \/ Becomes("server", Sent(a, m))
        BY <1>1, <2>1 DEF WriteCertificateRequest, Around, envVars, cacheVars
  <2>3. Drift(ctx["server"], a) /\ a.state = Following("CERTIFICATE_REQUEST") /\ a.end = "no"
        BY <2>1, <2>2, GoingOn DEF End
  <2>4. Drift(ctx["server"], Sent(a, m)) /\ AsFar(a, Sent(a, m))
        BY <2>1, <2>3, DriftSent DEF Plain
  <2>5. PICK d : d \in {a, Sent(a, m)} /\ Took("server", d)
        BY <2>2 DEF Took
  <2> QED
    BY <1>1, <2>2, <2>3, <2>4, <2>5, MiddleIs DEF Middle, AsFar
<1>2. CASE e = "client" /\ ParseCertificateRequest
  <2>1. PICK m, a, v : /\ m = Incoming("client") /\ a = Advance(Received(ctx["client"], m))
                       /\ v = (m.msg = "CertificateRequest")
        OBVIOUS
  <2>2. PICK d : d = [a EXCEPT !.auth = v]
        OBVIOUS
  <2>3. /\ Gets("client", "CERTIFICATE_REQUEST", HandshakeMessages) /\ Around /\ nonce' = nonce
        /\ Consumes("client", d)
        BY <1>2, <2>1, <2>2 DEF ParseCertificateRequest, Around, envVars, cacheVars
  <2>4. /\ Drift(ctx["client"], a) /\ a.state = Following("CERTIFICATE_REQUEST") /\ a.end = "no"
        /\ At("client", "CERTIFICATE_REQUEST") /\ net["client"] # <<>>
        BY <2>1, <2>3, ReadingOn DEF End
  <2>5. Drift(ctx["client"], d) /\ AsFar(a, d)
        BY <2>2, <2>4, DriftField
  <2> QED
    BY <1>2, <2>3, <2>4, <2>5, MiddleIs DEF Middle, AsFar, Took
<1> QED
  BY <1>1, <1>2

\* Both ends of a ServerHelloDone.
LEMMA ServerHelloDoneIs ==
  ASSUME Typed, NEW e \in End,
         \/ e = "server" /\ WriteServerHelloDone
         \/ e = "client" /\ ParseServerHelloDone
  PROVE  Middling(e)
<1>1. CASE e = "server" /\ WriteServerHelloDone
  <2>1. PICK a, m : a = Advance(ctx["server"]) /\ m = [msg |-> "ServerHelloDone"]
        OBVIOUS
  <2>2. /\ At("server", "SERVER_HELLO_DONE") /\ Around /\ nonce' = nonce
        /\ Becomes("server", Sent(a, m))
        BY <1>1, <2>1 DEF WriteServerHelloDone, Around, envVars, cacheVars
  <2>3. Drift(ctx["server"], a) /\ a.state = Following("SERVER_HELLO_DONE") /\ a.end = "no"
        BY <2>1, <2>2, GoingOn DEF End
  <2>4. Drift(ctx["server"], Sent(a, m)) /\ AsFar(a, Sent(a, m))
        BY <2>1, <2>3, DriftSent DEF Plain
  <2> QED
    BY <1>1, <2>2, <2>3, <2>4, MiddleIs DEF Middle, AsFar, Took
<1>2. CASE e = "client" /\ ParseServerHelloDone
  <2>1. PICK c, r, f : /\ c = ctx["client"] /\ r = Advance(Received(c, Incoming("client")))
                       /\ f = Fail(c, "unexpected")
        OBVIOUS
  <2>2. /\ Around /\ nonce' = nonce
        /\ \/ Gets("client", "SERVER_HELLO_DONE", {"ServerHelloDone"}) /\ Consumes("client", r)
           \/ /\ At("client", "SERVER_HELLO_DONE")
              /\ Becomes("client", Advance(c)) \/ Becomes("client", f)
        BY <1>2, <2>1 DEF ParseServerHelloDone, Around, envVars, cacheVars
  <2>3. CASE Gets("client", "SERVER_HELLO_DONE", {"ServerHelloDone"}) /\ Consumes("client", r)
    <3>1. /\ Drift(c, r) /\ r.state = Following("SERVER_HELLO_DONE") /\ r.end = "no"
          /\ At("client", "SERVER_HELLO_DONE") /\ net["client"] # <<>>
          BY <2>1, <2>3, ReadingOn DEF End
    <3> QED
      BY <1>2, <2>1, <2>2, <2>3, <3>1, MiddleIs DEF Middle, Took
  <2>4. CASE /\ At("client", "SERVER_HELLO_DONE")
             /\ Becomes("client", Advance(c)) \/ Becomes("client", f)
    <3>1. /\ Drift(c, Advance(c)) /\ Advance(c).end = "no"
          /\ Advance(c).state = Following("SERVER_HELLO_DONE")
          BY <2>1, <2>4, GoingOn DEF End
    <3>2. Drift(c, f) /\ f.state = c.state /\ f.end = "unexpected"
          BY <2>1, TypedAt, DriftFrom, DriftFail DEF End
    <3>3. PICK d : d \in {Advance(c), f} /\ Took("client", d)
          BY <2>4 DEF Took
    <3> QED
      BY <1>2, <2>1, <2>2, <2>4, <3>1, <3>2, <3>3, MiddleIs DEF Middle, At
  <2> QED
    BY <2>2, <2>3, <2>4
<1> QED
  BY <1>1, <1>2

\* The keys are made from what both ends have said.
LEMMA KeysAre ==
  ASSUME NEW c, NEW a, NEW s, Same(c, a, {"sum", "msg", "state"}) \/ Same(c, a, {"state"})
  PROVE  NewKeys(c, Derived([a EXCEPT !.premaster = s]))
<1>1. PICK x : x = [a EXCEPT !.premaster = s]
      OBVIOUS
<1>2. Context(x) /\ x.rc = c.rc /\ x.rs = c.rs
      BY <1>1 DEF Same, Context, Fields
<1>3. PICK d, k : d = Derived(x) /\ k = Master(x)
      OBVIOUS
<1>4. /\ Same(x, d, {"neg", "tneg", "premaster", "rc", "rs"})
      /\ d.neg = [x.neg EXCEPT !.master = k] /\ d.tneg = KeyBlock(x, k)
      BY <1>2, <1>3, DerivedIs
<1>5. d.neg.master = k /\ d.neg.suite = x.neg.suite /\ d.minor = x.minor
      BY <1>2, <1>4 DEF Context, Same, Fields, SessionFields
<1>6. d.tneg = KeysOf(d.neg.master, c.rc, c.rs, d.neg.suite, d.minor)
      BY <1>2, <1>4, <1>5 DEF KeyBlock, KeysOf
<1> QED
  BY <1>1, <1>3, <1>6 DEF NewKeys

\* ssl_write_client_key_exchange.
LEMMA WriteClientKeyExchangeIs ==
  ASSUME Typed, WriteClientKeyExchange
  PROVE  Middling("client")
<1>1. PICK c, a : c = ctx["client"] /\ a = Advance(c)
      OBVIOUS
<1>2. PICK s, m : /\ m.msg = "ClientKeyExchange"
                  /\ At("client", "CLIENT_KEY_EXCHANGE")
                  /\ Becomes("client", Sent(Derived([a EXCEPT !.premaster = s]), m))
  <2> DEFINE agrees == ctx["client"].neg.suite \in DHE
             s == IF agrees THEN <<ctx["client"].dh, nonce>> ELSE <<ctx["client"].max, nonce>>
             m == [msg |-> "ClientKeyExchange",
                   half |-> IF agrees THEN nonce ELSE None,
                   sealed |-> IF agrees THEN None ELSE <<ctx["client"].neg.peer, s>>]
  <2>1. /\ At("client", "CLIENT_KEY_EXCHANGE")
        /\ Becomes("client", Sent(Derived([Advance(ctx["client"]) EXCEPT !.premaster = s]), m))
        BY DEF WriteClientKeyExchange
  <2> HIDE DEF s
  <2>2. m.msg = "ClientKeyExchange"
        OBVIOUS
  <2> HIDE DEF m
  <2> QED
    BY <1>1, <2>1, <2>2
<1>3. Around /\ nonce' = nonce + 1
      BY DEF WriteClientKeyExchange, Around, Draws, envVars, cacheVars
<1>4. /\ Drift(c, a) /\ a.state = Following("CLIENT_KEY_EXCHANGE") /\ a.end = "no"
      BY <1>1, <1>2, GoingOn DEF End
<1>5. PICK x : x = [a EXCEPT !.premaster = s]
      OBVIOUS
<1>6. Drift(c, x) /\ AsFar(a, x)
      BY <1>4, <1>5, DriftField
<1>7. Drift(c, Derived(x)) /\ AsFar(x, Derived(x))
      BY <1>1, <1>2, <1>6, DriftDerived DEF At
<1>8. Drift(c, Sent(Derived(x), m)) /\ AsFar(Derived(x), Sent(Derived(x), m))
      BY <1>2, <1>7, DriftSent DEF Plain
<1>9. Took("client", Sent(Derived(x), m))
      BY <1>2, <1>5 DEF Took
<1>10. NewKeys(c, Sent(Derived(x), m))
  <2>1. Same(c, a, {"state"})
        BY <1>1, <1>4, AdvanceIs DEF Drift
  <2>2. NewKeys(c, Derived(x))
        BY <1>5, <2>1, KeysAre
  <2>3. Same(Derived(x), Sent(Derived(x), m), {"sum", "out"})
    <3>1. Context(Derived(x))
          BY <1>7 DEF Drift, Same
    <3> QED
      BY <3>1, SentIs
  <2> QED
    BY <2>2, <2>3 DEF NewKeys, Same, Fields
<1> QED
  BY <1>1, <1>2, <1>3, <1>4, <1>6, <1>7, <1>8, <1>9, <1>10, MiddleIs DEF Middle, AsFar

\* ssl_parse_client_key_exchange.
LEMMA ParseClientKeyExchangeIs ==
  ASSUME Typed, ParseClientKeyExchange
  PROVE  Middling("server")
<1>1. PICK c, m, a : c = ctx["server"] /\ m = Incoming("server") /\ a = Advance(Received(c, m))
      OBVIOUS
<1>2. PICK s : /\ Gets("server", "CLIENT_KEY_EXCHANGE", {"ClientKeyExchange"})
               /\ Consumes("server", Derived([a EXCEPT !.premaster = s]))
      BY <1>1 DEF ParseClientKeyExchange
<1>3. Around /\ (nonce' = nonce + 0 \/ nonce' = nonce + 1)
      BY DEF ParseClientKeyExchange, Around, Draws, envVars, cacheVars
<1>4. nonce' \in {nonce, nonce + 1}
      BY <1>3 DEF Typed
<1>5. /\ Drift(c, a) /\ a.state = Following("CLIENT_KEY_EXCHANGE") /\ a.end = "no"
      /\ At("server", "CLIENT_KEY_EXCHANGE") /\ net["server"] # <<>>
      BY <1>1, <1>2, ReadingOn DEF End
<1>6. PICK x : x = [a EXCEPT !.premaster = s]
      OBVIOUS
<1>7. Drift(c, x) /\ AsFar(a, x)
      BY <1>5, <1>6, DriftField
<1>8. Drift(c, Derived(x)) /\ AsFar(x, Derived(x))
      BY <1>1, <1>5, <1>7, DriftDerived DEF At
<1>9. Took("server", Derived(x))
      BY <1>2, <1>5, <1>6 DEF Took
<1>10. NewKeys(c, Derived(x))
  <2>1. Context(c)
        BY <1>5 DEF Drift
  <2>2. PICK r : r = Received(c, m)
        OBVIOUS
  <2>3. Same(c, r, {"sum", "msg"})
        BY <2>1, <2>2, ReceivedIs
  <2>4. Same(r, a, {"state"})
        BY <1>1, <2>2, <2>3, AdvanceIs DEF Same
  <2>5. Same(c, a, {"sum", "msg", "state"})
        BY <2>3, <2>4 DEF Same, Fields
  <2> QED
    BY <1>6, <2>5, KeysAre
<1> QED
  BY <1>1, <1>3, <1>4, <1>5, <1>7, <1>8, <1>9, <1>10, MiddleIs DEF Middle, AsFar

\* Both ends of a CertificateVerify.
LEMMA CertificateVerifyIs ==
  ASSUME Typed, NEW e \in End,
         \/ e = "client" /\ WriteCertificateVerify
         \/ e = "server" /\ ParseCertificateVerify
  PROVE  Middling(e)
<1>1. CASE e = "client" /\ WriteCertificateVerify
  <2>1. PICK c, a : c = ctx["client"] /\ a = Advance(c)
        OBVIOUS
  <2>2. PICK m : m = [msg |-> "CertificateVerify", signed |-> Transcript(c), by |-> Own("client")]
        OBVIOUS
  <2>3. /\ At("client", "CERTIFICATE_VERIFY") /\ Around /\ nonce' = nonce
        /\ Becomes("client", a) \/ Becomes("client", Sent(a, m))
        BY <1>1, <2>1, <2>2 DEF WriteCertificateVerify, Around, envVars, cacheVars
  <2>4. Drift(c, a) /\ a.state = Following("CERTIFICATE_VERIFY") /\ a.end = "no"
        BY <2>1, <2>3, GoingOn DEF End
  <2>5. Drift(c, Sent(a, m)) /\ AsFar(a, Sent(a, m))
        BY <2>2, <2>4, DriftSent DEF Plain
  <2>6. PICK d : d \in {a, Sent(a, m)} /\ Took("client", d)
        BY <2>3 DEF Took
  <2> QED
    BY <1>1, <2>1, <2>3, <2>4, <2>5, <2>6, MiddleIs DEF Middle, AsFar
<1>2. CASE e = "server" /\ ParseCertificateVerify
  <2>1. PICK c, r, f : /\ c = ctx["server"] /\ r = Advance(Received(c, Incoming("server")))
                       /\ f = Fail(r, "signature")
        OBVIOUS
  <2>2. /\ Around /\ nonce' = nonce
        /\ \/ /\ Gets("server", "CERTIFICATE_VERIFY", {"CertificateVerify"})
              /\ Consumes("server", r) \/ Consumes("server", f)
           \/ At("server", "CERTIFICATE_VERIFY") /\ Becomes("server", Advance(c))
        BY <1>2, <2>1 DEF ParseCertificateVerify, Around, envVars, cacheVars
  <2>3. CASE /\ Gets("server", "CERTIFICATE_VERIFY", {"CertificateVerify"})
             /\ Consumes("server", r) \/ Consumes("server", f)
    <3>1. /\ Drift(c, r) /\ r.state = Following("CERTIFICATE_VERIFY") /\ r.end = "no"
          /\ At("server", "CERTIFICATE_VERIFY") /\ net["server"] # <<>>
          BY <2>1, <2>3, ReadingOn DEF End
    <3>2. Drift(c, f) /\ f.state = r.state /\ f.end = "signature"
          BY <2>1, <3>1, DriftFail
    <3>3. PICK d : d \in {r, f} /\ Took("server", d)
          BY <2>3, <3>1 DEF Took
    <3> QED
      BY <1>2, <2>1, <2>2, <3>1, <3>2, <3>3, MiddleIs DEF Middle
  <2>4. CASE At("server", "CERTIFICATE_VERIFY") /\ Becomes("server", Advance(c))
    BY <1>2, <2>1, <2>2, <2>4, GoingOn, MiddleIs DEF Middle, Took
  <2> QED
    BY <2>2, <2>3, <2>4
<1> QED
  BY <1>1, <1>2

\* Both ends of a ChangeCipherSpec, and the turn behind the last Finished.
LEMMA ChangeCipherSpecIs ==
  ASSUME Typed, NEW e \in End,
         WriteChangeCipherSpec(e) \/ ParseChangeCipherSpec(e) \/ FlushBuffers(e)
  PROVE  Middling(e)
<1>1. PICK c : c = ctx[e]
      OBVIOUS
<1>2. Around /\ nonce' = nonce
      BY DEF WriteChangeCipherSpec, ParseChangeCipherSpec, FlushBuffers, Around, envVars, cacheVars
<1>3. /\ SpecState(e) \in Middle \ {"CLIENT_KEY_EXCHANGE"}
      /\ SpecState(Other(e)) \in Middle \ {"CLIENT_KEY_EXCHANGE"}
      BY DEF SpecState, Other, Middle
<1>4. CASE WriteChangeCipherSpec(e)
  <2>1. PICK a, m : a = Advance(c) /\ m = [msg |-> "ChangeCipherSpec"]
        OBVIOUS
  <2>2. At(e, SpecState(e)) /\ Becomes(e, Sent(a, m))
        BY <1>1, <1>4, <2>1 DEF WriteChangeCipherSpec
  <2>3. Drift(c, a) /\ a.state = Following(SpecState(e)) /\ a.end = "no"
        BY <1>1, <2>1, <2>2, GoingOn
  <2>4. Drift(c, Sent(a, m)) /\ AsFar(a, Sent(a, m))
        BY <2>1, <2>3, DriftSent DEF Plain
  <2> QED
    BY <1>1, <1>2, <1>3, <2>2, <2>3, <2>4, MiddleIs DEF AsFar, Took
<1>5. CASE ParseChangeCipherSpec(e)
  <2>1. PICK r : r = Advance(Received(c, Incoming(e)))
        OBVIOUS
  <2>2. Gets(e, SpecState(Other(e)), {"ChangeCipherSpec"}) /\ Consumes(e, r)
        BY <1>1, <1>5, <2>1 DEF ParseChangeCipherSpec
  <2>3. /\ Drift(c, r) /\ r.state = Following(SpecState(Other(e))) /\ r.end = "no"
        /\ At(e, SpecState(Other(e))) /\ net[e] # <<>>
        BY <1>1, <2>1, <2>2, ReadingOn
  <2> QED
    BY <1>1, <1>2, <1>3, <2>2, <2>3, MiddleIs DEF Took
<1>6. CASE FlushBuffers(e)
  <2>1. At(e, "FLUSH_BUFFERS") /\ Becomes(e, Advance(c))
        BY <1>1, <1>6 DEF FlushBuffers
  <2> QED
    BY <1>1, <1>2, <2>1, GoingOn, MiddleIs DEF Middle, Took
<1> QED
  BY <1>4, <1>5, <1>6

\* A turn after which the end is where it was: it waits, or has left the connection.
Standing(e, c, d) ==
  /\ c.end = "no" /\ Took(e, d) /\ Drift(c, d)
  /\ d.state = c.state /\ nonce' = nonce /\ UNCHANGED <<conf, who, saved, origin, chain, now>>
  /\ \/ d.end = "no" /\ c.state = "HANDSHAKE_OVER"
     \/ d.end \in {"mac", "alert", "unexpected", "eof", "lost"}
     \/ /\ d.end \in {"hello", "version", "nocipher", "renegotiation"}
        /\ c.state = "SERVER_HELLO" /\ e = "client"

\* ssl_parse_server_hello, when it refuses.
LEMMA RefuseServerHelloIs ==
  ASSUME Typed, RefuseServerHello
  PROVE  \E d : Standing("client", ctx["client"], d)
<1>1. PICK o, c, error : /\ o = ctx["client"] /\ c = Received(o, Incoming("client"))
                         /\ error = HelloError(c, c.msg)
      OBVIOUS
<1>2. /\ Gets("client", "SERVER_HELLO", {"ServerHello"}) /\ error # "no"
      /\ Consumes("client", Abort(c, error)) \/ Consumes("client", Fail(c, error))
      /\ nonce' = nonce /\ UNCHANGED <<conf, who, saved, origin, chain, now>>
      BY <1>1 DEF RefuseServerHello, envVars, cacheVars
<1>3. At("client", "SERVER_HELLO") /\ net["client"] # <<>>
      BY <1>2, GetsFacts
<1>4. error \in {"hello", "version", "nocipher", "renegotiation"}
      BY <1>1, <1>2 DEF HelloError
<1>5. Drift(o, c) /\ AsFar(o, c)
      BY <1>1, TypedAt, DriftFrom, DriftReceived DEF End
<1>6. /\ Drift(o, Abort(c, error)) /\ Abort(c, error).state = c.state
      /\ Abort(c, error).end = error
      BY <1>5, DriftAbort
<1>7. Drift(o, Fail(c, error)) /\ Fail(c, error).state = c.state /\ Fail(c, error).end = error
      BY <1>5, DriftFail
<1>8. PICK d : d \in {Abort(c, error), Fail(c, error)} /\ Took("client", d)
      BY <1>2, <1>3 DEF Took
<1>9. o.state = "SERVER_HELLO" /\ o.end = "no"
      BY <1>1, <1>3 DEF At
<1> QED
  BY <1>1, <1>2, <1>4, <1>5, <1>6, <1>7, <1>8, <1>9 DEF Standing, AsFar

\* A record that is turned down, the end of the stream, and a lost connection.
LEMMA EndingIs ==
  ASSUME Typed, NEW e \in End, RefuseRecord(e) \/ Eof(e) \/ Lose(e)
  PROVE  \E d : Standing(e, ctx[e], d)
<1>1. PICK c : c = ctx[e]
      OBVIOUS
<1>2. Drift(c, c) /\ c.end = "no"
      BY <1>1, TypedAt, DriftFrom DEF RefuseRecord, Eof, Lose, At
<1>3. nonce' = nonce /\ UNCHANGED <<conf, who, saved, origin, chain, now>>
      BY DEF RefuseRecord, Eof, Lose, envVars, cacheVars
<1>4. PICK d, why : /\ d = Abort(c, why) \/ d = Fail(c, why)
                    /\ why \in {"mac", "alert", "unexpected", "eof", "lost"} /\ Took(e, d)
      BY <1>1, Zenon DEF RefuseRecord, Eof, Lose, Took
<1>5. Drift(c, d) /\ d.state = c.state /\ d.end = why
      BY <1>2, <1>4, DriftAbort, DriftFail
<1> QED
  BY <1>1, <1>2, <1>3, <1>4, <1>5 DEF Standing

\* ssl_write, ssl_read of data, and a ClientHello the server does not want.
LEMMA IdlingIs ==
  ASSUME Typed, NEW e \in End,
         \/ WriteData(e) \/ ReadData(e)
         \/ e = "server" /\ ~ conf.renegotiates /\ ReadHello
  PROVE  \E d : Standing(e, ctx[e], d)
<1>1. PICK c, r, m, n : /\ c = ctx[e] /\ r = Received(c, Incoming(e)) /\ m = [msg |-> "Data"]
                        /\ n = [msg |-> "NoRenegotiation"]
      OBVIOUS
<1>2. nonce' = nonce /\ UNCHANGED <<conf, who, saved, origin, chain, now>>
      BY DEF WriteData, ReadData, ReadHello, envVars, cacheVars
<1>3. PICK ms : \/ At(e, "HANDSHAKE_OVER") /\ Becomes(e, Sent(c, m))
                \/ /\ Gets(e, "HANDSHAKE_OVER", ms)
                   /\ Consumes(e, r) \/ Consumes(e, Sent(r, n))
      BY <1>1, Zenon DEF WriteData, ReadData, ReadHello
<1>4. At(e, "HANDSHAKE_OVER")
      BY <1>3, GetsFacts
<1>5. c.state = "HANDSHAKE_OVER" /\ c.end = "no"
      BY <1>1, <1>4 DEF At
<1>6. PICK d : d \in {Sent(c, m), r, Sent(r, n)} /\ Took(e, d)
      BY <1>3, GetsFacts DEF Took
<1>7. Drift(c, c)
      BY <1>1, TypedAt, DriftFrom
<1>8. Drift(c, Sent(c, m)) /\ AsFar(c, Sent(c, m))
      BY <1>1, <1>7, DriftSent DEF Plain
<1>9. Drift(c, r) /\ AsFar(c, r)
      BY <1>1, <1>7, DriftReceived
<1>10. Drift(c, Sent(r, n)) /\ AsFar(r, Sent(r, n))
      BY <1>1, <1>9, DriftSent DEF Plain
<1> QED
  BY <1>1, <1>2, <1>5, <1>6, <1>8, <1>9, <1>10 DEF Standing, AsFar

\* The server has found the session the client has offered.
Accepts(c, h) == ~ c.reneg /\ c.resume /\ c.neg.id = h.id /\ c.neg.suite = h.suite

\* The client goes on with the session it has offered ...
GoesOnWith(c, h, d) ==
  /\ Accepts(c, h) /\ d.sum = With(c.sum, h)
  /\ Same(c, d, {"sum", "msg", "minor", "rs", "state", "neg", "tneg", "premaster", "rc"})
  /\ d.state = "SERVER_CHANGE_CIPHER_SPEC"
  /\ d.neg = [x \in SessionFields |-> c.neg[x]]
  /\ d.tneg = KeysOf(c.neg.master, c.rc, h.random, c.neg.suite, h.minor)

\* ... or with the one the server names.
GoesAlong(c, h, d) ==
  /\ ~ Accepts(c, h) /\ d.sum = With(c.sum, h)
  /\ Same(c, d, {"sum", "msg", "minor", "rs", "state", "neg", "resume"})
  /\ d.state = "SERVER_CERTIFICATE" /\ d.resume = FALSE /\ d.rs = h.random
  /\ d.neg = [[c.neg EXCEPT !.id = h.id] EXCEPT !.suite = h.suite]

Heard(c, h) == [Received(c, h) EXCEPT !.minor = h.minor, !.rs = h.random]

\* A ServerHello is heard.
LEMMA HeardIs ==
  ASSUME NEW c, Context(c), c.state = "SERVER_HELLO", NEW h
  PROVE  /\ Same(c, Heard(c, h), {"sum", "msg", "minor", "rs"})
         /\ Heard(c, h).minor = h.minor /\ Heard(c, h).rs = h.random
         /\ Heard(c, h).sum = With(c.sum, h)
<1>1. PICK r : r = Received(c, h)
      OBVIOUS
<1>2. Same(c, r, {"sum", "msg"}) /\ r.sum = With(c.sum, h)
      BY <1>1, ReceivedIs
<1>3. Heard(c, h) = [r EXCEPT !.minor = h.minor, !.rs = h.random]
      BY <1>1 DEF Heard
<1> QED
  BY <1>2, <1>3 DEF Same, Context, Fields

\* A ServerHello names the session that is negotiated.
LEMMA AlongIs ==
  ASSUME NEW c, Context(c), c.state = "SERVER_HELLO", NEW h, ~ Accepts(c, h)
  PROVE  LET d == [Advance(Heard(c, h)) EXCEPT !.resume = FALSE, !.neg.id = h.id,
                                               !.neg.suite = h.suite]
         IN  GoesAlong(c, h, d) /\ d.minor = h.minor
<1>1. PICK x : x = Heard(c, h)
      OBVIOUS
<1>2. /\ Same(c, x, {"sum", "msg", "minor", "rs"}) /\ x.minor = h.minor /\ x.rs = h.random
      /\ x.sum = With(c.sum, h)
      BY <1>1, HeardIs
<1>3. Context(x) /\ x.state = "SERVER_HELLO"
      BY <1>2 DEF Same, Fields
<1>4. PICK a : a = Advance(x)
      OBVIOUS
<1>5. Same(x, a, {"state"}) /\ a.state = "SERVER_CERTIFICATE"
      BY <1>3, <1>4, AdvanceIs, ServerStates
<1>6. /\ Same(c, a, {"sum", "msg", "minor", "rs", "state"}) /\ a.minor = h.minor
      /\ a.rs = h.random /\ a.sum = With(c.sum, h)
      BY <1>2, <1>5 DEF Same, Fields
<1>7. {"neg", "resume"} \subseteq DOMAIN a /\ a.neg = c.neg /\ DOMAIN a = Fields
      BY <1>6 DEF Same, Context, Fields
<1>8. PICK d : d = [a EXCEPT !.resume = FALSE, !.neg.id = h.id, !.neg.suite = h.suite]
      OBVIOUS
<1>9. /\ DOMAIN d = DOMAIN a /\ d.resume = FALSE
      /\ d.neg = [[a.neg EXCEPT !.id = h.id] EXCEPT !.suite = h.suite]
      /\ \A f \in DOMAIN a \ {"neg", "resume"} : d[f] = a[f]
      BY ONLY <1>7, <1>8
<1>10. DOMAIN d.neg = SessionFields
      BY <1>6, <1>7, <1>9 DEF Same, Context
<1>11. Same(a, d, {"resume", "neg"})
      BY <1>7, <1>9, <1>10 DEF Same, Context
<1>12. /\ Same(c, d, {"sum", "msg", "minor", "rs", "state", "neg", "resume"})
       /\ d.state = a.state /\ d.minor = a.minor /\ d.rs = a.rs /\ d.sum = a.sum
      BY <1>6, <1>11 DEF Same, Fields
<1>13. GoesAlong(c, h, d) /\ d.minor = h.minor
      BY <1>5, <1>6, <1>7, <1>9, <1>12 DEF GoesAlong
<1> QED
  BY <1>1, <1>4, <1>8, <1>13

\* A ServerHello that names the session offered.
LEMMA OnWithIs ==
  ASSUME NEW c, Context(c), c.state = "SERVER_HELLO", NEW h, Accepts(c, h)
  PROVE  LET d == Derived([Heard(c, h) EXCEPT !.state = "SERVER_CHANGE_CIPHER_SPEC"])
         IN  GoesOnWith(c, h, d) /\ d.minor = h.minor
<1>1. PICK x : x = Heard(c, h)
      OBVIOUS
<1>2. /\ Same(c, x, {"sum", "msg", "minor", "rs"}) /\ x.minor = h.minor /\ x.rs = h.random
      /\ x.sum = With(c.sum, h)
      BY <1>1, HeardIs
<1>3. PICK y : y = [x EXCEPT !.state = "SERVER_CHANGE_CIPHER_SPEC"]
      OBVIOUS
<1>4. /\ Same(c, y, {"sum", "msg", "minor", "rs", "state"}) /\ y.minor = h.minor
      /\ y.rs = h.random /\ y.state = "SERVER_CHANGE_CIPHER_SPEC" /\ y.sum = With(c.sum, h)
      BY <1>2, <1>3 DEF Same, Context, Fields
<1>5. Context(y) /\ y.resume /\ y.neg = c.neg /\ y.rc = c.rc
      BY <1>4 DEF Same, Fields, Accepts
<1>6. PICK d : d = Derived(y)
      OBVIOUS
<1>7. /\ Same(y, d, {"neg", "tneg", "premaster", "rc", "rs"})
      /\ d.neg = [f \in SessionFields |-> y.neg[f]]
      /\ d.tneg = KeysOf(y.neg.master, y.rc, y.rs, y.neg.suite, y.minor)
      BY <1>5, <1>6, ResumedIs
<1>8. /\ Same(c, d, {"sum", "msg", "minor", "rs", "state", "neg", "tneg", "premaster", "rc"})
      /\ d.state = y.state /\ d.minor = y.minor /\ d.sum = y.sum
      BY <1>4, <1>7 DEF Same, Fields
<1>9. GoesOnWith(c, h, d) /\ d.minor = h.minor
      BY <1>4, <1>5, <1>7, <1>8 DEF GoesOnWith
<1> QED
  BY <1>1, <1>3, <1>6, <1>9

\* ssl_parse_server_hello, when it accepts.
LEMMA ParseServerHelloIs ==
  ASSUME Typed, ParseServerHello, NEW c, c = ctx["client"]
  PROVE  \E h, d : /\ Gets("client", "SERVER_HELLO", {"ServerHello"})
                   /\ h = Incoming("client") /\ h.minor \in Version /\ Consumes("client", d)
                   /\ GoesOnWith(c, h, d) \/ GoesAlong(c, h, d)
                   /\ d.minor = h.minor /\ nonce' = nonce /\ Around
<1>1. PICK h : h = Incoming("client")
      OBVIOUS
<1>2. /\ Gets("client", "SERVER_HELLO", {"ServerHello"}) /\ nonce' = nonce /\ Around
      BY DEF ParseServerHello, Around, envVars, cacheVars
<1>3. /\ At("client", "SERVER_HELLO") /\ net["client"] # <<>> /\ h.msg = "ServerHello"
      BY <1>1, <1>2, GetsFacts
<1>4. h.minor \in Version
      BY <1>1, <1>3, TypedIncoming DEF MessageOK, End
<1>5. Context(c) /\ c.state = "SERVER_HELLO"
      BY <1>3, TypedAt DEF End, At
<1>6. PICK x : x = Heard(c, h)
      OBVIOUS
<1>7. x.reneg = c.reneg /\ x.resume = c.resume /\ x.neg = c.neg
  <2>1. Same(c, Heard(c, h), {"sum", "msg", "minor", "rs"})
        BY <1>5, HeardIs, Zenon
  <2> QED
    BY <1>6, <2>1 DEF Same, Fields
<1>8. Consumes("client",
        IF ~ x.reneg /\ x.resume /\ x.neg.id = h.id /\ x.neg.suite = h.suite
        THEN Derived([x EXCEPT !.state = "SERVER_CHANGE_CIPHER_SPEC"])
        ELSE [Advance(x) EXCEPT !.resume = FALSE, !.neg.id = h.id, !.neg.suite = h.suite])
      BY <1>1, <1>6, Zenon DEF ParseServerHello, Heard
<1>9. CASE ~ x.reneg /\ x.resume /\ x.neg.id = h.id /\ x.neg.suite = h.suite
  <2>1. PICK d : d = Derived([x EXCEPT !.state = "SERVER_CHANGE_CIPHER_SPEC"])
        OBVIOUS
  <2>2. Consumes("client", d)
        BY <1>8, <1>9, <2>1
  <2>3. GoesOnWith(c, h, d) /\ d.minor = h.minor
    <3>1. Accepts(c, h)
          BY <1>7, <1>9 DEF Accepts
    <3>2. LET b == Derived([Heard(c, h) EXCEPT !.state = "SERVER_CHANGE_CIPHER_SPEC"])
          IN  GoesOnWith(c, h, b) /\ b.minor = h.minor
          BY ONLY <1>5, <3>1, OnWithIs, Zenon
    <3> QED
      BY ONLY <1>6, <2>1, <3>2
  <2> QED
    BY <1>1, <1>2, <1>4, <2>2, <2>3
<1>10. CASE ~ (~ x.reneg /\ x.resume /\ x.neg.id = h.id /\ x.neg.suite = h.suite)
  <2>1. PICK d : d = [Advance(x) EXCEPT !.resume = FALSE, !.neg.id = h.id,
                                        !.neg.suite = h.suite]
        OBVIOUS
  <2>2. Consumes("client", d)
        BY <1>8, <1>10, <2>1
  <2>3. GoesAlong(c, h, d) /\ d.minor = h.minor
    <3>2. ~ Accepts(c, h)
          BY <1>7, <1>10 DEF Accepts
    <3>1. LET b == [Advance(Heard(c, h)) EXCEPT !.resume = FALSE, !.neg.id = h.id,
                                                !.neg.suite = h.suite]
          IN  GoesAlong(c, h, b) /\ b.minor = h.minor
          BY ONLY <1>5, <3>2, AlongIs, Zenon
    <3> QED
      BY ONLY <1>6, <2>1, <3>1
  <2> QED
    BY <1>1, <1>2, <1>4, <2>2, <2>3
<1> QED
  BY <1>9, <1>10

\* A turn that may tell the peer who e is.
Presents(e, c, d) ==
  /\ At(e, CertificateState(e)) /\ Becomes(e, d) /\ nonce' = nonce /\ Around
  /\ \/ Drift(c, d) /\ d.end = "no" /\ d.state = Following(CertificateState(e))
     \/ Drift(c, d) /\ d.end = "nocert" /\ d.state = c.state
     \/ /\ Same(c, d, {"state", "sum", "out"})
        /\ d.state = Following(CertificateState(e))
        /\ d.out = [key |-> c.tout, body |-> [msg |-> "Certificate", cert |-> Own(e)]]

\* ssl_write_certificate.
LEMMA WriteCertificateIs ==
  ASSUME Typed, NEW e \in End, WriteCertificate(e)
  PROVE  \E d : Presents(e, ctx[e], d)
<1>1. PICK c, a, m, n : /\ c = ctx[e] /\ a = Advance(c) /\ m = [msg |-> "NoCertificate"]
                        /\ n = [msg |-> "Certificate", cert |-> Own(e)]
      OBVIOUS
<1>2. At(e, CertificateState(e)) /\ nonce' = nonce /\ Around
      BY DEF WriteCertificate, Around, envVars, cacheVars
<1>3. PICK d : /\ d \in {a, Fail(c, "nocert"), Sent(a, m), Sent(a, n)} /\ Becomes(e, d)
      BY <1>1 DEF WriteCertificate
<1>4. Drift(c, a) /\ a.state = Following(CertificateState(e)) /\ a.end = "no"
      BY <1>1, <1>2, GoingOn
<1>5. /\ Drift(c, Fail(c, "nocert")) /\ Fail(c, "nocert").state = c.state
      /\ Fail(c, "nocert").end = "nocert"
      BY <1>1, TypedAt, DriftFrom, DriftFail
<1>6. Drift(c, Sent(a, m)) /\ AsFar(a, Sent(a, m))
      BY <1>1, <1>4, DriftSent DEF Plain
<1>7. Same(c, a, {"state"})
      BY <1>1, TypedAt, AdvanceIs
<1>8. /\ Same(a, Sent(a, n), {"sum", "out"})
      /\ Sent(a, n).out = [key |-> a.tout, body |-> n]
      BY <1>7, SentIs DEF Same
<1>9. /\ Same(c, Sent(a, n), {"state", "sum", "out"}) /\ Sent(a, n).state = a.state
      /\ a.tout = c.tout
      BY <1>7, <1>8 DEF Same, Fields
<1>10. CASE d = Sent(a, n)
  BY <1>1, <1>2, <1>3, <1>4, <1>8, <1>9, <1>10 DEF Presents
<1>11. CASE d \in {a, Fail(c, "nocert"), Sent(a, m)}
  BY <1>1, <1>2, <1>3, <1>4, <1>5, <1>6, <1>11 DEF Presents, AsFar
<1> QED
  BY <1>3, <1>10, <1>11

\* The server asks for no certificate.
LEMMA SkipCertificateIs ==
  ASSUME Typed, SkipCertificate
  PROVE  \E d : /\ At("server", "CLIENT_CERTIFICATE") /\ conf.sauth = "NONE"
                /\ Becomes("server", d) /\ Drift(ctx["server"], d)
                /\ d.state = "CLIENT_KEY_EXCHANGE" /\ d.end = "no"
                /\ nonce' = nonce /\ Around
<1>1. PICK a, d : a = Advance(ctx["server"]) /\ d = [a EXCEPT !.verify = "skipped"]
      OBVIOUS
<1>2. /\ At("server", "CLIENT_CERTIFICATE") /\ conf.sauth = "NONE" /\ Becomes("server", d)
      /\ nonce' = nonce /\ Around
      BY <1>1 DEF SkipCertificate, Around, envVars, cacheVars
<1>3. /\ Drift(ctx["server"], a) /\ a.end = "no"
      /\ a.state = Following("CLIENT_CERTIFICATE")
      BY <1>1, <1>2, GoingOn DEF End
<1>4. Drift(ctx["server"], d) /\ AsFar(a, d)
      BY <1>1, <1>3, DriftField
<1> QED
  BY <1>2, <1>3, <1>4, ServerStates DEF AsFar

\* What e makes of the peer's certificate m.
Judges(e, c, m, d) ==
  /\ Same(c, d, Scratch) /\ d.out = c.out /\ d.rc = c.rc
  /\ d.neg.id = c.neg.id /\ d.neg.suite = c.neg.suite
  /\ d.state = Following(c.state)
  /\ \/ d.end = "badcert"
     \/ /\ d.end = "no"
        /\ Auth(e) = "REQUIRED" => /\ m.msg # "NoCertificate" /\ m.cert # None /\ m.cert.ok
                                   /\ d.neg.peer = m.cert

Checked(e, c, cert) == IF Auth(e) = "NONE" THEN c.verify
                       ELSE IF cert = None THEN "missing" ELSE IF cert.ok THEN "ok" ELSE "bad"
Noting(e, c, cert) == [c EXCEPT !.verify = Checked(e, c, cert),
                                !.neg.peer = IF cert = None THEN @ ELSE cert]

\* A certificate is noted.
LEMMA NotingIs ==
  ASSUME NEW c, Context(c), NEW e, NEW cert
  PROVE  /\ Same(c, Noting(e, c, cert), {"verify", "neg"})
         /\ Noting(e, c, cert).neg = [c.neg EXCEPT !.peer = IF cert = None THEN c.neg.peer ELSE cert]
<1>1. PICK v, d : v = Checked(e, c, cert) /\ d = Noting(e, c, cert)
      OBVIOUS
<1>2. d = [c EXCEPT !.verify = v, !.neg.peer = IF cert = None THEN @ ELSE cert]
      BY <1>1 DEF Noting
<1>3. {"verify", "neg"} \subseteq DOMAIN c
      BY DEF Context, Fields
<1>4. /\ DOMAIN d = DOMAIN c
      /\ d.neg = [c.neg EXCEPT !.peer = IF cert = None THEN c.neg.peer ELSE cert]
      /\ \A f \in DOMAIN c \ {"verify", "neg"} : d[f] = c[f]
      BY ONLY <1>2, <1>3
<1>5. DOMAIN d.neg = DOMAIN c.neg
      BY <1>4
<1> QED
  BY <1>1, <1>4, <1>5 DEF Same, Context

\* ssl_parse_certificate.
LEMMA ParseCertificateIs ==
  ASSUME Typed, NEW e \in End, ParseCertificate(e)
  PROVE  \E d : /\ Gets(e, CertificateState(Other(e)), {"Certificate", "NoCertificate"})
                /\ Consumes(e, d) /\ Judges(e, ctx[e], Incoming(e), d)
                /\ nonce' = nonce /\ Around
<1>1. PICK o, m, c : o = ctx[e] /\ m = Incoming(e) /\ c = Advance(Received(o, m))
      OBVIOUS
<1>2. PICK cert : cert = IF m.msg = "NoCertificate" THEN None ELSE m.cert
      OBVIOUS
<1>3. PICK n : n = Noting(e, c, cert)
      OBVIOUS
<1>4. PICK d : d = IF Auth(e) = "REQUIRED" /\ Checked(e, c, cert) # "ok"
                   THEN Fail(n, "badcert") ELSE n
      OBVIOUS
<1>5. /\ Gets(e, CertificateState(Other(e)), {"Certificate", "NoCertificate"})
      /\ Consumes(e, d) /\ nonce' = nonce /\ Around
      BY <1>1, <1>2, <1>3, <1>4, Zenon
         DEF ParseCertificate, Noting, Checked, Around, envVars, cacheVars
<1>6. /\ Drift(o, c) /\ c.state = Following(CertificateState(Other(e))) /\ c.end = "no"
      /\ At(e, CertificateState(Other(e)))
      BY <1>1, <1>5, ReadingOn
<1>7. Context(o) /\ o.out = None /\ o.state = CertificateState(Other(e))
      BY <1>1, <1>6, TypedAt DEF At
<1>8. c.out = o.out /\ Context(c)
  <2>1. Drift(o, Received(o, m)) /\ Received(o, m).out = o.out
        BY <1>7, DriftFrom, DriftReceived
  <2>2. Same(Received(o, m), c, {"state"})
        BY <1>1, <2>1, AdvanceIs DEF Drift, Same
  <2> QED
    BY <2>1, <2>2 DEF Same, Fields
<1>9. /\ Same(c, n, {"verify", "neg"})
      /\ n.neg = [c.neg EXCEPT !.peer = IF cert = None THEN c.neg.peer ELSE cert]
      BY <1>3, <1>8, NotingIs
<1>10. /\ n.neg.id = c.neg.id /\ n.neg.suite = c.neg.suite
       /\ n.neg.peer = IF cert = None THEN c.neg.peer ELSE cert
      BY <1>8, <1>9 DEF Context, SessionFields
<1>11. /\ Same(o, n, Scratch) /\ n.out = o.out /\ n.state = c.state /\ n.end = "no"
       /\ n.rc = o.rc
  <2>1. o.state # "CLIENT_KEY_EXCHANGE"
        BY <1>7 DEF CertificateState, Other
  <2> QED
    BY <1>6, <1>8, <1>9, <2>1 DEF Drift, Same, Fields, Scratch, SameKeys
<1>12. CASE d = Fail(n, "badcert")
  <2>1. Same(n, d, {"end"}) /\ d.end = "badcert"
        BY <1>11, <1>12, FailIs DEF Same
  <2>2. /\ Same(o, d, Scratch) /\ d.out = o.out /\ d.neg = n.neg /\ d.state = n.state
        /\ d.rc = o.rc
        BY <1>11, <2>1 DEF Same, Fields, Scratch
  <2>3. d.neg.id = o.neg.id /\ d.neg.suite = o.neg.suite
        BY <1>6, <1>10, <2>2 DEF Drift
  <2>4. Judges(e, o, m, d)
        BY <1>6, <1>7, <1>11, <2>1, <2>2, <2>3 DEF Judges
  <2> QED
    BY <1>1, <1>5, <2>4
<1>13. CASE d = n /\ ~ (Auth(e) = "REQUIRED" /\ Checked(e, c, cert) # "ok")
  <2>1. Auth(e) = "REQUIRED" => m.msg # "NoCertificate" /\ m.cert # None /\ m.cert.ok
                                /\ n.neg.peer = m.cert
        BY <1>2, <1>10, <1>13 DEF Checked
  <2>2. n.neg.id = o.neg.id /\ n.neg.suite = o.neg.suite
        BY <1>6, <1>10 DEF Drift
  <2>3. Judges(e, o, m, d)
        BY <1>6, <1>7, <1>11, <1>13, <2>1, <2>2 DEF Judges
  <2> QED
    BY <1>1, <1>5, <2>3
<1> QED
  BY <1>4, <1>12, <1>13

\* e is sure that the peer has its keys, and says so.
SaysFinished(e, c, d) ==
  /\ At(e, FinishedState(e)) /\ Becomes(e, d)
  /\ Same(c, d, {"own", "tout", "state", "sum", "out"})
  /\ d.state = AfterWriting(e, c) /\ d.own = FinishedBy(e, c) /\ d.tout = OutKey(e, c)
  /\ d.out = [key |-> OutKey(e, c), body |-> [msg |-> "Finished", hash |-> FinishedBy(e, c)]]
  /\ nonce' = nonce /\ UNCHANGED <<conf, who, saved, chain, now>>

\* ssl_write_finished.
LEMMA WriteFinishedIs ==
  ASSUME Typed, NEW e \in End, WriteFinished(e)
  PROVE  \E d : SaysFinished(e, ctx[e], d)
<1>1. PICK c, m, k, s : /\ c = ctx[e] /\ m = [msg |-> "Finished", hash |-> FinishedBy(e, c)]
                        /\ k = OutKey(e, c) /\ s = AfterWriting(e, c)
      OBVIOUS
<1>2. PICK b : b = [c EXCEPT !.own = m.hash, !.tout = k, !.state = s]
      OBVIOUS
<1>3. /\ At(e, FinishedState(e)) /\ Becomes(e, Sent(b, m)) /\ nonce' = nonce
      /\ UNCHANGED <<conf, who, saved, chain, now>>
      BY <1>1, <1>2, Zenon DEF WriteFinished, cacheVars
<1>4. Context(c)
      BY <1>1, TypedAt
<1>5. /\ Same(c, b, {"own", "tout", "state"}) /\ b.state = s /\ b.own = m.hash
      /\ b.tout = k
      BY <1>2, <1>4 DEF Same, Context, Fields
<1>6. /\ Same(b, Sent(b, m), {"sum", "out"})
      /\ Sent(b, m).out = [key |-> b.tout, body |-> m]
      BY <1>5, SentIs DEF Same
<1>7. /\ Same(c, Sent(b, m), {"own", "tout", "state", "sum", "out"})
      /\ Sent(b, m).state = s /\ Sent(b, m).own = m.hash /\ Sent(b, m).tout = k
      BY <1>5, <1>6 DEF Same, Fields
<1>8. m.hash = FinishedBy(e, c)
      BY <1>1
<1> QED
  BY <1>1, <1>3, <1>5, <1>6, <1>7, <1>8 DEF SaysFinished

\* e hears that its peer is sure of its keys.
HearsFinished(e, c, d) ==
  /\ Gets(e, FinishedState(Other(e)), {"Finished"}) /\ Consumes(e, d)
  /\ Same(c, d, {"sum", "msg", "tin", "peer", "state", "end"}) /\ d.tin = InKey(e, c)
  /\ \/ /\ d.end = "no" /\ d.state = AfterReading(e, c)
        /\ d.peer = FinishedBy(Other(e), c) /\ d.peer = Incoming(e).hash
     \/ d.end = "finished" /\ d.state = c.state
  /\ nonce' = nonce /\ Around

\* ssl_parse_finished.
LEMMA ParseFinishedIs ==
  ASSUME Typed, NEW e \in End, ParseFinished(e)
  PROVE  \E d : HearsFinished(e, ctx[e], d)
<1>1. PICK c, m, r, k : /\ c = ctx[e] /\ m = Incoming(e) /\ r = Received(c, m)
                        /\ k = InKey(e, c)
      OBVIOUS
<1>2. PICK b, x, s : /\ b = [r EXCEPT !.tin = k] /\ x = FinishedBy(Other(e), c)
                     /\ s = AfterReading(e, b)
      OBVIOUS
<1>3. /\ Gets(e, FinishedState(Other(e)), {"Finished"}) /\ nonce' = nonce /\ Around
      /\ \/ Consumes(e, [b EXCEPT !.peer = x, !.state = s]) /\ m.hash = x
         \/ Consumes(e, Fail(b, "finished"))
      BY <1>1, <1>2 DEF ParseFinished, Around, envVars, cacheVars
<1>4. Context(c) /\ c.end = "no"
      BY <1>1, <1>3, TypedAt, GetsFacts DEF At
<1>5. Same(c, r, {"sum", "msg"})
      BY <1>1, <1>4, ReceivedIs
<1>6. Same(c, b, {"sum", "msg", "tin"}) /\ b.tin = k
      BY <1>2, <1>5 DEF Same, Context, Fields
<1>7. b.state = c.state /\ b.resume = c.resume /\ b.end = "no"
      BY <1>4, <1>6 DEF Same, Fields
<1>8. s = AfterReading(e, c)
      BY <1>2, <1>7 DEF AfterReading
<1>9. PICK y, f : y = [b EXCEPT !.peer = x, !.state = s] /\ f = Fail(b, "finished")
      OBVIOUS
<1>10. /\ Same(c, y, {"sum", "msg", "tin", "peer", "state"}) /\ y.state = s /\ y.end = "no"
       /\ y.peer = x /\ y.tin = k
      BY <1>6, <1>7, <1>9 DEF Same, Context, Fields
<1>11. Same(b, f, {"end"}) /\ f.end = "finished"
      BY <1>6, <1>9, FailIs DEF Same
<1>12. Same(c, f, {"sum", "msg", "tin", "end"}) /\ f.state = c.state /\ f.tin = k
      BY <1>6, <1>7, <1>11 DEF Same, Fields
<1>13. HearsFinished(e, c, y) \/ HearsFinished(e, c, f)
      BY <1>1, <1>2, <1>3, <1>8, <1>9, <1>10, <1>11, <1>12 DEF HearsFinished, Same
<1> QED
  BY <1>1, <1>13

\* The session becomes the active one.
Wraps(e, c, d) ==
  /\ At(e, "HANDSHAKE_WRAPUP") /\ Becomes(e, d)
  /\ Same(c, d, {"state", "ses", "resume", "rc", "rs", "dh", "premaster", "sum", "neg", "tneg"})
  /\ d.state = "HANDSHAKE_OVER" /\ d.ses = c.neg /\ d.resume = FALSE
  /\ d.neg = NewSession /\ d.sum = <<>>
  /\ IF e = "server" THEN Put(c.neg) ELSE chain' = chain
  /\ nonce' = nonce /\ UNCHANGED <<conf, budget, who, saved, origin, now>>

\* ssl_handshake_wrapup.
LEMMA WrapupIs ==
  ASSUME Typed, NEW e \in End, Wrapup(e)
  PROVE  \E d : Wraps(e, ctx[e], d)
<1>1. PICK c, a, s : c = ctx[e] /\ a = Advance(c) /\ s = c.neg
      OBVIOUS
<1>2. PICK b : b = [a EXCEPT !.ses = s]
      OBVIOUS
<1>3. PICK d : d = HandshakeInit(b)
      OBVIOUS
<1>4. /\ At(e, "HANDSHAKE_WRAPUP") /\ Becomes(e, d)
      /\ IF e = "server" THEN Put(c.neg) ELSE chain' = chain
      /\ nonce' = nonce /\ UNCHANGED <<conf, budget, who, saved, origin, now>>
      BY <1>1, <1>2, <1>3 DEF Wrapup, envVars
<1>5. Context(c) /\ c.state = "HANDSHAKE_WRAPUP"
      BY <1>1, <1>4, TypedAt DEF At
<1>6. Same(c, a, {"state"}) /\ a.state = "HANDSHAKE_OVER"
      BY <1>1, <1>5, AdvanceIs, ServerStates
<1>7. Same(c, b, {"state", "ses"}) /\ b.state = "HANDSHAKE_OVER" /\ b.ses = s
      BY <1>2, <1>6 DEF Same, Context, Fields
<1>8. /\ Same(b, d, {"resume", "rc", "rs", "dh", "premaster", "sum", "neg", "tneg"})
      /\ d.resume = FALSE /\ d.sum = <<>> /\ d.neg = NewSession
      BY <1>3, <1>7, HandshakeInitIs DEF Same, Context
<1>9. /\ Same(c, d, {"state", "ses", "resume", "rc", "rs", "dh", "premaster", "sum", "neg", "tneg"})
      /\ d.state = b.state /\ d.ses = b.ses
      BY <1>7, <1>8 DEF Same, Fields
<1> QED
  BY <1>1, <1>4, <1>7, <1>8, <1>9 DEF Wraps

\* A record leaves out_msg.
Flushes(e, c, d) ==
  /\ c.out # None /\ Same(c, d, {"out"}) /\ d.out = None
  /\ ctx' = [ctx EXCEPT ![e] = d]
  /\ net' = [net EXCEPT ![Other(e)] = Append(@, c.out)]
  /\ nonce' = nonce /\ Around

\* ssl_flush_output.
LEMMA FlushIs ==
  ASSUME Typed, NEW e \in End, Flush(e)
  PROVE  \E d : Flushes(e, ctx[e], d)
<1>1. PICK c, d : c = ctx[e] /\ d = [c EXCEPT !.out = None]
      OBVIOUS
<1>2. Context(c)
      BY <1>1, TypedAt
<1>3. Same(c, d, {"out"}) /\ d.out = None
      BY <1>1, <1>2 DEF Same, Context, Fields
<1>4. ctx' = [ctx EXCEPT ![e] = d]
  <2>1. ctx' = [ctx EXCEPT ![e].out = None]
        BY DEF Flush
  <2>2. DOMAIN ctx = End
        BY DEF Typed
  <2> QED
    BY ONLY <1>1, <2>1, <2>2
<1> QED
  BY <1>1, <1>3, <1>4 DEF Flush, Flushes, Around, envVars, cacheVars

\* Another handshake begins on the connection.
Restarts(e, c, d) ==
  /\ At(e, "HANDSHAKE_OVER") /\ Took(e, d)
  /\ Same(c, d, {"state", "reneg", "msg", "resume", "rc", "rs", "dh", "premaster", "sum",
                 "neg", "tneg"})
  /\ d.state = "HELLO_REQUEST" /\ d.reneg = TRUE /\ d.resume = FALSE
  /\ d.neg = NewSession /\ d.sum = <<>> /\ d.dh = None
  /\ e = "server" => /\ net[e] # <<>> /\ Consumes(e, d)
                     /\ d.msg = Incoming(e) /\ d.msg.msg = "ClientHello"
  /\ nonce' = nonce /\ UNCHANGED <<conf, who, saved, origin, chain, now>>

\* The first half of ssl_renegotiate.
LEMMA RenegotiatingIs ==
  ASSUME NEW c, Context(c)
  PROVE  /\ Same(c, Renegotiating(c), {"state", "reneg", "resume", "rc", "rs", "dh",
                                       "premaster", "sum", "neg", "tneg"})
         /\ Renegotiating(c).state = "HELLO_REQUEST" /\ Renegotiating(c).reneg = TRUE
         /\ Renegotiating(c).resume = FALSE /\ Renegotiating(c).neg = NewSession
         /\ Renegotiating(c).sum = <<>> /\ Renegotiating(c).dh = None
<1>1. PICK b : b = [c EXCEPT !.state = "HELLO_REQUEST", !.reneg = TRUE]
      OBVIOUS
<1>2. /\ Same(c, b, {"state", "reneg"}) /\ b.state = "HELLO_REQUEST" /\ b.reneg = TRUE
      BY <1>1 DEF Same, Context, Fields
<1>3. PICK d : d = HandshakeInit(b)
      OBVIOUS
<1>4. /\ Same(b, d, {"resume", "rc", "rs", "dh", "premaster", "sum", "neg", "tneg"})
      /\ d.resume = FALSE /\ d.sum = <<>> /\ d.neg = NewSession /\ d.dh = None
      BY <1>2, <1>3, HandshakeInitIs DEF Same, Context
<1>5. /\ Same(c, d, {"state", "reneg", "resume", "rc", "rs", "dh", "premaster", "sum", "neg",
                     "tneg"})
      /\ d.state = b.state /\ d.reneg = b.reneg
      BY <1>2, <1>4 DEF Same, Fields
<1>6. d = Renegotiating(c)
      BY <1>1, <1>3 DEF Renegotiating
<1> QED
  BY <1>2, <1>4, <1>5, <1>6

\* ssl_renegotiate at the client, and a ClientHello the server does want.
LEMMA RestartIs ==
  ASSUME Typed, NEW e \in End,
         \/ e = "client" /\ Renegotiate
         \/ e = "server" /\ conf.renegotiates /\ ReadHello
  PROVE  \E d : Restarts(e, ctx[e], d)
<1>1. nonce' = nonce /\ UNCHANGED <<conf, who, saved, origin, chain, now>>
      BY DEF Renegotiate, ReadHello, envVars, cacheVars
<1>2. CASE e = "client" /\ Renegotiate
  <2>1. PICK c, d : c = ctx["client"] /\ d = Renegotiating(c)
        OBVIOUS
  <2>2. At("client", "HANDSHAKE_OVER") /\ Took("client", d)
        BY <1>2, <2>1 DEF Renegotiate, Took
  <2>3. Context(c)
        BY <2>1, TypedAt DEF End
  <2>4. /\ Same(c, d, {"state", "reneg", "resume", "rc", "rs", "dh", "premaster", "sum", "neg",
                       "tneg"})
        /\ d.state = "HELLO_REQUEST" /\ d.reneg = TRUE /\ d.resume = FALSE
        /\ d.neg = NewSession /\ d.sum = <<>> /\ d.dh = None
        BY <2>1, <2>3, RenegotiatingIs
  <2> QED
    BY <1>1, <1>2, <2>1, <2>2, <2>4 DEF Restarts, Same
<1>3. CASE e = "server" /\ conf.renegotiates /\ ReadHello
  <2>1. PICK c, m, r, d : /\ c = ctx["server"] /\ m = Incoming("server")
                          /\ r = Received(c, m) /\ d = Renegotiating(r)
        OBVIOUS
  <2>2. /\ Gets("server", "HANDSHAKE_OVER", {"ClientHello"}) /\ Consumes("server", d)
        BY <1>3, <2>1 DEF ReadHello
  <2>3. At("server", "HANDSHAKE_OVER") /\ net["server"] # <<>> /\ m.msg = "ClientHello"
        BY <2>1, <2>2, GetsFacts
  <2>4. Same(c, r, {"sum", "msg"}) /\ r.msg = m
        BY <2>1, TypedAt, ReceivedIs DEF End
  <2>5. /\ Same(r, d, {"state", "reneg", "resume", "rc", "rs", "dh", "premaster", "sum", "neg",
                       "tneg"})
        /\ d.state = "HELLO_REQUEST" /\ d.reneg = TRUE /\ d.resume = FALSE
        /\ d.neg = NewSession /\ d.sum = <<>> /\ d.dh = None
    <3>1. Context(r) /\ d = Renegotiating(r)
          BY <2>1, <2>4 DEF Same
    <3> QED
      BY ONLY <3>1, RenegotiatingIs
  <2>6. /\ Same(c, d, {"state", "reneg", "msg", "resume", "rc", "rs", "dh", "premaster", "sum",
                       "neg", "tneg"})
        /\ d.msg = m
        BY <2>4, <2>5 DEF Same, Fields
  <2> QED
    BY <1>1, <1>3, <2>1, <2>2, <2>3, <2>5, <2>6 DEF Restarts, Took
<1> QED
  BY <1>2, <1>3

\* The application closes the connection.
Closes(e, c, d) ==
  /\ At(e, "HANDSHAKE_OVER") /\ Becomes(e, d) /\ Same(c, d, {"end"}) /\ d.end = "closed"
  /\ saved' = IF e = "client" THEN [saved EXCEPT ![who] = c.ses] ELSE saved
  /\ nonce' = nonce /\ UNCHANGED <<conf, budget, who, origin, chain, now>>

\* ssl_close_notify, and what a client keeps.
LEMMA CloseIs ==
  ASSUME Typed, NEW e \in End, Close(e)
  PROVE  \E d : Closes(e, ctx[e], d)
<1>1. PICK c, d : c = ctx[e] /\ d = Fail(c, "closed")
      OBVIOUS
<1>2. Same(c, d, {"end"}) /\ d.end = "closed"
      BY <1>1, TypedAt, FailIs
<1> QED
  BY <1>1, <1>2 DEF Close, Closes, cacheVars

\* A context before its first handshake.
Opened(d) ==
  /\ Context(d) /\ d.state = "HELLO_REQUEST" /\ ~ d.reneg /\ d.ses = None /\ d.out = None
  /\ d.end = "no" /\ d.sum = <<>> /\ d.dh = None
  /\ d.own = None /\ d.peer = None /\ d.tin = None /\ d.tout = None

\* ssl_session_reset.
LEMMA ResetIs ==
  ASSUME NEW c, DOMAIN c = Fields
  PROVE  /\ Opened(Reset(c)) /\ Reset(c).resume = FALSE /\ Reset(c).neg = NewSession
         /\ Reset(c).max = c.max /\ Reset(c).minor = c.minor
<1>1. PICK b : b = [c EXCEPT !.state = "HELLO_REQUEST", !.reneg = FALSE, !.own = None,
                      !.peer = None, !.ses = None, !.tin = None, !.tout = None,
                      !.out = None, !.msg = None, !.end = "no"]
      OBVIOUS
<1>2. /\ DOMAIN b = Fields /\ b.state = "HELLO_REQUEST" /\ b.reneg = FALSE /\ b.ses = None
      /\ b.out = None /\ b.end = "no" /\ b.max = c.max /\ b.minor = c.minor
      /\ b.own = None /\ b.peer = None /\ b.tin = None /\ b.tout = None
      BY <1>1 DEF Fields
<1>3. PICK d : d = HandshakeInit(b)
      OBVIOUS
<1>4. /\ Same(b, d, {"resume", "rc", "rs", "dh", "premaster", "sum", "neg", "tneg"})
      /\ d.resume = FALSE /\ d.sum = <<>> /\ d.neg = NewSession /\ d.dh = None
      BY <1>2, <1>3, HandshakeInitIs
<1>5. /\ d.state = b.state /\ d.reneg = b.reneg /\ d.ses = b.ses /\ d.out = b.out
      /\ d.end = b.end /\ d.max = b.max /\ d.minor = b.minor
      /\ d.own = b.own /\ d.peer = b.peer /\ d.tin = b.tin /\ d.tout = b.tout
      BY <1>4 DEF Same, Fields
<1>6. d = Reset(c)
      BY <1>1, <1>3 DEF Reset
<1> QED
  BY <1>2, <1>4, <1>5, <1>6 DEF Opened, Same

\* ssl_init.
LEMMA NewIs ==
  /\ Opened(New) /\ New.resume = FALSE /\ New.neg = NewSession
  /\ New.max = 0 /\ New.minor = 0
<1>1. PICK b : b = [state |-> "", minor |-> 0, max |-> 0, reneg |-> FALSE,
                    own |-> None, peer |-> None, ses |-> None, neg |-> None, resume |-> FALSE,
                    rc |-> None, rs |-> None, dh |-> None, premaster |-> None, sum |-> <<>>,
                    tneg |-> None, tin |-> None, tout |-> None, auth |-> FALSE,
                    verify |-> "unknown", out |-> None, msg |-> None, end |-> "no"]
      OBVIOUS
<1>2. DOMAIN b = Fields /\ b.max = 0 /\ b.minor = 0
      BY <1>1 DEF Fields
<1>3. New = Reset(b)
      BY <1>1 DEF New
<1>4. /\ Opened(Reset(b)) /\ Reset(b).resume = FALSE /\ Reset(b).neg = NewSession
      /\ Reset(b).max = b.max /\ Reset(b).minor = b.minor
      BY <1>2, ResetIs
<1> QED
  BY <1>2, <1>3, <1>4

\* A new connection: the client may offer what it has kept.
Opens(k, c, d, s) ==
  /\ \A e \in End : ctx[e].end # "no"
  /\ ctx' = [client |-> d, server |-> s] /\ net' = [e \in End |-> <<>>] /\ who' = k
  /\ Opened(d) /\ d.max = conf.max /\ d.minor = 0
  /\ \/ d.resume = FALSE /\ d.neg = NewSession
     \/ saved[k] # None /\ d.neg = saved[k]
  /\ Opened(s) /\ s.max = c.max /\ s.minor = c.minor /\ s.resume = FALSE /\ s.neg = NewSession
  /\ nonce' = nonce /\ UNCHANGED <<conf, saved, origin, chain, now>>

\* ssl_session_reset, ssl_set_session.
LEMMA ConnectIs ==
  ASSUME Typed, NEW k \in Client, Connect(k)
  PROVE  \E d, s : Opens(k, ctx["server"], d, s)
<1>1. PICK offers \in BOOLEAN :
        /\ offers => saved[k] # None
        /\ ctx' = [client |-> [New EXCEPT !.resume = offers, !.max = conf.max,
                                          !.neg = IF offers THEN saved[k] ELSE @],
                   server |-> Reset(ctx["server"])]
      BY DEF Connect
<1>2. PICK n, s, v : /\ n = New /\ s = Reset(ctx["server"])
                     /\ v = IF offers THEN saved[k] ELSE n.neg
      OBVIOUS
<1>3. PICK d : d = [n EXCEPT !.resume = offers, !.max = conf.max, !.neg = v]
      OBVIOUS
<1>4. ctx' = [client |-> d, server |-> s]
      BY <1>1, <1>2, <1>3
<1>5. Opened(n) /\ n.resume = FALSE /\ n.neg = NewSession /\ n.minor = 0
      BY <1>2, NewIs
<1>6. DOMAIN v = SessionFields
      BY <1>1, <1>2, <1>5 DEF Typed, Opened, Context
<1>7. Same(n, d, {"resume", "max", "neg"}) /\ d.resume = offers /\ d.max = conf.max /\ d.neg = v
      BY <1>3, <1>5, <1>6 DEF Same, Opened, Context, Fields
<1>8. Opened(d) /\ d.minor = 0
      BY <1>5, <1>7 DEF Opened, Same, Fields
<1>9. /\ Opened(s) /\ s.max = ctx["server"].max /\ s.minor = ctx["server"].minor
      /\ s.resume = FALSE /\ s.neg = NewSession
      BY <1>2, TypedAt, ResetIs DEF Context, End
<1>10. \/ d.resume = FALSE /\ d.neg = NewSession
       \/ saved[k] # None /\ d.neg = saved[k]
      BY <1>1, <1>2, <1>5, <1>7
<1> QED
  BY <1>4, <1>7, <1>8, <1>9, <1>10 DEF Connect, Opens, cacheVars

-----------------------------------------------------------------------------
(* A step is one of these                                                   *)

Starts(e, c, d) ==
  /\ At(e, "HELLO_REQUEST") /\ Becomes(e, d) /\ Same(c, d, {"state"})
  /\ d.state = "CLIENT_HELLO" /\ nonce' = nonce /\ Around

Offers(c, d) ==
  /\ At("client", "CLIENT_HELLO") /\ Becomes("client", d)
  /\ Same(c, d, {"state", "minor", "rc", "sum", "out"})
  /\ d.state = "SERVER_HELLO" /\ d.rc = nonce
  /\ d.minor = IF c.reneg THEN c.minor ELSE conf.cmin
  /\ Says(c, d, ClientHello(c)) /\ nonce' = nonce + 1 /\ Around

TakesOffer(c, h, d) ==
  /\ At("server", "CLIENT_HELLO") /\ HelloRead(c, h, d)
  /\ h.msg = "ClientHello" /\ h.max \in Version
  /\ \/ c.reneg /\ h = c.msg /\ Becomes("server", d)
     \/ ~ c.reneg /\ h = Incoming("server") /\ net["server"] # <<>> /\ Consumes("server", d)
  /\ nonce' = nonce /\ Around

Names(c, d) ==
  /\ At("server", "SERVER_HELLO") /\ Becomes("server", d)
  /\ FoundInCache(c, d) \/ NewlyNamed(c, d)
  /\ Says(c, d, ServerHello(c, d.neg)) /\ nonce' = nonce + 2 /\ Around

TakesName(c, h, d) ==
  /\ Gets("client", "SERVER_HELLO", {"ServerHello"})
  /\ h = Incoming("client") /\ h.minor \in Version /\ Consumes("client", d)
  /\ GoesOnWith(c, h, d) \/ GoesAlong(c, h, d)
  /\ d.minor = h.minor /\ nonce' = nonce /\ Around

Skips(c, d) ==
  /\ At("server", "CLIENT_CERTIFICATE") /\ conf.sauth = "NONE"
  /\ Becomes("server", d) /\ Drift(c, d)
  /\ d.state = "CLIENT_KEY_EXCHANGE" /\ d.end = "no" /\ nonce' = nonce /\ Around

SeesCertificate(e, c, d) ==
  /\ Gets(e, CertificateState(Other(e)), {"Certificate", "NoCertificate"})
  /\ Consumes(e, d) /\ Judges(e, c, Incoming(e), d) /\ nonce' = nonce /\ Around

\* What one end does, whose context goes from c to d.
Moves(e, c, d) ==
  \/ Starts(e, c, d)
  \/ e = "client" /\ (Offers(c, d) \/ \E h : TakesName(c, h, d))
  \/ e = "server" /\ (Names(c, d) \/ Skips(c, d) \/ \E h : TakesOffer(c, h, d))
  \/ MiddleTurn(e, c, d) \/ Standing(e, c, d) \/ Presents(e, c, d) \/ SeesCertificate(e, c, d)
  \/ SaysFinished(e, c, d) \/ HearsFinished(e, c, d) \/ Wraps(e, c, d)
  \/ Flushes(e, c, d) \/ Restarts(e, c, d) \/ Closes(e, c, d)

\* The hellos.
LEMMA HelloMoves ==
  ASSUME Typed, NEW e \in End,
         \/ Start(e)
         \/ e = "client" /\ (WriteClientHello \/ RefuseServerHello \/ ParseServerHello)
         \/ e = "server" /\ (ParseClientHello \/ WriteServerHello)
  PROVE  \E d : Moves(e, ctx[e], d)
<1>1. CASE Start(e)
  <2>1. PICK c : c = ctx[e]
        OBVIOUS
  <2>2. PICK d : /\ At(e, "HELLO_REQUEST") /\ Becomes(e, d)
                 /\ Same(c, d, {"state"}) /\ d.state = "CLIENT_HELLO"
        BY <1>1, <2>1, StartIs
  <2>3. nonce' = nonce /\ Around
        BY <1>1 DEF Start, Around, envVars, cacheVars
  <2> QED
    BY <2>1, <2>2, <2>3 DEF Moves, Starts
<1>2. CASE e = "client" /\ WriteClientHello
  <2>1. PICK c : c = ctx["client"]
        OBVIOUS
  <2>2. PICK d : /\ At("client", "CLIENT_HELLO") /\ Becomes("client", d)
                 /\ Same(c, d, {"state", "minor", "rc", "sum", "out"})
                 /\ d.state = "SERVER_HELLO" /\ d.rc = nonce
                 /\ d.minor = IF c.reneg THEN c.minor ELSE conf.cmin
                 /\ d.sum = Append(c.sum, ClientHello(c))
                 /\ d.out = [key |-> c.tout, body |-> ClientHello(c)]
                 /\ nonce' = nonce + 1
        BY <1>2, <2>1, WriteClientHelloIs
  <2>3. Around
        BY <1>2 DEF WriteClientHello, Around, envVars, cacheVars
  <2> QED
    BY <1>2, <2>1, <2>2, <2>3 DEF Moves, Offers, Says
<1>3. CASE e = "client" /\ RefuseServerHello
  BY <1>3, RefuseServerHelloIs DEF Moves
<1>4. CASE e = "client" /\ ParseServerHello
  <2>1. PICK c : c = ctx["client"]
        OBVIOUS
  <2>2. \E h, d : TakesName(c, h, d)
        BY <1>4, <2>1, ParseServerHelloIs DEF TakesName
  <2> QED
    BY <1>4, <2>1, <2>2 DEF Moves
<1>5. CASE e = "server" /\ ParseClientHello
  <2>1. PICK c : c = ctx["server"]
        OBVIOUS
  <2>2. nonce' = nonce /\ Around
        BY <1>5 DEF ParseClientHello, Around, envVars, cacheVars
  <2>3. \E h, d : TakesOffer(c, h, d)
        BY <1>5, <2>1, <2>2, ParseClientHelloIs DEF TakesOffer
  <2> QED
    BY <1>5, <2>1, <2>3 DEF Moves
<1>6. CASE e = "server" /\ WriteServerHello
  <2>1. PICK c : c = ctx["server"]
        OBVIOUS
  <2>2. Around
        BY <1>6 DEF WriteServerHello, Around, envVars, cacheVars
  <2>3. \E d : Names(c, d)
        BY <1>6, <2>1, <2>2, WriteServerHelloIs DEF Names
  <2> QED
    BY <1>6, <2>1, <2>3 DEF Moves
<1> QED
  BY <1>1, <1>2, <1>3, <1>4, <1>5, <1>6

\* The turns behind the hellos.
LEMMA LaterMoves ==
  ASSUME Typed, NEW e \in End,
         \/ e = "client" /\ \/ ParseServerKeyExchange \/ ParseCertificateRequest
                            \/ ParseServerHelloDone \/ WriteClientKeyExchange
                            \/ WriteCertificateVerify
         \/ e = "server" /\ \/ SkipCertificate \/ WriteServerKeyExchange
                            \/ WriteCertificateRequest \/ WriteServerHelloDone
                            \/ ParseClientKeyExchange \/ ParseCertificateVerify
         \/ WriteCertificate(e) \/ ParseCertificate(e)
         \/ WriteChangeCipherSpec(e) \/ ParseChangeCipherSpec(e)
         \/ WriteFinished(e) \/ ParseFinished(e) \/ FlushBuffers(e) \/ Wrapup(e)
  PROVE  \E d : Moves(e, ctx[e], d)
<1>1. CASE \/ e = "client" /\ \/ ParseServerKeyExchange \/ ParseCertificateRequest
                              \/ ParseServerHelloDone \/ WriteClientKeyExchange
                              \/ WriteCertificateVerify
           \/ e = "server" /\ \/ WriteServerKeyExchange
                              \/ WriteCertificateRequest \/ WriteServerHelloDone
                              \/ ParseClientKeyExchange \/ ParseCertificateVerify
           \/ WriteChangeCipherSpec(e) \/ ParseChangeCipherSpec(e) \/ FlushBuffers(e)
  <2>1. Middling(e)
        BY <1>1, ParseServerKeyExchangeIs, CertificateRequestIs, ServerHelloDoneIs,
           WriteClientKeyExchangeIs, CertificateVerifyIs, WriteServerKeyExchangeIs,
           ParseClientKeyExchangeIs, ChangeCipherSpecIs
  <2> QED
    BY <2>1 DEF Middling, Moves
<1>2. CASE e = "server" /\ SkipCertificate
  BY <1>2, SkipCertificateIs DEF Moves, Skips
<1>3. CASE WriteCertificate(e)
  BY <1>3, WriteCertificateIs DEF Moves
<1>4. CASE ParseCertificate(e)
  BY <1>4, ParseCertificateIs DEF Moves, SeesCertificate
<1>5. CASE WriteFinished(e)
  BY <1>5, WriteFinishedIs DEF Moves
<1>6. CASE ParseFinished(e)
  BY <1>6, ParseFinishedIs DEF Moves
<1>7. CASE Wrapup(e)
  BY <1>7, WrapupIs DEF Moves
<1> QED
  BY <1>1, <1>2, <1>3, <1>4, <1>5, <1>6, <1>7

\* The turns of any time, and the applications.
LEMMA AnyTimeMoves ==
  ASSUME Typed, NEW e \in End,
         \/ Flush(e) \/ RefuseRecord(e) \/ Eof(e) \/ ReadData(e)
         \/ e = "server" /\ ReadHello
         \/ e = "client" /\ Renegotiate
         \/ WriteData(e) \/ Close(e) \/ Lose(e)
  PROVE  \E d : Moves(e, ctx[e], d)
<1>1. CASE Flush(e)
  BY <1>1, FlushIs DEF Moves
<1>2. CASE RefuseRecord(e) \/ Eof(e) \/ Lose(e)
  BY <1>2, EndingIs DEF Moves
<1>3. CASE \/ WriteData(e) \/ ReadData(e)
           \/ e = "server" /\ ~ conf.renegotiates /\ ReadHello
  BY <1>3, IdlingIs DEF Moves
<1>4. CASE \/ e = "client" /\ Renegotiate
           \/ e = "server" /\ conf.renegotiates /\ ReadHello
  BY <1>4, RestartIs DEF Moves
<1>5. CASE Close(e)
  BY <1>5, CloseIs DEF Moves
<1> QED
  BY <1>1, <1>2, <1>3, <1>4, <1>5

\* Every step.
LEMMA StepIs ==
  ASSUME Typed, [Next]_vars
  PROVE  \/ UNCHANGED vars \/ Tick
         \/ \E e \in End : \E d : Moves(e, ctx[e], d)
         \/ \E k \in Client : \E d, s : Opens(k, ctx["server"], d, s)
<1>1. ASSUME NEW e \in End, Turn(e)
      PROVE  \E d : Moves(e, ctx[e], d)
  BY <1>1, HelloMoves, LaterMoves, AnyTimeMoves DEF Turn, CommonTurn, ClientTurn, ServerTurn
<1>2. ASSUME NEW e \in End, Application(e)
      PROVE  \E d : Moves(e, ctx[e], d)
  BY <1>2, AnyTimeMoves DEF Application
<1>3. Renegotiate => \E d : Moves("client", ctx["client"], d)
  BY AnyTimeMoves DEF End
<1>4. ASSUME NEW k \in Client, Connect(k)
      PROVE  \E d, s : Opens(k, ctx["server"], d, s)
  BY <1>4, ConnectIs
<1> QED
  BY <1>1, <1>2, <1>3, <1>4 DEF Next, End

-----------------------------------------------------------------------------
(* Types                                                                    *)

\* state++ does not leave the list.
LEMMA FollowingNamed ==
  ASSUME NEW s \in Underway
  PROVE  Following(s) \in Named /\ Following(s) # "HELLO_REQUEST"
  BY ServerStates DEF Underway, Named

\* The net after a record is read.
LEMMA TailOK ==
  ASSUME NEW w, RecordsOK(w), w # <<>>
  PROVE  RecordsOK(Tail(w))
  BY TailOf DEF RecordsOK

\* The net after a record is sent.
LEMMA AppendOK ==
  ASSUME NEW w, RecordsOK(w), NEW r, MessageOK(r.body)
  PROVE  RecordsOK(Append(w, r))
<1>1. /\ Sequence(Append(w, r)) /\ Len(w) \in Nat /\ Len(Append(w, r)) = Len(w) + 1
      /\ \A i \in 1..Len(w) : Append(w, r)[i] = w[i]
      /\ Append(w, r)[Len(w) + 1] = r
      BY AppendTo DEF RecordsOK
<1>2. \A i \in 1..Len(Append(w, r)) : i \in 1..Len(w) \/ i = Len(w) + 1
      BY <1>1
<1> QED
  BY <1>1, <1>2 DEF RecordsOK

\* A turn keeps the types when its context does.
LEMMA MovedTyped ==
  ASSUME Typed, NEW e \in End, NEW d, ContextOK(e, d), Took(e, d), nonce' \in Nat,
         UNCHANGED <<conf, who, saved, now>>
  PROVE  Typed'
<1>1. /\ DOMAIN ctx' = End /\ DOMAIN net' = End
      /\ \A f \in End : ctx'[f] = IF f = e THEN d ELSE ctx[f]
      /\ \A f \in End : net'[f] = net[f] \/ (f = e /\ net[e] # <<>> /\ net'[f] = Tail(net[e]))
      BY DEF Took, Becomes, Consumes, Typed
<1>2. \A f \in End : RecordsOK(net'[f])
      BY <1>1, TailOK DEF Typed
<1>3. \A f \in End : ContextOK(f, ctx'[f])
      BY <1>1 DEF Typed
<1> QED
  BY <1>1, <1>2, <1>3 DEF Typed

\* A context that has drifted has the types still.
LEMMA DriftOK ==
  ASSUME NEW e, NEW c, ContextOK(e, c), NEW d, Drift(c, d), d.state \in Named,
         d.end \in Reasons, d.end # "no" \/ d.state \notin {"HELLO_REQUEST", "CLIENT_HELLO"}
  PROVE  ContextOK(e, d)
<1>1. /\ Context(d) /\ d.minor = c.minor /\ d.max = c.max /\ d.ses = c.ses
      BY DEF Drift, Same, Fields, Scratch
<1>2. d.out # None => MessageOK(d.out.body)
  <2>1. ASSUME NEW m, m.msg \in Plain PROVE MessageOK(m)
        BY <2>1 DEF Plain, MessageOK, Messages, HandshakeMessages
  <2> QED
    BY <2>1 DEF Drift, ContextOK
<1> QED
  BY <1>1, <1>2 DEF ContextOK

\* The context behind a step has the types: the hellos, ...
LEMMA HelloTyped ==
  ASSUME Typed, NEW e \in End, NEW c, c = ctx[e], NEW d,
         \/ Starts(e, c, d)
         \/ e = "client" /\ (Offers(c, d) \/ \E h : TakesName(c, h, d))
         \/ e = "server" /\ (Names(c, d) \/ \E h : TakesOffer(c, h, d))
  PROVE  ContextOK(e, d) /\ Took(e, d)
<1>1. ContextOK(e, c)
      BY TypedAt
<1>2. CASE Starts(e, c, d)
  <2>1. /\ Context(d) /\ d.minor = c.minor /\ d.max = c.max /\ d.ses = c.ses /\ d.out = c.out
        /\ d.end = c.end /\ d.reneg = c.reneg /\ d.msg = c.msg
        BY <1>2 DEF Starts, Same, Fields
  <2> QED
    BY <1>1, <1>2, <2>1 DEF Starts, At, Took, ContextOK, Named, Underway
<1>3. CASE e = "client" /\ Offers(c, d)
  <2>1. /\ Context(d) /\ d.max = c.max /\ d.ses = c.ses /\ d.end = c.end
        BY <1>3 DEF Offers, Same, Fields
  <2>2. d.minor \in Version
        BY <1>1, <1>3, SettingsOK DEF Offers, ContextOK
  <2>3. MessageOK(d.out.body)
        BY <1>1, <1>3 DEF Offers, Says, MessageOK, ClientHello, ContextOK, Messages,
                          HandshakeMessages
  <2> QED
    BY <1>1, <1>3, <2>1, <2>2, <2>3 DEF Offers, Took, ContextOK, Named, Underway
<1>4. ASSUME e = "client", NEW h, TakesName(c, h, d)
      PROVE  ContextOK(e, d) /\ Took(e, d)
  <2>1. /\ Context(d) /\ d.max = c.max /\ d.ses = c.ses /\ d.end = c.end /\ d.out = c.out
        /\ d.state \in {"SERVER_CHANGE_CIPHER_SPEC", "SERVER_CERTIFICATE"}
        BY <1>4 DEF TakesName, GoesOnWith, GoesAlong, Same, Fields
  <2>2. d.minor \in Version /\ Took(e, d)
        BY <1>4, GetsFacts DEF TakesName, Took
  <2> QED
    BY <1>1, <1>4, <2>1, <2>2 DEF ContextOK, Named, Underway
<1>5. CASE e = "server" /\ Names(c, d)
  <2>1. /\ Context(d) /\ d.max = c.max /\ d.ses = c.ses /\ d.end = c.end /\ d.minor = c.minor
        /\ d.state \in {"SERVER_CHANGE_CIPHER_SPEC", "SERVER_CERTIFICATE"}
        BY <1>5 DEF Names, FoundInCache, NewlyNamed, Same, Fields
  <2>2. MessageOK(d.out.body)
        BY <1>1, <1>5 DEF Names, Says, MessageOK, ServerHello, ContextOK, Messages,
                          HandshakeMessages
  <2> QED
    BY <1>1, <1>5, <2>1, <2>2 DEF Names, Took, ContextOK, Named, Underway
<1>6. ASSUME e = "server", NEW h, TakesOffer(c, h, d)
      PROVE  ContextOK(e, d) /\ Took(e, d)
  <2>1. Took(e, d) /\ c.state = "CLIENT_HELLO" /\ c.end = "no" /\ c.out = None
        BY <1>6 DEF TakesOffer, Took, At
  <2>2. h.max \in Version /\ HelloRead(c, h, d)
        BY <1>6 DEF TakesOffer
  <2>3. /\ Context(d) /\ d.ses = c.ses /\ d.max \in {c.max, h.max}
        /\ d.minor = IF h.max <= 3 THEN h.max ELSE 3
        /\ \/ d.state = "SERVER_HELLO" /\ d.end = c.end
           \/ d.state = c.state /\ d.end \in {"version", "nocipher", "renegotiation"}
        /\ d.out = c.out \/ d.out.body = [msg |-> "Fatal"]
        BY <2>2 DEF HelloRead, Same, Fields
  <2>4. d.minor \in Version /\ d.max \in Version
        BY <1>1, <2>2, <2>3 DEF ContextOK, Version
  <2>5. d.out # None => MessageOK(d.out.body)
        BY <2>1, <2>3 DEF MessageOK, Messages
  <2>6. d.end = "no" => d.state = "SERVER_HELLO"
        BY <2>3
  <2> QED
    BY <1>1, <2>1, <2>3, <2>4, <2>5, <2>6 DEF ContextOK, Named, Underway, Reasons
<1> QED
  BY <1>2, <1>3, <1>4, <1>5, <1>6

\* ... and the others.
LEMMA LaterTyped ==
  ASSUME Typed, NEW e \in End, NEW c, c = ctx[e], NEW d,
         \/ e = "server" /\ Skips(c, d)
         \/ MiddleTurn(e, c, d) \/ Standing(e, c, d) \/ Presents(e, c, d)
         \/ SeesCertificate(e, c, d) \/ SaysFinished(e, c, d) \/ HearsFinished(e, c, d)
         \/ Wraps(e, c, d) \/ Restarts(e, c, d) \/ Closes(e, c, d)
  PROVE  ContextOK(e, d) /\ Took(e, d)
<1>1. ContextOK(e, c) /\ Context(c)
      BY TypedAt
<1>2. CASE e = "server" /\ Skips(c, d)
  BY <1>1, <1>2, DriftOK DEF Skips, Took, Named, Underway, Reasons
<1>3. CASE MiddleTurn(e, c, d)
  <2>1. c.state \in Underway /\ c.state \notin {"HELLO_REQUEST", "CLIENT_HELLO"}
        /\ Following(c.state) # "CLIENT_HELLO"
        BY <1>3, ServerStates DEF MiddleTurn, Middle, Underway
  <2>2. Following(c.state) \in Named /\ Following(c.state) # "HELLO_REQUEST"
        BY <2>1, FollowingNamed
  <2> QED
    BY <1>1, <1>3, <2>1, <2>2, DriftOK DEF MiddleTurn, Named, Reasons
<1>4. CASE Standing(e, c, d)
  BY <1>1, <1>4, DriftOK DEF Standing, Named, Reasons, ContextOK
<1>5. CASE Presents(e, c, d)
  <2>1. /\ c.state = CertificateState(e) /\ c.end = "no" /\ Took(e, d)
        BY <1>5 DEF Presents, At, Took
  <2>2. /\ CertificateState(e) \in Named /\ Following(CertificateState(e)) \in Named
        /\ Following(CertificateState(e)) \notin {"HELLO_REQUEST", "CLIENT_HELLO"}
        BY ServerStates DEF CertificateState, Named, Underway, End
  <2>3. CASE Drift(c, d)
    <3>1. d.end \in {"no", "nocert"} /\ d.state \in {c.state, Following(CertificateState(e))}
          /\ (d.end = "no" => d.state = Following(CertificateState(e)))
      <4>1. CASE d.end = "no" /\ d.state = Following(CertificateState(e))
            BY <4>1
      <4>2. CASE d.end = "nocert" /\ d.state = c.state
            BY <4>2
      <4>3. CASE /\ Same(c, d, {"state", "sum", "out"})
                 /\ d.state = Following(CertificateState(e))
        <5>1. d.end = c.end
              BY <4>3 DEF Same, Fields
        <5> QED
          BY <2>1, <4>3, <5>1
      <4> QED
        BY <1>5, <4>1, <4>2, <4>3 DEF Presents
    <3> QED
      BY <1>1, <2>1, <2>2, <2>3, <3>1, DriftOK DEF Reasons
  <2>4. CASE /\ Same(c, d, {"state", "sum", "out"})
             /\ d.state = Following(CertificateState(e))
             /\ d.out.body = [msg |-> "Certificate", cert |-> Own(e)]
    <3>1. Context(d) /\ d.minor = c.minor /\ d.max = c.max /\ d.ses = c.ses /\ d.end = c.end
          BY <2>4 DEF Same, Fields
    <3>2. MessageOK(d.out.body)
          BY <2>4 DEF MessageOK, Messages, HandshakeMessages
    <3> QED
      BY <1>1, <2>1, <2>2, <2>4, <3>1, <3>2 DEF ContextOK
  <2> QED
    BY <1>5, <2>3, <2>4 DEF Presents
<1>6. CASE SeesCertificate(e, c, d)
  <2>1. /\ c.state = CertificateState(Other(e)) /\ Took(e, d)
        BY <1>6, GetsFacts DEF SeesCertificate, At, Took
  <2>2. /\ Following(c.state) \in Named
        /\ Following(c.state) \notin {"HELLO_REQUEST", "CLIENT_HELLO"}
        BY <2>1, ServerStates DEF CertificateState, Other, Named, Underway, End
  <2>3. /\ Context(d) /\ d.minor = c.minor /\ d.max = c.max /\ d.ses = c.ses
        /\ d.end \in {"badcert", "no"} /\ d.state = Following(c.state) /\ d.out = c.out
        BY <1>6 DEF SeesCertificate, Judges, Same, Fields, Scratch
  <2> QED
    BY <1>1, <2>1, <2>2, <2>3 DEF ContextOK, Reasons
<1>7. CASE SaysFinished(e, c, d)
  <2>1. /\ c.state = FinishedState(e) /\ c.end = "no" /\ Took(e, d)
        BY <1>7 DEF SaysFinished, At, Took
  <2>2. AfterWriting(e, c) \in Named \ {"HELLO_REQUEST", "CLIENT_HELLO"}
        BY <2>1, ServerStates DEF AfterWriting, FinishedState, Named, Underway, End
  <2>3. /\ Context(d) /\ d.minor = c.minor /\ d.max = c.max /\ d.ses = c.ses /\ d.end = c.end
        BY <1>7 DEF SaysFinished, Same, Fields
  <2>4. MessageOK(d.out.body)
        BY <1>7 DEF SaysFinished, MessageOK, Messages, HandshakeMessages
  <2> QED
    BY <1>1, <1>7, <2>1, <2>2, <2>3, <2>4 DEF ContextOK, SaysFinished
<1>8. CASE HearsFinished(e, c, d)
  <2>1. /\ c.state = FinishedState(Other(e)) /\ Took(e, d)
        BY <1>8, GetsFacts DEF HearsFinished, At, Took
  <2>2. {c.state, AfterReading(e, c)} \subseteq Named \ {"HELLO_REQUEST", "CLIENT_HELLO"}
        BY <2>1, ServerStates DEF AfterReading, FinishedState, Other, Named, Underway, End
  <2>3. /\ Context(d) /\ d.minor = c.minor /\ d.max = c.max /\ d.ses = c.ses
        /\ d.out = c.out /\ d.end \in {"no", "finished"}
        /\ d.state \in {c.state, AfterReading(e, c)}
        BY <1>8 DEF HearsFinished, Same, Fields
  <2> QED
    BY <1>1, <2>1, <2>2, <2>3 DEF ContextOK, Reasons
<1>9. CASE Wraps(e, c, d)
  <2>1. /\ Context(d) /\ d.minor = c.minor /\ d.max = c.max /\ d.out = c.out
        /\ d.end = c.end
        BY <1>9 DEF Wraps, Same, Fields
  <2>2. d.state = "HANDSHAKE_OVER" /\ d.ses = c.neg /\ Took(e, d)
        BY <1>9 DEF Wraps, Took
  <2> QED
    BY <1>1, <2>1, <2>2 DEF ContextOK, Context, Named
<1>10. CASE Restarts(e, c, d)
  <2>1. /\ Context(d) /\ d.minor = c.minor /\ d.max = c.max /\ d.ses = c.ses /\ d.out = c.out
        /\ d.end = c.end
        BY <1>10 DEF Restarts, Same, Fields
  <2>2. e = "server" => d.msg.msg = "ClientHello" /\ d.msg.max \in Version
        BY <1>10, TypedIncoming DEF Restarts, MessageOK
  <2> QED
    BY <1>1, <1>10, <2>1, <2>2 DEF Restarts, ContextOK, Named, Underway
<1>11. CASE Closes(e, c, d)
  <2>1. /\ Context(d) /\ d.minor = c.minor /\ d.max = c.max /\ d.ses = c.ses /\ d.out = c.out
        /\ d.state = c.state
        BY <1>11 DEF Closes, Same, Fields
  <2> QED
    BY <1>1, <1>11, <2>1 DEF Closes, ContextOK, Took, Reasons
<1> QED
  BY <1>2, <1>3, <1>4, <1>5, <1>6, <1>7, <1>8, <1>9, <1>10, <1>11

\* The types are kept.
LEMMA TypedStep ==
  ASSUME Typed, [Next]_vars
  PROVE  Typed'
<1>1. CASE UNCHANGED vars
  BY <1>1 DEF vars, Typed
<1>2. CASE Tick
  BY <1>2 DEF Tick, Typed
<1>3. ASSUME NEW e \in End, NEW d, Moves(e, ctx[e], d)
      PROVE  Typed'
  <2>1. PICK c : c = ctx[e]
        OBVIOUS
  <2>2. ContextOK(e, c)
        BY <2>1, TypedAt
  <2>3. CASE Flushes(e, c, d)
    <3>1. /\ DOMAIN ctx' = End /\ DOMAIN net' = End
          /\ \A f \in End : ctx'[f] = IF f = e THEN d ELSE ctx[f]
          /\ \A f \in End : net'[f] = IF f = Other(e) THEN Append(net[f], c.out) ELSE net[f]
          BY <2>3 DEF Flushes, Typed
    <3>2. MessageOK(c.out.body)
          BY <2>2, <2>3 DEF Flushes, ContextOK
    <3>3. \A f \in End : RecordsOK(net'[f])
          BY <3>1, <3>2, AppendOK DEF Typed
    <3>4. /\ Context(d) /\ d.out = None /\ \A f \in Fields \ {"out"} : d[f] = c[f]
          BY <2>3 DEF Flushes, Same
    <3>5. ContextOK(e, d)
          BY <2>2, <3>4 DEF ContextOK, Fields
    <3>6. \A f \in End : ContextOK(f, ctx'[f])
          BY <3>1, <3>5 DEF Typed
    <3>7. UNCHANGED <<conf, who, nonce, now, saved>>
          BY <2>3 DEF Flushes, Around
    <3> QED
      BY <3>1, <3>3, <3>6, <3>7 DEF Typed
  <2>4. CASE Closes(e, c, d)
    <3>1. ContextOK(e, d) /\ Took(e, d)
          BY <2>1, <2>4, LaterTyped
    <3>2. /\ DOMAIN saved' = Client
          /\ \A k \in Client : saved'[k] = None \/ DOMAIN saved'[k] = SessionFields
          BY <2>2, <2>4 DEF Closes, Typed, ContextOK
    <3>3. /\ DOMAIN ctx' = End /\ net' = net
          /\ \A f \in End : ctx'[f] = IF f = e THEN d ELSE ctx[f]
          BY <2>4 DEF Closes, Becomes, Typed
    <3>4. \A f \in End : ContextOK(f, ctx'[f])
          BY <3>1, <3>3 DEF Typed
    <3>5. UNCHANGED <<conf, who, nonce, now>>
          BY <2>4 DEF Closes
    <3> QED
      BY <3>2, <3>3, <3>4, <3>5 DEF Typed
  <2>5. CASE \/ Starts(e, c, d)
             \/ e = "client" /\ (Offers(c, d) \/ \E h : TakesName(c, h, d))
             \/ e = "server" /\ (Names(c, d) \/ \E h : TakesOffer(c, h, d))
    <3>1. ContextOK(e, d) /\ Took(e, d)
          BY <2>1, <2>5, HelloTyped
    <3>2. nonce' \in {nonce, nonce + 1, nonce + 2} /\ Around
          BY <2>5 DEF Starts, Offers, TakesName, Names, TakesOffer
    <3>3. nonce' \in Nat
          BY <3>2 DEF Typed
    <3> QED
      BY <3>1, <3>2, <3>3, MovedTyped DEF Around
  <2>6. CASE \/ e = "server" /\ Skips(c, d)
             \/ MiddleTurn(e, c, d) \/ Standing(e, c, d) \/ Presents(e, c, d)
             \/ SeesCertificate(e, c, d) \/ SaysFinished(e, c, d) \/ HearsFinished(e, c, d)
             \/ Wraps(e, c, d) \/ Restarts(e, c, d)
    <3>1. ContextOK(e, d) /\ Took(e, d)
          BY <2>1, <2>6, LaterTyped
    <3>2. nonce' \in {nonce, nonce + 1} /\ UNCHANGED <<conf, who, saved, now>>
          BY <2>6 DEF Skips, MiddleTurn, Standing, Presents, SeesCertificate, SaysFinished,
                      HearsFinished, Wraps, Restarts, Around
    <3>3. nonce' \in Nat
          BY <3>2 DEF Typed
    <3> QED
      BY <3>1, <3>2, <3>3, MovedTyped
  <2> QED
    BY <1>3, <2>1, <2>3, <2>4, <2>5, <2>6 DEF Moves
<1>4. ASSUME NEW k \in Client, NEW d, NEW s, Opens(k, ctx["server"], d, s)
      PROVE  Typed'
  <2>1. ContextOK("server", ctx["server"])
        BY TypedAt DEF End
  <2>2. ContextOK("client", d) /\ ContextOK("server", s)
        BY <1>4, <2>1, SettingsOK
           DEF Opens, Opened, ContextOK, Named, Underway, Reasons, Version
  <2>3. RecordsOK(<<>>)
        BY EmptySeq DEF RecordsOK, Sequence
  <2>4. /\ DOMAIN ctx' = End /\ DOMAIN net' = End
        /\ \A e \in End : ContextOK(e, ctx'[e]) /\ RecordsOK(net'[e])
        BY <1>4, <2>2, <2>3 DEF Opens, End
  <2>5. who' \in Client /\ UNCHANGED <<conf, nonce, now, saved>>
        BY <1>4 DEF Opens
  <2> QED
    BY <2>4, <2>5 DEF Typed
<1> QED
  BY <1>1, <1>2, <1>3, <1>4, StepIs

\* They hold before the first connection.
LEMMA InitTyped == Init => Typed
<1> SUFFICES ASSUME Init PROVE Typed
  OBVIOUS
<1>1. PICK d : d = Fail(New, "closed")
      OBVIOUS
<1>2. Opened(New) /\ New.max = 0 /\ New.minor = 0
      BY NewIs
<1>3. Same(New, d, {"end"}) /\ d.end = "closed"
      BY <1>1, <1>2, FailIs DEF Opened
<1>4. /\ Context(d) /\ d.state = "HELLO_REQUEST" /\ d.ses = None /\ d.out = None
      /\ d.max = 0 /\ d.minor = 0
      BY <1>2, <1>3 DEF Same, Fields, Opened
<1>5. \A e \in End : ContextOK(e, d)
      BY <1>3, <1>4 DEF ContextOK, Named, Underway, Reasons, Version
<1>6. RecordsOK(<<>>)
      BY EmptySeq DEF RecordsOK, Sequence
<1> QED
  BY <1>1, <1>5, <1>6 DEF Init, Typed

\* The states of the list.
LEMMA NamedStates == Named \subseteq {States[i] : i \in 1..17}
<1>1. /\ States[1] = "HELLO_REQUEST" /\ States[2] = "CLIENT_HELLO"
      /\ States[3] = "SERVER_HELLO" /\ States[4] = "SERVER_CERTIFICATE"
      /\ States[5] = "SERVER_KEY_EXCHANGE" /\ States[6] = "CERTIFICATE_REQUEST"
      /\ States[7] = "SERVER_HELLO_DONE" /\ States[8] = "CLIENT_CERTIFICATE"
      /\ States[9] = "CLIENT_KEY_EXCHANGE" /\ States[10] = "CERTIFICATE_VERIFY"
      /\ States[11] = "CLIENT_CHANGE_CIPHER_SPEC" /\ States[12] = "CLIENT_FINISHED"
      /\ States[13] = "SERVER_CHANGE_CIPHER_SPEC" /\ States[14] = "SERVER_FINISHED"
      /\ States[15] = "FLUSH_BUFFERS" /\ States[16] = "HANDSHAKE_WRAPUP"
      /\ States[17] = "HANDSHAKE_OVER"
      BY DEF States
<1>2. \A i \in 1..17 : States[i] \in {States[j] : j \in 1..17}
      OBVIOUS
<1>3. 1..17 = {1, 2, 3, 4, 5, 6, 7, 8, 9, 10, 11, 12, 13, 14, 15, 16, 17}
      OBVIOUS
<1> QED
  BY <1>1, <1>2, <1>3 DEF Named, Underway

\* Type correctness of the handshake, for any clients, settings and suites: every state
\* the switch of ssl_handshake_client_step or ssl_handshake_server_step is entered with
\* has a case, and the minor version both ends negotiate is one they implement.
THEOREM TypeCorrect == Spec => []TypeOK
<1>1. Init => Typed
      BY InitTyped
<1>2. Typed /\ [Next]_vars => Typed'
      BY TypedStep
<1>3. Typed /\ CacheBounded => TypeOK
  <2> SUFFICES ASSUME Typed, CacheBounded PROVE TypeOK
    OBVIOUS
  <2>1. \A e \in End : /\ ctx[e].state \in {States[i] : i \in 1..17}
                       /\ ctx[e].end \in Reasons /\ ctx[e].minor \in Version
                       /\ \A i \in 1..Len(net[e]) : net[e][i].body.msg \in Messages
        BY NamedStates DEF Typed, ContextOK, RecordsOK, MessageOK
  <2>2. DOMAIN NewSession = SessionFields
        BY DEF NewSession, SessionFields
  <2> QED
    BY <2>1, <2>2 DEF Typed, TypeOK
<1>4. Spec => []CacheBounded
      BY CacheBoundedAlways
<1> QED
  BY <1>1, <1>2, <1>3, <1>4, PTL DEF Spec

-----------------------------------------------------------------------------
(* No end believes in a handshake that the other has rejected: it would need *)
(* to have read the other's Finished, which is written after all that can be  *)
(* rejected has been read.                                                  *)

\* A NULL pointer is no session.
NullIsNoSession == \A s : DOMAIN s = SessionFields => s # None

\* The states before the keys change, in which an end may reject the other's messages.
Exchanging == {"HELLO_REQUEST", "CLIENT_HELLO", "SERVER_HELLO", "SERVER_CERTIFICATE",
  "SERVER_KEY_EXCHANGE", "CERTIFICATE_REQUEST", "SERVER_HELLO_DONE", "CLIENT_CERTIFICATE",
  "CLIENT_KEY_EXCHANGE"}

\* The states before e reads the other's Finished.
Unheard(e, resumes) ==
  IF resumes
  THEN Early \cup {"SERVER_CHANGE_CIPHER_SPEC", "SERVER_FINISHED"}
       \cup (IF e = "client" THEN {} ELSE {"CLIENT_CHANGE_CIPHER_SPEC", "CLIENT_FINISHED"})
  ELSE Underway \ ({"FLUSH_BUFFERS", "HANDSHAKE_WRAPUP"}
       \cup (IF e = "client" THEN {} ELSE {"SERVER_CHANGE_CIPHER_SPEC", "SERVER_FINISHED"}))

\* The first handshake, before the keys change, and before the other's Finished.
Tentative(c) == ~ c.reneg /\ c.state \in Exchanging
Deaf(e, c) == ~ c.reneg /\ c.ses = None /\ c.state \in Unheard(e, c.resume)

NoFinished(w) == \A i \in 1..Len(w) : w[i].body.msg # "Finished"

\* As long as e may reject, its peer has not heard a Finished of it, nor will it.
Unconfirmed(e) ==
  Tentative(ctx[e]) => /\ Deaf(Other(e), ctx[Other(e)]) /\ NoFinished(net[Other(e)])
                       /\ ctx[e].out # None => ctx[e].out.body.msg # "Finished"

\* A handshake that is over has left a session; only in the states above is it rejected.
Settled(c) == c.reneg \/ c.state = "HANDSHAKE_OVER" => c.ses # None
InTime(c) == c.end \in {"version", "nocipher", "hello", "nocert", "badcert"} => c.state \in Exchanging

RejectInv == Typed /\ \A e \in End : Unconfirmed(e) /\ Settled(ctx[e]) /\ InTime(ctx[e])

\* What a step makes of this in the context of the end that moves.
Cautious(e, c, d) ==
  /\ Tentative(d) => Tentative(c) /\ (d.out = c.out \/ d.out.body.msg # "Finished")
  /\ Deaf(e, c) => Deaf(e, d)
  /\ Settled(c) => Settled(d)
  /\ InTime(c) => InTime(d)

\* A context whose fields are those of another but for the state and what is left open.
LEMMA CautiousState ==
  ASSUME NEW e, NEW c, NEW d, d.reneg = c.reneg, d.ses = c.ses, d.resume = c.resume,
         d.out = c.out \/ d.out.body.msg # "Finished",
         d.state \in Exchanging => c.state \in Exchanging,
         c.state \in Unheard(e, c.resume) => d.state \in Unheard(e, c.resume),
         d.state = "HANDSHAKE_OVER" => c.state = "HANDSHAKE_OVER",
         InTime(d)
  PROVE  Cautious(e, c, d)
  BY DEF Cautious, Tentative, Deaf, Settled

\* The fields of a context that has drifted.
LEMMA DriftFields ==
  ASSUME NEW c, NEW d, Drift(c, d)
  PROVE  /\ d.reneg = c.reneg /\ d.ses = c.ses /\ d.resume = c.resume
         /\ d.out = c.out \/ d.out.body.msg # "Finished"
  BY DEF Drift, Same, Fields, Scratch, Plain

\* state++ in the middle of a handshake.
LEMMA UnheardMiddle ==
  ASSUME NEW e, NEW r, NEW s \in Middle
  PROVE  /\ Following(s) \notin Exchanging \/ s \in Exchanging
         /\ s \in Unheard(e, r) => Following(s) \in Unheard(e, r)
         /\ Following(s) # "HANDSHAKE_OVER" /\ s # "HANDSHAKE_OVER"
  BY ServerStates DEF Middle, Unheard, Early, Underway, Exchanging

\* The hellos are cautious steps ...
LEMMA HelloCautious ==
  ASSUME NEW e \in End, NEW c, NEW d,
         \/ Starts(e, c, d) /\ c.state = "HELLO_REQUEST" /\ c.end = "no"
         \/ /\ c.state = "CLIENT_HELLO" /\ c.end = "no"
            /\ \/ e = "client" /\ Offers(c, d)
               \/ e = "server" /\ \E h : TakesOffer(c, h, d)
         \/ /\ c.state = "SERVER_HELLO" /\ c.end = "no"
            /\ \/ e = "server" /\ Names(c, d)
               \/ e = "client" /\ \E h : TakesName(c, h, d)
  PROVE  Cautious(e, c, d)
<1>1. CASE Starts(e, c, d) /\ c.state = "HELLO_REQUEST" /\ c.end = "no"
  <2>1. /\ d.reneg = c.reneg /\ d.ses = c.ses /\ d.resume = c.resume /\ d.out = c.out
        /\ d.end = "no" /\ d.state = "CLIENT_HELLO"
        BY <1>1 DEF Starts, Same, Fields
  <2> QED
    BY <1>1, <2>1, CautiousState DEF Exchanging, Unheard, Early, Underway, InTime
<1>2. CASE c.state = "CLIENT_HELLO" /\ c.end = "no" /\ Offers(c, d)
  <2>1. /\ Same(c, d, {"state", "minor", "rc", "sum", "out"}) /\ d.state = "SERVER_HELLO"
        /\ Says(c, d, ClientHello(c))
        BY <1>2 DEF Offers
  <2>2. /\ d.reneg = c.reneg /\ d.ses = c.ses /\ d.resume = c.resume /\ d.end = c.end
        BY ONLY <2>1 DEF Same, Fields
  <2>3. d.out.body.msg = "ClientHello"
        BY ONLY <2>1 DEF Says, ClientHello
  <2>4. d.end = "no"
        BY <1>2, <2>2
  <2>5. d.state \in Exchanging => c.state \in Exchanging
        BY <1>2 DEF Exchanging
  <2>6. c.state \in Unheard(e, c.resume) => d.state \in Unheard(e, c.resume)
        BY <2>1 DEF Unheard, Early, Underway
  <2>7. InTime(d) /\ d.state # "HANDSHAKE_OVER" /\ d.out.body.msg # "Finished"
        BY <2>1, <2>3, <2>4 DEF InTime
  <2> QED
    BY ONLY <2>2, <2>5, <2>6, <2>7, CautiousState
<1>3. ASSUME c.state = "CLIENT_HELLO", c.end = "no", NEW h, TakesOffer(c, h, d)
      PROVE  Cautious(e, c, d)
  <2>1. /\ d.reneg = c.reneg /\ d.ses = c.ses /\ d.resume = c.resume
        /\ d.out = c.out \/ d.out.body.msg = "Fatal"
        /\ d.state = "SERVER_HELLO" \/ d.state = c.state
    <3>1. HelloRead(c, h, d)
          BY <1>3 DEF TakesOffer
    <3> QED
      BY ONLY <3>1 DEF HelloRead, Same, Fields
  <2>2. d.state \in Exchanging /\ c.state \in Exchanging /\ d.state # "HANDSHAKE_OVER"
        BY <1>3, <2>1 DEF Exchanging
  <2>3. c.state \in Unheard(e, c.resume) => d.state \in Unheard(e, c.resume)
        BY <2>1 DEF Unheard, Early, Underway
  <2>4. InTime(d) /\ (d.out = c.out \/ d.out.body.msg # "Finished")
        BY <2>1, <2>2 DEF InTime
  <2> QED
    BY ONLY <2>1, <2>2, <2>3, <2>4, CautiousState
<1>4. CASE c.state = "SERVER_HELLO" /\ c.end = "no" /\ Names(c, d)
  <2>1. /\ d.reneg = c.reneg /\ d.ses = c.ses
        /\ \/ d.state = "SERVER_CHANGE_CIPHER_SPEC" /\ d.resume = TRUE
           \/ d.state = "SERVER_CERTIFICATE" /\ d.resume = FALSE
        /\ d.out.body.msg = "ServerHello" /\ d.end = "no"
        BY <1>4 DEF Names, FoundInCache, NewlyNamed, Same, Fields, Says, ServerHello
  <2>2. d.state \in Unheard(e, d.resume)
        BY <2>1 DEF Unheard, Underway
  <2> QED
    BY <1>4, <2>1, <2>2 DEF Cautious, Tentative, Deaf, Settled, InTime, Exchanging
<1>5. ASSUME c.state = "SERVER_HELLO", c.end = "no", NEW h, TakesName(c, h, d)
      PROVE  Cautious(e, c, d)
  <2>1. /\ d.reneg = c.reneg /\ d.ses = c.ses /\ d.out = c.out /\ d.end = "no"
        BY <1>5 DEF TakesName, GoesOnWith, GoesAlong, Same, Fields
  <2>2. \/ d.state = "SERVER_CHANGE_CIPHER_SPEC" /\ d.resume = c.resume /\ c.resume
        \/ d.state = "SERVER_CERTIFICATE" /\ d.resume = FALSE
        BY <1>5 DEF TakesName, GoesOnWith, Accepts, GoesAlong, Same, Fields
  <2>3. d.state \in Unheard(e, d.resume)
        BY <2>2 DEF Unheard, Underway
  <2> QED
    BY <1>5, <2>1, <2>2, <2>3 DEF Cautious, Tentative, Deaf, Settled, InTime, Exchanging
<1> QED
  BY <1>1, <1>2, <1>3, <1>4, <1>5

\* ... and so are the others, but for the one that reads a Finished.
LEMMA LaterCautious ==
  ASSUME NullIsNoSession, NEW e \in End, NEW c, c = ctx[e], Context(c), NEW d,
         \/ e = "server" /\ Skips(c, d)
         \/ MiddleTurn(e, c, d) \/ Standing(e, c, d) \/ Presents(e, c, d)
         \/ SeesCertificate(e, c, d) \/ SaysFinished(e, c, d)
         \/ Wraps(e, c, d) \/ Restarts(e, c, d) \/ Closes(e, c, d) \/ Flushes(e, c, d)
  PROVE  Cautious(e, c, d) \/ (Flushes(e, c, d) /\ d.out = None)
<1>1. CASE e = "server" /\ Skips(c, d)
  <2>1. c.state = "CLIENT_CERTIFICATE" /\ d.state = "CLIENT_KEY_EXCHANGE" /\ d.end = "no"
        BY <1>1 DEF Skips, At
  <2>2. /\ d.reneg = c.reneg /\ d.ses = c.ses /\ d.resume = c.resume
        /\ d.out = c.out \/ d.out.body.msg # "Finished"
        BY <1>1, DriftFields DEF Skips
  <2> QED
    BY <2>1, <2>2, CautiousState DEF Exchanging, Unheard, Early, Underway, InTime
<1>2. CASE MiddleTurn(e, c, d)
  <2>1. /\ c.state \in Middle
        /\ d.end \in {"no", "unexpected", "signature"} /\ d.state \in {c.state, Following(c.state)}
        BY <1>2 DEF MiddleTurn
  <2>2. /\ d.reneg = c.reneg /\ d.ses = c.ses /\ d.resume = c.resume
        /\ d.out = c.out \/ d.out.body.msg # "Finished"
        BY <1>2, DriftFields DEF MiddleTurn
  <2>3. InTime(d)
        BY <2>1 DEF InTime
  <2> QED
    BY <2>1, <2>2, <2>3, CautiousState, UnheardMiddle
<1>3. CASE Standing(e, c, d)
  <2>1. /\ d.reneg = c.reneg /\ d.ses = c.ses /\ d.resume = c.resume
        /\ d.out = c.out \/ d.out.body.msg # "Finished"
        BY <1>3, DriftFields DEF Standing
  <2>2. d.state = c.state /\ InTime(d)
        BY <1>3 DEF Standing, InTime, Exchanging
  <2> QED
    BY <2>1, <2>2, CautiousState
<1>4. CASE Presents(e, c, d)
  <2>1. c.state = CertificateState(e) /\ c.end = "no"
        BY <1>4 DEF Presents, At
  <2>2. \A s \in {c.state, Following(c.state)} :
          /\ s \in Exchanging /\ c.state \in Exchanging /\ s # "HANDSHAKE_OVER"
          /\ c.state \in Unheard(e, c.resume) => s \in Unheard(e, c.resume)
    <3>1. \/ /\ c.state = "SERVER_CERTIFICATE" /\ Following(c.state) = "SERVER_KEY_EXCHANGE"
          \/ /\ c.state = "CLIENT_CERTIFICATE" /\ Following(c.state) = "CLIENT_KEY_EXCHANGE"
          BY <2>1, ServerStates DEF CertificateState
    <3> QED
      BY ONLY <3>1 DEF Exchanging, Unheard, Early, Underway
  <2>3. CASE Drift(c, d) /\ \/ d.end = "no" /\ d.state = Following(CertificateState(e))
                            \/ d.end = "nocert" /\ d.state = c.state
    <3>1. /\ d.reneg = c.reneg /\ d.ses = c.ses /\ d.resume = c.resume
          /\ d.out = c.out \/ d.out.body.msg # "Finished"
          BY <2>3, DriftFields
    <3>2. InTime(d)
          BY <2>1, <2>3 DEF InTime, Exchanging, CertificateState, End
    <3>3. d.state \in {c.state, Following(c.state)}
          BY <2>1, <2>3
    <3> QED
      BY ONLY <2>1, <2>2, <3>1, <3>2, <3>3, CautiousState
  <2>4. CASE /\ Same(c, d, {"state", "sum", "out"})
             /\ d.state = Following(CertificateState(e))
             /\ d.out.body = [msg |-> "Certificate", cert |-> Own(e)]
    <3>1. /\ d.reneg = c.reneg /\ d.ses = c.ses /\ d.resume = c.resume /\ d.end = "no"
          /\ d.out.body.msg # "Finished"
          BY <2>1, <2>4 DEF Same, Fields
    <3>2. InTime(d) /\ d.state \in {c.state, Following(c.state)}
          BY <2>1, <2>4, <3>1 DEF InTime
    <3> QED
      BY ONLY <2>1, <2>2, <3>1, <3>2, CautiousState
  <2> QED
    BY <1>4, <2>3, <2>4 DEF Presents
<1>5. CASE SeesCertificate(e, c, d)
  <2>1. c.state = CertificateState(Other(e))
        BY <1>5, GetsFacts DEF SeesCertificate, At
  <2>2. /\ d.reneg = c.reneg /\ d.ses = c.ses /\ d.resume = c.resume /\ d.out = c.out
        /\ d.state = Following(c.state)
        BY <1>5 DEF SeesCertificate, Judges, Same, Fields, Scratch
  <2> QED
    BY <2>1, <2>2, CautiousState, ServerStates
       DEF InTime, Exchanging, Unheard, Early, Underway, CertificateState, Other, End
<1>6. CASE SaysFinished(e, c, d)
  <2>1. c.state = FinishedState(e) /\ c.end = "no"
        BY <1>6 DEF SaysFinished, At
  <2>2. /\ d.reneg = c.reneg /\ d.ses = c.ses /\ d.resume = c.resume /\ d.end = "no"
        /\ d.state = AfterWriting(e, c)
        BY <1>6, <2>1 DEF SaysFinished, Same, Fields
  <2>3. AfterWriting(e, c) \notin Exchanging /\ AfterWriting(e, c) # "HANDSHAKE_OVER"
        BY <2>1, ServerStates DEF AfterWriting, FinishedState, Exchanging, End
  <2>4. c.state \in Unheard(e, c.resume) => AfterWriting(e, c) \in Unheard(e, c.resume)
        BY <2>1, ServerStates DEF AfterWriting, FinishedState, Unheard, Early, Underway, End
  <2> QED
    BY <2>1, <2>2, <2>3, <2>4 DEF Cautious, Tentative, Deaf, Settled, InTime
<1>7. CASE Wraps(e, c, d)
  <2>1. /\ c.state = "HANDSHAKE_WRAPUP" /\ d.state = "HANDSHAKE_OVER" /\ d.ses = c.neg
        /\ c.end = "no"
        BY <1>7 DEF Wraps, At
  <2>2. d.end = "no"
        BY <1>7, <2>1 DEF Wraps, Same, Fields
  <2>3. c.neg # None
        BY DEF NullIsNoSession, Context
  <2> QED
    BY <2>1, <2>2, <2>3
       DEF Cautious, Tentative, Deaf, Settled, InTime, Exchanging, Unheard, Early, Underway
<1>8. CASE Restarts(e, c, d)
  <2>1. /\ c.state = "HANDSHAKE_OVER" /\ c.end = "no" /\ d.reneg = TRUE
        BY <1>8 DEF Restarts, At
  <2>2. d.ses = c.ses /\ d.end = "no"
        BY <1>8, <2>1 DEF Restarts, Same, Fields
  <2> QED
    BY <2>1, <2>2
       DEF Cautious, Tentative, Deaf, Settled, InTime, Unheard, Early, Underway
<1>9. CASE Closes(e, c, d)
  <2>1. /\ d.reneg = c.reneg /\ d.ses = c.ses /\ d.resume = c.resume /\ d.out = c.out
        /\ d.state = c.state /\ d.end = "closed"
        BY <1>9 DEF Closes, Same, Fields
  <2> QED
    BY <2>1, CautiousState DEF InTime
<1>10. CASE Flushes(e, c, d)
  BY <1>10 DEF Flushes
<1> QED
  BY <1>1, <1>2, <1>3, <1>4, <1>5, <1>6, <1>7, <1>8, <1>9, <1>10

\* What is read was under way; the rest still is.
LEMMA TailNoFinished ==
  ASSUME NEW w, RecordsOK(w), w # <<>>, NoFinished(w)
  PROVE  NoFinished(Tail(w)) /\ Head(w).body.msg # "Finished"
<1>1. PICK S : w \in Seq(S)
      BY DEF RecordsOK, Sequence
<1>2. Len(w) \in Nat /\ Len(w) >= 1 /\ Head(w) = w[1] /\ Len(Tail(w)) = Len(w) - 1
      BY <1>1
<1>3. \A i \in 1..Len(Tail(w)) : Tail(w)[i] = w[i + 1] /\ i + 1 \in 1..Len(w)
      BY <1>1, <1>2
<1>4. 1 \in 1..Len(w)
      BY <1>2
<1> QED
  BY <1>2, <1>3, <1>4 DEF NoFinished

\* A record more is under way.
LEMMA AppendNoFinished ==
  ASSUME NEW w, RecordsOK(w), NoFinished(w), NEW r, r.body.msg # "Finished"
  PROVE  NoFinished(Append(w, r))
<1>1. PICK S : w \in Seq(S)
      BY DEF RecordsOK, Sequence
<1>2. Len(w) \in Nat /\ Append(w, r) \in Seq(S \cup {r}) /\ Len(Append(w, r)) = Len(w) + 1
  <2>1. w \in Seq(S \cup {r})
        BY <1>1, AppendTo
  <2> QED
    BY <1>1, <2>1
<1>3. \A i \in 1..Len(w) + 1 : Append(w, r)[i] = w[i] \/ (i = Len(w) + 1 /\ Append(w, r)[i] = r)
      BY <1>1
<1> QED
  BY <1>1, <1>2, <1>3 DEF NoFinished

\* The other end, and a context that is put in its place.
LEMMA OtherEnd ==
  ASSUME NEW e \in End
  PROVE  Other(e) \in End /\ Other(e) # e /\ Other(Other(e)) = e
         /\ \A f \in End : f = e \/ f = Other(e)
  BY DEF End, Other

\* A cautious step of one end leaves the other deaf.
LEMMA CautiousStep ==
  ASSUME RejectInv, Typed', NEW e \in End, NEW d, Took(e, d), Cautious(e, ctx[e], d)
  PROVE  RejectInv'
<1>1. PICK f : f = Other(e)
      OBVIOUS
<1>2. f \in End /\ f # e /\ Other(e) = f /\ Other(f) = e /\ \A g \in End : g = e \/ g = f
      BY <1>1, OtherEnd
<1>3. DOMAIN ctx = End /\ DOMAIN net = End /\ RecordsOK(net[e])
      BY DEF RejectInv, Typed
<1>4. ctx'[e] = d /\ ctx'[f] = ctx[f] /\ net'[f] = net[f]
      BY <1>2, <1>3 DEF Took, Becomes, Consumes
<1>5. net'[e] = net[e] \/ (net[e] # <<>> /\ net'[e] = Tail(net[e]))
      BY <1>3 DEF Took, Becomes, Consumes
<1>6. NoFinished(net[e]) => NoFinished(net'[e])
      BY <1>3, <1>5, TailNoFinished
<1>7. /\ Unconfirmed(e) /\ Settled(ctx[e]) /\ InTime(ctx[e])
      /\ Unconfirmed(f) /\ Settled(ctx[f]) /\ InTime(ctx[f])
      BY <1>2 DEF RejectInv
<1>8. Unconfirmed(e)'
      BY <1>2, <1>4, <1>7 DEF Unconfirmed, Cautious
<1>9. Unconfirmed(f)'
      BY <1>2, <1>4, <1>6, <1>7 DEF Unconfirmed, Cautious
<1>10. /\ Settled(ctx'[e]) /\ InTime(ctx'[e]) /\ Settled(ctx'[f]) /\ InTime(ctx'[f])
       BY <1>4, <1>7 DEF Cautious
<1> QED
  BY <1>2, <1>8, <1>9, <1>10 DEF RejectInv

\* So does the flush of what it has written.
LEMMA FlushRejects ==
  ASSUME RejectInv, Typed', NEW e \in End, NEW d, Flushes(e, ctx[e], d)
  PROVE  RejectInv'
<1>1. PICK f, c : f = Other(e) /\ c = ctx[e]
      OBVIOUS
<1>2. f \in End /\ f # e /\ Other(e) = f /\ Other(f) = e /\ \A g \in End : g = e \/ g = f
      BY <1>1, OtherEnd
<1>3. DOMAIN ctx = End /\ DOMAIN net = End /\ RecordsOK(net[f])
      BY <1>2 DEF RejectInv, Typed
<1>4. /\ c.out # None /\ d.out = None /\ d.reneg = c.reneg /\ d.ses = c.ses
      /\ d.resume = c.resume /\ d.state = c.state /\ d.end = c.end
      BY <1>1 DEF Flushes, Same, Fields
<1>5. ctx'[e] = d /\ ctx'[f] = ctx[f] /\ net'[e] = net[e] /\ net'[f] = Append(net[f], c.out)
      BY <1>1, <1>2, <1>3 DEF Flushes
<1>6. NoFinished(net[f]) /\ c.out.body.msg # "Finished" => NoFinished(net'[f])
      BY <1>3, <1>5, AppendNoFinished
<1>7. /\ Unconfirmed(e) /\ Settled(c) /\ InTime(c)
      /\ Unconfirmed(f) /\ Settled(ctx[f]) /\ InTime(ctx[f])
      BY <1>1, <1>2 DEF RejectInv
<1>8. Tentative(d) = Tentative(c) /\ (Deaf(e, c) => Deaf(e, d))
      BY <1>4 DEF Tentative, Deaf
<1>9. Unconfirmed(e)'
      BY <1>1, <1>2, <1>4, <1>5, <1>6, <1>7, <1>8 DEF Unconfirmed
<1>10. Unconfirmed(f)'
       BY <1>1, <1>2, <1>5, <1>7, <1>8 DEF Unconfirmed
<1>11. Settled(ctx'[e]) /\ InTime(ctx'[e]) /\ Settled(ctx'[f]) /\ InTime(ctx'[f])
       BY <1>4, <1>5, <1>7 DEF Settled, InTime
<1> QED
  BY <1>2, <1>9, <1>10, <1>11 DEF RejectInv

\* An end that reads a Finished is not deaf, so that the other has rejected nothing.
LEMMA HearsRejects ==
  ASSUME RejectInv, Typed', NEW e \in End, NEW d, HearsFinished(e, ctx[e], d)
  PROVE  RejectInv'
<1>1. PICK f, c : f = Other(e) /\ c = ctx[e]
      OBVIOUS
<1>2. f \in End /\ f # e /\ Other(e) = f /\ Other(f) = e /\ \A g \in End : g = e \/ g = f
      BY <1>1, OtherEnd
<1>3. DOMAIN ctx = End /\ DOMAIN net = End /\ RecordsOK(net[e])
      BY DEF RejectInv, Typed
<1>4. /\ c.state = FinishedState(f) /\ net[e] # <<>> /\ Head(net[e]).body.msg = "Finished"
      BY <1>1, GetsFacts DEF HearsFinished, Gets, At, Incoming
<1>5. /\ d.reneg = c.reneg /\ d.ses = c.ses /\ d.out = c.out
      /\ d.end \in {"no", "finished"} /\ d.state \in {c.state, AfterReading(e, c)}
      BY <1>1 DEF HearsFinished, Same, Fields
<1>6. ctx'[e] = d /\ ctx'[f] = ctx[f] /\ net'[f] = net[f]
      BY <1>2, <1>3 DEF HearsFinished, Consumes
<1>7. /\ Unconfirmed(e) /\ Settled(c) /\ InTime(c)
      /\ Unconfirmed(f) /\ Settled(ctx[f]) /\ InTime(ctx[f])
      BY <1>1, <1>2 DEF RejectInv
<1>8. ~ Tentative(ctx[f])
      BY <1>2, <1>3, <1>4, <1>7, TailNoFinished DEF Unconfirmed
<1>9. d.state \notin Exchanging /\ d.state # "HANDSHAKE_OVER"
  <2>1. /\ c.state \in {"CLIENT_FINISHED", "SERVER_FINISHED"}
        /\ AfterReading(e, c) \in {"SERVER_CHANGE_CIPHER_SPEC", "FLUSH_BUFFERS",
                                   "CLIENT_CHANGE_CIPHER_SPEC", "HANDSHAKE_WRAPUP"}
        BY <1>4, ServerStates DEF AfterReading, FinishedState
  <2> QED
    BY <1>5, <2>1 DEF Exchanging
<1>10. Unconfirmed(e)' /\ Unconfirmed(f)'
       BY <1>6, <1>8, <1>9 DEF Unconfirmed, Tentative
<1>11. Settled(ctx'[e]) /\ InTime(ctx'[e]) /\ Settled(ctx'[f]) /\ InTime(ctx'[f])
       BY <1>5, <1>6, <1>7, <1>9 DEF Settled, InTime
<1> QED
  BY <1>2, <1>10, <1>11 DEF RejectInv

\* Every step keeps it.
LEMMA RejectStep ==
  ASSUME NullIsNoSession, RejectInv, [Next]_vars
  PROVE  RejectInv'
<1>1. Typed /\ Typed'
      BY TypedStep DEF RejectInv
<1>2. CASE UNCHANGED vars \/ Tick
  <2>1. ctx' = ctx /\ net' = net
        BY <1>2 DEF vars, Tick
  <2>2. \A e \in End : Unconfirmed(e)'
        BY <2>1 DEF RejectInv, Unconfirmed
  <2> QED
    BY <1>1, <2>1, <2>2 DEF RejectInv
<1>3. ASSUME NEW e \in End, NEW d, Moves(e, ctx[e], d)
      PROVE  RejectInv'
  <2>1. PICK c : c = ctx[e]
        OBVIOUS
  <2>2. Context(c)
        BY <1>1, <2>1, TypedAt
  <2>3. CASE Flushes(e, c, d)
    BY <1>1, <2>1, <2>3, FlushRejects
  <2>4. CASE HearsFinished(e, c, d)
    BY <1>1, <2>1, <2>4, HearsRejects
  <2>5. CASE \/ Starts(e, c, d)
             \/ e = "client" /\ (Offers(c, d) \/ \E h : TakesName(c, h, d))
             \/ e = "server" /\ (Names(c, d) \/ \E h : TakesOffer(c, h, d))
    <3>1. Took(e, d)
          BY <1>1, <2>1, <2>5, HelloTyped
    <3>2. \/ Starts(e, c, d) /\ c.state = "HELLO_REQUEST" /\ c.end = "no"
          \/ /\ c.state = "CLIENT_HELLO" /\ c.end = "no"
             /\ \/ e = "client" /\ Offers(c, d)
                \/ e = "server" /\ \E h : TakesOffer(c, h, d)
          \/ /\ c.state = "SERVER_HELLO" /\ c.end = "no"
             /\ \/ e = "server" /\ Names(c, d)
                \/ e = "client" /\ \E h : TakesName(c, h, d)
          BY <2>1, <2>5 DEF Starts, Offers, TakesOffer, Names, TakesName, Gets, At
    <3>3. Cautious(e, c, d)
          BY ONLY <3>2, e \in End, HelloCautious
    <3> QED
      BY <1>1, <2>1, <3>1, <3>3, CautiousStep
  <2>6. CASE \/ e = "server" /\ Skips(c, d)
             \/ MiddleTurn(e, c, d) \/ Standing(e, c, d) \/ Presents(e, c, d)
             \/ SeesCertificate(e, c, d) \/ SaysFinished(e, c, d)
             \/ Wraps(e, c, d) \/ Restarts(e, c, d) \/ Closes(e, c, d)
    <3>1. Took(e, d)
          BY <1>1, <2>1, <2>6, LaterTyped
    <3>2. Cautious(e, c, d) \/ (Flushes(e, c, d) /\ d.out = None)
          BY <2>1, <2>2, <2>6, LaterCautious
    <3> QED
      BY <1>1, <2>1, <3>1, <3>2, CautiousStep, FlushRejects
  <2> QED
    BY <1>3, <2>1, <2>3, <2>4, <2>5, <2>6 DEF Moves
<1>4. ASSUME NEW k \in Client, NEW d, NEW s, Opens(k, ctx["server"], d, s)
      PROVE  RejectInv'
  <2>1. /\ ctx'["client"] = d /\ ctx'["server"] = s /\ \A e \in End : net'[e] = <<>>
        /\ Opened(d) /\ Opened(s)
        BY <1>4 DEF Opens, End
  <2>2. NoFinished(<<>>)
        BY EmptySeq DEF NoFinished
  <2>3. \A e \in End : Opened(ctx'[e]) /\ NoFinished(net'[e])
        BY <2>1, <2>2 DEF End
  <2>4. \A e \in End : Deaf(e, ctx'[e]) /\ Settled(ctx'[e]) /\ InTime(ctx'[e])
        BY <2>3 DEF Opened, Deaf, Settled, InTime, Unheard, Early, Underway
  <2>5. \A e \in End : ctx'[e].out = None /\ Other(e) \in End
        BY <2>3, OtherEnd DEF Opened
  <2>6. \A e \in End : Unconfirmed(e)'
        BY <2>3, <2>4, <2>5 DEF Unconfirmed
  <2> QED
    BY <1>1, <2>4, <2>6 DEF RejectInv
<1> QED
  BY <1>1, <1>2, <1>3, <1>4, StepIs

\* It holds before the first connection.
LEMMA InitReject == Init => RejectInv
<1> SUFFICES ASSUME Init PROVE RejectInv
  OBVIOUS
<1>1. PICK d : d = Fail(New, "closed")
      OBVIOUS
<1>2. Opened(New)
      BY NewIs
<1>3. Same(New, d, {"end"}) /\ d.end = "closed"
      BY <1>1, <1>2, FailIs DEF Opened
<1>4. d.state = "HELLO_REQUEST" /\ d.ses = None /\ d.out = None /\ d.reneg = FALSE
      BY <1>2, <1>3 DEF Same, Fields, Opened
<1>5. NoFinished(<<>>)
      BY EmptySeq DEF NoFinished
<1>6. \A e \in End : ctx[e] = d /\ net[e] = <<>> /\ Other(e) \in End
      BY <1>1, OtherEnd DEF Init
<1>7. \A e \in End : Deaf(e, d) /\ Settled(d) /\ InTime(d)
      BY <1>3, <1>4 DEF Deaf, Settled, InTime, Unheard, Early, Underway
<1>8. \A e \in End : Unconfirmed(e)
      BY <1>4, <1>5, <1>6, <1>7 DEF Unconfirmed
<1> QED
  BY <1>6, <1>7, <1>8, InitTyped DEF RejectInv

\* A handshake that one end has rejected for its hello or its certificate is one the other
\* has not completed: each rejects before it sends Finished, without which the other goes
\* no further (ssl_parse_server_hello, ssl_parse_client_hello, ssl_parse_certificate and
\* ssl_write_certificate), whatever is resumed, lost or renegotiated.
THEOREM RejectedByBothAlways ==
  ASSUME NullIsNoSession
  PROVE  Spec => []RejectedByBoth
<1>1. Init => RejectInv
      BY InitReject
<1>2. RejectInv /\ [Next]_vars => RejectInv'
      BY RejectStep
<1>3. RejectInv => RejectedByBoth
  <2> SUFFICES ASSUME RejectInv, NEW e \in End, ctx[e].ses = None,
                      ctx[e].end \in {"version", "nocipher", "hello", "nocert", "badcert"}
               PROVE  ctx[Other(e)].ses = None
    BY DEF RejectedByBoth
  <2>1. Unconfirmed(e) /\ Settled(ctx[e]) /\ InTime(ctx[e])
        BY DEF RejectInv
  <2>2. Tentative(ctx[e])
        BY <2>1 DEF Settled, InTime, Tentative
  <2> QED
    BY <2>1, <2>2 DEF Unconfirmed, Deaf
<1> QED
  BY <1>1, <1>2, <1>3, PTL DEF Spec

-----------------------------------------------------------------------------
(* An end that requires a certificate has verified its peer's.  In a handshake *)
(* that resumes, no one presents any: the session has to come from a handshake *)
(* with the same peer.  The server knows it by its id, which it has drawn for  *)
(* one client, and which no other client has ever learnt.                    *)

\* A NULL pointer is no session and no session id.
NullIsNothing == NullIsNoSession /\ None \notin Nat

\* A certificate e would accept of its peer.
Good(e, p) == p # None /\ p = Own(Other(e)) /\ p.ok

\* Session id x, if it is one, has been drawn, and is of no client but k.
IdOf(k, x) ==
  x = None \/ /\ x \in Nat /\ x < nonce
              /\ \A j \in Client : saved[j] # None /\ saved[j].id = x => j = k
              /\ conf.sauth = "REQUIRED" =>
                   \A i \in 1..Len(chain) : chain[i].id = x =>
                     chain[i].peer # None /\ chain[i].peer = conf.ccert[k] /\ chain[i].peer.ok

\* A message on its way to e presents its peer's own certificate and names a session of
\* the client that is connected.
Fits(e, m) == /\ m.msg = "Certificate" => m.cert = Own(Other(e))
              /\ m.msg \in {"ClientHello", "ServerHello"} => IdOf(who, m.id)

\* The states of a handshake in which e is done with its peer's certificate.
Judged(e) ==
  IF e = "client"
  THEN Underway \ {"HELLO_REQUEST", "CLIENT_HELLO", "SERVER_HELLO", "SERVER_CERTIFICATE"}
  ELSE {"CLIENT_KEY_EXCHANGE", "CERTIFICATE_VERIFY", "CLIENT_CHANGE_CIPHER_SPEC",
        "CLIENT_FINISHED", "SERVER_CHANGE_CIPHER_SPEC", "SERVER_FINISHED", "FLUSH_BUFFERS",
        "HANDSHAKE_WRAPUP"}

\* A client that offers a session has its certificate from there.
Offering(e, c) == e = "client" /\ c.resume /\ c.state \in Early

\* The sessions of an end are with its peer.
PeerKnown(e, c) ==
  /\ c.ses # None => IdOf(who, c.ses.id)
  /\ c.out # None => Fits(Other(e), c.out.body)
  /\ c.end = "no" => IdOf(who, c.neg.id)
  /\ Auth(e) = "REQUIRED" =>
       /\ c.ses # None => Good(e, c.ses.peer)
       /\ c.end = "no" /\ (c.state \in Judged(e) \/ Offering(e, c)) => Good(e, c.neg.peer)

\* A server's session has an id, and so has the hello it may still have to read.
ServerKnown(c) ==
  /\ c.end = "no" /\ c.state \in Underway \ Early => c.neg.id \in Nat
  /\ c.end = "no" /\ c.reneg /\ c.state \in {"HELLO_REQUEST", "CLIENT_HELLO"} => IdOf(who, c.msg.id)

Known(e, c) == PeerKnown(e, c) /\ (e = "server" => ServerKnown(c))

CacheKnown == Sequence(chain) /\ \A i \in 1..Len(chain) : chain[i].id \in Nat /\ chain[i].id < nonce

SavedKnown == \A k \in Client : saved[k] # None =>
  /\ IdOf(k, saved[k].id)
  /\ conf.cauth = "REQUIRED" => Good("client", saved[k].peer)

NetKnown(e) == \A i \in 1..Len(net[e]) : Fits(e, net[e][i].body)

PeerInv == Typed /\ CacheKnown /\ SavedKnown /\ \A e \in End : Known(e, ctx[e]) /\ NetKnown(e)
\* What the step leaves of the settings, and of the ids of the client that is connected.
Carries == /\ UNCHANGED <<conf, who>>
           /\ \A x : IdOf(who, x) => IdOf(who, x)'

\* Time goes by, and numbers are drawn.
LEMMA IdOfLater ==
  ASSUME NEW k, NEW x, IdOf(k, x), UNCHANGED <<conf, saved, chain>>,
         nonce \in Nat, nonce' \in Nat, nonce <= nonce'
  PROVE  IdOf(k, x)'
  BY DEF IdOf

\* So the ids are carried on.
LEMMA CarriesLater ==
  ASSUME UNCHANGED <<conf, who, saved, chain>>, nonce \in Nat, nonce' \in Nat, nonce <= nonce'
  PROVE  Carries
  BY IdOfLater DEF Carries

\* What the peer is to be like is a matter of the settings.
LEMMA GoodLater ==
  ASSUME NEW e, UNCHANGED <<conf, who>>
  PROVE  /\ \A p : Good(e, p)' = Good(e, p)
         /\ Auth(e)' = Auth(e) /\ Own(Other(e))' = Own(Other(e))
  BY DEF Good, Auth, Own, Other

\* What is known of a context that stays is still known, ...
LEMMA KnownLater ==
  ASSUME NEW e, NEW c, Known(e, c), Carries
  PROVE  Known(e, c)'
<1>1. \A f, m : Fits(f, m) => Fits(f, m)'
      BY GoodLater DEF Carries, Fits
<1>2. PeerKnown(e, c)'
      BY <1>1, GoodLater DEF Carries, Known, PeerKnown, Offering, Judged
<1>3. e = "server" => ServerKnown(c)'
      BY DEF Carries, Known, ServerKnown
<1> QED
  BY <1>2, <1>3 DEF Known

\* ... and so is what is known of the records that wait, ...
LEMMA NetKnownLater ==
  ASSUME NEW e, NetKnown(e), net'[e] = net[e], Carries
  PROVE  NetKnown(e)'
  BY GoodLater DEF Carries, NetKnown, Fits

\* ... when one of them is read, ...
LEMMA NetKnownTail ==
  ASSUME NEW e, NetKnown(e), RecordsOK(net[e]), net[e] # <<>>, net'[e] = Tail(net[e]), Carries
  PROVE  NetKnown(e)'
<1>1. \A i \in 1..Len(Tail(net[e])) : i + 1 \in 1..Len(net[e]) /\ Tail(net[e])[i] = net[e][i + 1]
      BY TailOf DEF RecordsOK
<1>2. \A m : Fits(e, m) => Fits(e, m)'
      BY GoodLater DEF Carries, Fits
<1> QED
  BY <1>1, <1>2 DEF NetKnown

\* ... or one more is sent.
LEMMA NetKnownAppend ==
  ASSUME NEW e, NetKnown(e), RecordsOK(net[e]), NEW r, Fits(e, r.body),
         net'[e] = Append(net[e], r), Carries
  PROVE  NetKnown(e)'
<1>1. PICK n : n = Len(net[e])
      OBVIOUS
<1>2. /\ n \in Nat /\ Len(net'[e]) = n + 1 /\ net'[e][n + 1] = r
      /\ \A i \in 1..n : net'[e][i] = net[e][i]
      BY <1>1, AppendTo DEF RecordsOK
<1>3. \A i \in 1..Len(net'[e]) : i \in 1..n \/ i = n + 1
      BY <1>2
<1>4. \A m : Fits(e, m) => Fits(e, m)'
      BY GoodLater DEF Carries, Fits
<1>5. \A i \in 1..Len(net'[e]) : Fits(e, net'[e][i].body)
      BY <1>1, <1>2, <1>3 DEF NetKnown
<1> QED
  BY <1>4, <1>5 DEF NetKnown

\* What a step has to show: the rest of the invariant is carried on.
LEMMA KnownStep ==
  ASSUME PeerInv, Typed', Carries, CacheKnown', SavedKnown',
         NEW e \in End, NEW d, Took(e, d), Known(e, d)'
  PROVE  PeerInv'
<1>1. PICK f : f = Other(e)
      OBVIOUS
<1>2. f \in End /\ f # e /\ \A g \in End : g = e \/ g = f
      BY <1>1, OtherEnd
<1>3. DOMAIN ctx = End /\ DOMAIN net = End /\ RecordsOK(net[e])
      BY DEF PeerInv, Typed
<1>4. ctx'[e] = d /\ ctx'[f] = ctx[f] /\ net'[f] = net[f]
      BY <1>2, <1>3 DEF Took, Becomes, Consumes
<1>5. net'[e] = net[e] \/ (net[e] # <<>> /\ net'[e] = Tail(net[e]))
      BY <1>3 DEF Took, Becomes, Consumes
<1>6. NetKnown(e) /\ NetKnown(f) /\ Known(f, ctx[f])
      BY <1>2 DEF PeerInv
<1>7. NetKnown(e)' /\ NetKnown(f)'
      BY <1>3, <1>4, <1>5, <1>6, NetKnownLater, NetKnownTail
<1>8. PICK b : b = ctx[f]
      OBVIOUS
<1>9. Known(f, b)'
      BY <1>6, <1>8, KnownLater
<1>10. (\A g \in End : Known(g, ctx[g]) /\ NetKnown(g))'
  <2>1. ctx'[e] = d /\ ctx'[f] = b
        BY <1>4, <1>8
  <2>2. Known(e, ctx[e])' /\ Known(f, ctx[f])'
        BY <1>9, <2>1 DEF Known, PeerKnown, ServerKnown, Offering
  <2> QED
    BY <1>2, <1>7, <2>2
<1> QED
  BY <1>10 DEF PeerInv

\* Most steps change neither the cache nor what the clients keep.
LEMMA PlainKnownStep ==
  ASSUME PeerInv, Typed', UNCHANGED <<conf, who, saved, chain>>, nonce <= nonce',
         NEW e \in End, NEW d, Took(e, d), Known(e, d)'
  PROVE  PeerInv'
<1>1. nonce \in Nat /\ nonce' \in Nat
      BY DEF PeerInv, Typed
<1>2. Carries
      BY <1>1, CarriesLater
<1>3. CacheKnown'
      BY <1>1 DEF PeerInv, CacheKnown
<1>4. SavedKnown'
  <2>1. \A k, x : IdOf(k, x) => IdOf(k, x)'
        BY <1>1, IdOfLater
  <2> QED
    BY <2>1, GoodLater DEF PeerInv, SavedKnown
<1> QED
  BY <1>2, <1>3, <1>4, KnownStep

\* The message that is read.
LEMMA IncomingFits ==
  ASSUME PeerInv, NEW e \in End, net[e] # <<>>
  PROVE  Fits(e, Incoming(e))
  BY TypedIncoming DEF PeerInv, NetKnown, Incoming

\* An end whose session stays the one it has.
LEMMA KnownDrift ==
  ASSUME NEW e \in End, NEW c, Known(e, c), NEW d,
         d.ses = c.ses, d.neg.id = c.neg.id, d.neg.peer = c.neg.peer,
         d.out = c.out \/ d.out.body.msg \notin {"Certificate", "ClientHello", "ServerHello"},
         d.end = "no" => c.end = "no",
         d.end = "no" => (d.state \in Judged(e) \/ Offering(e, d)
                            => c.state \in Judged(e) \/ Offering(e, c)),
         d.end = "no" => (d.state \in Underway \ Early => c.state \in Underway \ Early),
         d.end = "no" => d.state \notin {"HELLO_REQUEST", "CLIENT_HELLO"}
  PROVE  Known(e, d)
<1>1. PeerKnown(e, d)
      BY DEF Known, PeerKnown, Fits
<1>2. e = "server" => ServerKnown(d)
      BY DEF Known, ServerKnown
<1> QED
  BY <1>1, <1>2 DEF Known

\* The hellos, but for the one that draws an id.
LEMMA HelloKnown ==
  ASSUME PeerInv, NEW e \in End, NEW c, c = ctx[e], NEW d,
         \/ Starts(e, c, d)
         \/ e = "client" /\ (Offers(c, d) \/ \E h : TakesName(c, h, d))
         \/ e = "server" /\ \E h : TakesOffer(c, h, d)
  PROVE  Known(e, d)
<1>0. Known(e, c) /\ Context(c)
      BY TypedAt DEF PeerInv
<1>1. CASE Starts(e, c, d)
  <2>1. /\ c.state = "HELLO_REQUEST" /\ c.end = "no" /\ d.state = "CLIENT_HELLO"
        /\ Same(c, d, {"state"})
        BY <1>1 DEF Starts, At
  <2>2. /\ d.ses = c.ses /\ d.out = c.out /\ d.end = c.end /\ d.neg = c.neg
        /\ d.resume = c.resume /\ d.reneg = c.reneg /\ d.msg = c.msg
        BY ONLY <2>1 DEF Same, Fields
  <2>3. d.state \in Early /\ d.state \notin Judged(e) /\ c.state \in Early
        BY ONLY <2>1 DEF Early, Judged
  <2>4. PeerKnown(e, d)
        BY ONLY <1>0, <2>1, <2>2, <2>3 DEF Known, PeerKnown, Offering
  <2>5. e = "server" => ServerKnown(d)
        BY ONLY <1>0, <2>1, <2>2, <2>3 DEF Known, ServerKnown
  <2> QED
    BY <2>4, <2>5 DEF Known
<1>2. CASE e = "client" /\ Offers(c, d)
  <2>1. /\ c.state = "CLIENT_HELLO" /\ c.end = "no" /\ d.state = "SERVER_HELLO"
        /\ Same(c, d, {"state", "minor", "rc", "sum", "out"}) /\ Says(c, d, ClientHello(c))
        BY <1>2 DEF Offers, At
  <2>2. /\ d.ses = c.ses /\ d.end = c.end /\ d.neg = c.neg /\ d.resume = c.resume
        BY ONLY <2>1 DEF Same, Fields
  <2>3. d.state \in Early /\ d.state \notin Judged(e) /\ c.state \in Early
        BY ONLY <2>1 DEF Early, Judged
  <2>4. IdOf(who, c.neg.id)
        BY <1>0, <2>1 DEF Known, PeerKnown
  <2>5. d.out.body.msg = "ClientHello" /\ IdOf(who, d.out.body.id)
        BY <2>1, <2>4 DEF Says, ClientHello, IdOf
  <2>6. Fits(Other(e), d.out.body)
        BY <2>5 DEF Fits
  <2>7. PeerKnown(e, d)
        BY ONLY <1>0, <2>1, <2>2, <2>3, <2>6 DEF Known, PeerKnown, Offering
  <2> QED
    BY <1>2, <2>7 DEF Known
<1>3. CASE e = "client" /\ \E h : TakesName(c, h, d)
  <2>1. PICK h : TakesName(c, h, d)
        BY <1>3
  <2>2. /\ c.state = "SERVER_HELLO" /\ c.end = "no" /\ net[e] # <<>> /\ h = Incoming(e)
        /\ h.msg = "ServerHello" /\ (GoesOnWith(c, h, d) \/ GoesAlong(c, h, d))
        BY <1>3, <2>1, GetsFacts DEF TakesName, Gets, At, Incoming
  <2>3. IdOf(who, h.id)
        BY <2>2, IncomingFits DEF Fits
  <2>4. d.ses = c.ses /\ d.out = c.out /\ d.end = "no" /\ d.neg.id = h.id
    <3>1. CASE GoesOnWith(c, h, d)
      BY ONLY <2>2, <3>1 DEF GoesOnWith, Accepts, Same, Fields, SessionFields
    <3>2. CASE GoesAlong(c, h, d)
      BY ONLY <1>0, <2>2, <3>2 DEF GoesAlong, Same, Fields, Context, SessionFields
    <3> QED
      BY <2>2, <3>1, <3>2
  <2>5. CASE GoesOnWith(c, h, d)
    <3>1. d.neg.peer = c.neg.peer /\ c.resume
          BY ONLY <2>5, <1>0 DEF GoesOnWith, Accepts, SessionFields
    <3>2. Offering(e, c)
          BY <1>3, <2>2, <3>1 DEF Offering, Early
    <3>3. Auth(e) = "REQUIRED" => Good(e, d.neg.peer)
          BY <1>0, <2>2, <3>1, <3>2 DEF Known, PeerKnown
    <3> QED
      BY <1>0, <1>3, <2>3, <2>4, <3>3 DEF Known, PeerKnown
  <2>6. CASE GoesAlong(c, h, d)
    <3>1. d.state = "SERVER_CERTIFICATE"
          BY <2>6 DEF GoesAlong
    <3>2. d.state \notin Judged(e) /\ ~ Offering(e, d)
          BY <1>3, <3>1 DEF Judged, Offering, Early
    <3> QED
      BY <1>0, <1>3, <2>3, <2>4, <3>2 DEF Known, PeerKnown
  <2> QED
    BY <2>2, <2>5, <2>6
<1>4. CASE e = "server" /\ \E h : TakesOffer(c, h, d)
  <2>1. PICK h : TakesOffer(c, h, d)
        BY <1>4
  <2>2. /\ c.state = "CLIENT_HELLO" /\ c.end = "no" /\ HelloRead(c, h, d)
        /\ h.msg = "ClientHello"
        /\ (c.reneg /\ h = c.msg) \/ (net[e] # <<>> /\ h = Incoming(e))
        BY <1>4, <2>1 DEF TakesOffer, At
  <2>3. IdOf(who, h.id)
        BY <1>0, <1>4, <2>2, IncomingFits DEF Fits, Known, ServerKnown
  <2>4. CASE d.end = "no"
    <3>1. /\ Same(c, d, {"state", "sum", "msg", "minor", "max", "rc", "neg"})
          /\ d.state = "SERVER_HELLO"
          /\ d.neg = [[c.neg EXCEPT !.id = h.id] EXCEPT !.suite = Chosen(h, d.minor)]
          BY ONLY <2>2, <2>4 DEF HelloRead
    <3>2. d.ses = c.ses /\ d.out = c.out /\ d.neg.id = h.id
          BY ONLY <1>0, <3>1 DEF Same, Fields, Context, SessionFields
    <3>3. d.state \notin Judged(e) /\ ~ Offering(e, d) /\ d.state \in Early
          BY <1>4, <3>1 DEF Judged, Offering, Early
    <3> QED
      BY <1>0, <2>3, <3>1, <3>2, <3>3 DEF Known, PeerKnown, ServerKnown
  <2>5. CASE d.end # "no"
    <3>1. d.ses = c.ses /\ (d.out = c.out \/ d.out.body.msg = "Fatal")
          BY ONLY <2>2 DEF HelloRead, Same, Fields
    <3> QED
      BY <1>0, <2>5, <3>1 DEF Known, PeerKnown, ServerKnown, Fits
  <2> QED
    BY <2>4, <2>5
<1> QED
  BY <1>1, <1>2, <1>3, <1>4

\* What ssl_cache_get restores: an entry of the id that is asked for.
LEMMA RestoredFound ==
  ASSUME Sequence(chain), NEW s, DOMAIN s = SessionFields, Matches(s) # {}
  PROVE  /\ Restored(s).id = s.id
         /\ \E i \in 1..Len(chain) : /\ chain[i].id = s.id
                                     /\ Restored(s).peer = IF chain[i].peer = None THEN s.peer
                                                           ELSE chain[i].peer
<1>1. Len(chain) \in Nat
  <2>1. PICK S : chain \in Seq(S)
        BY DEF Sequence
  <2> QED
    BY <2>1
<1>2. Matches(s) \subseteq Nat
      BY <1>1 DEF Matches
<1>3. PICK i : i = First(Matches(s))
      OBVIOUS
<1>4. i \in 1..Len(chain) /\ chain[i].id = s.id
      BY <1>2, <1>3, FirstIsFirst DEF Matches
<1>5. PICK r : r = Restored(s)
      OBVIOUS
<1>6. r.id = s.id /\ r.peer = IF chain[i].peer = None THEN s.peer ELSE chain[i].peer
      BY <1>3, <1>5 DEF Restored, SessionFields
<1> QED
  BY <1>4, <1>5, <1>6

\* The server names a session of the cache or one of its own.
LEMMA NamesKnown ==
  ASSUME NullIsNothing, PeerInv, NEW c, c = ctx["server"], NEW d, Names(c, d)
  PROVE  Known("server", d)'
<1>1. /\ Known("server", c) /\ Context(c) /\ c.end = "no"
      /\ nonce \in Nat /\ nonce' = nonce + 2 /\ UNCHANGED <<conf, who, saved, chain>>
      BY TypedAt DEF PeerInv, Typed, End, Names, At, Around
<1>2. Carries
      BY <1>1, CarriesLater
<1>3. /\ d.ses = c.ses /\ d.end = "no"
      /\ \/ d.state = "SERVER_CHANGE_CIPHER_SPEC" /\ FoundInCache(c, d)
         \/ d.state = "SERVER_CERTIFICATE" /\ NewlyNamed(c, d)
      BY <1>1 DEF Names, FoundInCache, NewlyNamed, Same, Fields
<1>4. d.out.body.msg = "ServerHello" /\ d.out.body.id = d.neg.id
      BY DEF Names, Says, ServerHello
<1>5. ASSUME FoundInCache(c, d)
      PROVE  /\ d.neg.id \in Nat /\ IdOf(who, d.neg.id)'
             /\ conf.sauth = "REQUIRED" => Good("server", d.neg.peer)'
  <2>1. Matches(c.neg) # {} /\ d.neg = [x \in SessionFields |-> Restored(c.neg)[x]]
        BY <1>5 DEF FoundInCache
  <2>2. d.neg.id = Restored(c.neg).id /\ d.neg.peer = Restored(c.neg).peer
        BY ONLY <2>1 DEF SessionFields
  <2>3. Sequence(chain) /\ \A i \in 1..Len(chain) : chain[i].id \in Nat
        BY DEF PeerInv, CacheKnown
  <2>4. PICK i \in 1..Len(chain) :
               /\ chain[i].id = c.neg.id /\ d.neg.id = c.neg.id
               /\ d.neg.peer = IF chain[i].peer = None THEN c.neg.peer ELSE chain[i].peer
        BY <1>1, <2>1, <2>2, <2>3, RestoredFound DEF Context
  <2>5. IdOf(who, d.neg.id) /\ d.neg.id \in Nat /\ d.neg.id # None
        BY <1>1, <2>3, <2>4 DEF Known, PeerKnown, NullIsNothing
  <2>6. conf.sauth = "REQUIRED" => Good("server", d.neg.peer)
        BY <2>4, <2>5 DEF IdOf, Good, Own, Other
  <2>7. IdOf(who, d.neg.id)' /\ (conf.sauth = "REQUIRED" => Good("server", d.neg.peer)')
        BY <1>1, <1>2, <2>5, <2>6, GoodLater DEF Carries
  <2> QED
    BY <2>5, <2>7
<1>6. ASSUME NewlyNamed(c, d)
      PROVE  /\ d.neg.id \in Nat /\ IdOf(who, d.neg.id)'
             /\ d.state \notin Judged("server")
  <2>1. PICK n : n = nonce + 1 /\ d.neg.id = n
        BY <1>1, <1>6 DEF NewlyNamed, Context, SessionFields
  <2>2. /\ \A j \in Client : saved[j] # None => saved[j].id = None \/ saved[j].id < nonce
        /\ \A i \in 1..Len(chain) : chain[i].id \in Nat /\ chain[i].id < nonce
        BY DEF PeerInv, SavedKnown, IdOf, CacheKnown
  <2>3. /\ \A j \in Client : saved[j] # None => saved[j].id # n
        /\ \A i \in 1..Len(chain) : chain[i].id # n
        BY <1>1, <2>1, <2>2 DEF NullIsNothing
  <2>4. n \in Nat /\ n < nonce'
        BY <1>1, <2>1
  <2>5. IdOf(who, n)'
        BY <1>1, <2>3, <2>4 DEF IdOf
  <2>6. "SERVER_CERTIFICATE" \notin Judged("server")
        BY DEF Judged
  <2> QED
    BY <1>6, <2>1, <2>4, <2>5, <2>6 DEF NewlyNamed
<1>7. d.neg.id \in Nat /\ IdOf(who, d.neg.id)'
      BY <1>3, <1>5, <1>6
<1>8. d.state \notin {"HELLO_REQUEST", "CLIENT_HELLO"}
      BY <1>3
<1>9. c.ses # None => /\ IdOf(who, c.ses.id)'
                      /\ conf.sauth = "REQUIRED" => Good("server", c.ses.peer)'
      BY <1>1, <1>2, GoodLater DEF Carries, Known, PeerKnown, Auth
<1>10. Fits(Other("server"), d.out.body)'
       BY <1>4, <1>7 DEF Fits
<1>11. conf.sauth = "REQUIRED" /\ d.state \in Judged("server") => Good("server", d.neg.peer)'
       BY <1>3, <1>5, <1>6
<1>12. PeerKnown("server", d)'
       BY <1>1, <1>3, <1>7, <1>9, <1>10, <1>11 DEF PeerKnown, Offering, Auth, Judged
<1>13. ServerKnown(d)'
       BY <1>7, <1>8 DEF ServerKnown
<1> QED
  BY <1>12, <1>13 DEF Known

\* state++ in the middle of a handshake.
LEMMA JudgedMiddle ==
  ASSUME NEW e \in End, NEW s \in Middle, NEW t \in {s, Following(s)}
  PROVE  /\ t \in Judged(e) => s \in Judged(e)
         /\ s \in Underway \ Early /\ t \notin Early
  BY ServerStates DEF Middle, Judged, Early, Underway

\* A drift keeps the session.
LEMMA DriftSession ==
  ASSUME NEW c, NEW d, Drift(c, d)
  PROVE  /\ d.ses = c.ses /\ d.resume = c.resume /\ d.reneg = c.reneg
         /\ d.neg.id = c.neg.id /\ d.neg.peer = c.neg.peer
         /\ d.out = c.out \/ d.out.body.msg \notin {"Certificate", "ClientHello", "ServerHello"}
  BY DEF Drift, Same, Fields, Scratch, Plain

\* An end presents its own certificate, and none if it has none.
LEMMA PresentsKnown ==
  ASSUME PeerInv, NEW e \in End, NEW c, c = ctx[e], Known(e, c), NEW d, Presents(e, c, d)
  PROVE  Known(e, d)
<1>1. c.state = CertificateState(e) /\ c.end = "no"
      BY DEF Presents, At
<1>2. \/ c.state = "CLIENT_CERTIFICATE" /\ e = "client" /\ Following(c.state) = "CLIENT_KEY_EXCHANGE"
      \/ c.state = "SERVER_CERTIFICATE" /\ e = "server" /\ Following(c.state) = "SERVER_KEY_EXCHANGE"
      BY <1>1, ServerStates DEF CertificateState, End
<1>3. \A t \in {c.state, Following(c.state)} :
        /\ t \in Judged(e) => c.state \in Judged(e)
        /\ t \in Underway \ Early /\ c.state \in Underway \ Early
      BY ONLY <1>2 DEF Judged, Early, Underway
<1>4. CASE Drift(c, d) /\ d.end # "no"
  <2>1. /\ d.ses = c.ses /\ d.resume = c.resume /\ d.neg.id = c.neg.id /\ d.neg.peer = c.neg.peer
        /\ d.out = c.out \/ d.out.body.msg \notin {"Certificate", "ClientHello", "ServerHello"}
        BY <1>4, DriftSession
  <2> QED
    BY <1>4, <2>1, KnownDrift
<1>5. CASE Drift(c, d) /\ d.state = Following(CertificateState(e))
  <2>1. /\ d.ses = c.ses /\ d.resume = c.resume /\ d.neg.id = c.neg.id /\ d.neg.peer = c.neg.peer
        /\ d.out = c.out \/ d.out.body.msg \notin {"Certificate", "ClientHello", "ServerHello"}
        BY <1>5, DriftSession
  <2>2. d.state \in {c.state, Following(c.state)} /\ d.state \notin Early
        BY <1>1, <1>3, <1>5
  <2>3. d.state \notin {"HELLO_REQUEST", "CLIENT_HELLO"} /\ ~ Offering(e, d)
        BY <2>2 DEF Early, Offering
  <2> QED
    BY <1>1, <1>3, <2>1, <2>2, <2>3, KnownDrift
<1>6. CASE /\ Same(c, d, {"state", "sum", "out"})
           /\ d.state = Following(CertificateState(e))
           /\ d.out.body = [msg |-> "Certificate", cert |-> Own(e)]
  <2>1. /\ d.ses = c.ses /\ d.end = c.end /\ d.neg = c.neg /\ d.reneg = c.reneg
        BY <1>6 DEF Same, Fields
  <2>2. d.state \in {c.state, Following(c.state)} /\ d.state \notin Early
        BY <1>1, <1>3, <1>6
  <2>3. d.state \notin {"HELLO_REQUEST", "CLIENT_HELLO"} /\ ~ Offering(e, d)
        BY <2>2 DEF Early, Offering
  <2>4. Fits(Other(e), d.out.body)
    <3>1. Other(Other(e)) = e /\ d.out.body.msg = "Certificate" /\ d.out.body.cert = Own(e)
          BY <1>6, OtherEnd
    <3> QED
      BY <3>1 DEF Fits
  <2>5. PeerKnown(e, d)
        BY <1>1, <1>3, <2>1, <2>2, <2>3, <2>4 DEF Known, PeerKnown
  <2>6. e = "server" => ServerKnown(d)
        BY <1>1, <1>3, <2>1, <2>2, <2>3 DEF Known, ServerKnown
  <2> QED
    BY <2>5, <2>6 DEF Known
<1> QED
  BY <1>4, <1>5, <1>6 DEF Presents

\* What it makes of the certificate of its peer.
LEMMA SeesKnown ==
  ASSUME PeerInv, NEW e \in End, NEW c, c = ctx[e], Known(e, c), NEW d, SeesCertificate(e, c, d)
  PROVE  Known(e, d)
<1>1. PICK m : m = Incoming(e)
      OBVIOUS
<1>2. /\ c.state = CertificateState(Other(e)) /\ c.end = "no" /\ net[e] # <<>>
      /\ m.msg \in {"Certificate", "NoCertificate"} /\ Judges(e, c, m, d)
      BY <1>1, GetsFacts DEF SeesCertificate, Gets, At, Incoming
<1>3. m.msg = "Certificate" => m.cert = Own(Other(e))
      BY <1>1, <1>2, IncomingFits DEF Fits
<1>4. /\ d.ses = c.ses /\ d.out = c.out /\ d.neg.id = c.neg.id /\ d.reneg = c.reneg
      /\ d.state = Following(c.state)
      BY ONLY <1>2 DEF Judges, Same, Fields, Scratch
<1>5. Auth(e) = "REQUIRED" /\ d.end = "no" => Good(e, d.neg.peer)
      BY <1>2, <1>3 DEF Judges, Good
<1>6. /\ d.state \in Underway \ Early /\ c.state \in Underway \ Early
      /\ d.state \notin {"HELLO_REQUEST", "CLIENT_HELLO"}
  <2>1. c.state \in {"CLIENT_CERTIFICATE", "SERVER_CERTIFICATE"}
        BY <1>2 DEF CertificateState
  <2> QED
    BY <1>4, <2>1, ServerStates DEF Early, Underway
<1>7. PeerKnown(e, d)
      BY <1>2, <1>4, <1>5 DEF Known, PeerKnown
<1>8. e = "server" => ServerKnown(d)
      BY <1>2, <1>4, <1>6 DEF Known, ServerKnown
<1> QED
  BY <1>7, <1>8 DEF Known

\* The turns in the middle and at the end of a handshake.
LEMMA LaterKnown ==
  ASSUME PeerInv, NEW e \in End, NEW c, c = ctx[e], Known(e, c), NEW d,
         \/ e = "server" /\ Skips(c, d)
         \/ MiddleTurn(e, c, d) \/ Standing(e, c, d)
         \/ SaysFinished(e, c, d) \/ HearsFinished(e, c, d)
  PROVE  Known(e, d)
<1>1. CASE e = "server" /\ Skips(c, d)
  <2>1. /\ c.state = "CLIENT_CERTIFICATE" /\ c.end = "no" /\ d.state = "CLIENT_KEY_EXCHANGE"
        /\ Auth(e) # "REQUIRED" /\ Drift(c, d)
        BY <1>1 DEF Skips, At, Auth
  <2>2. /\ d.ses = c.ses /\ d.neg.id = c.neg.id /\ d.neg.peer = c.neg.peer
        /\ d.out = c.out \/ d.out.body.msg \notin {"Certificate", "ClientHello", "ServerHello"}
        BY <2>1, DriftSession
  <2>3. PeerKnown(e, d)
        BY <2>1, <2>2 DEF Known, PeerKnown, Fits
  <2>4. c.state \in Underway \ Early /\ d.state \notin {"HELLO_REQUEST", "CLIENT_HELLO"}
        BY ONLY <2>1 DEF Underway, Early
  <2>5. ServerKnown(d)
        BY <1>1, <2>1, <2>2, <2>4 DEF Known, ServerKnown
  <2> QED
    BY <2>3, <2>5 DEF Known
<1>2. CASE MiddleTurn(e, c, d)
  <2>1. /\ c.state \in Middle /\ c.end = "no" /\ d.state \in {c.state, Following(c.state)}
        /\ Drift(c, d)
        BY <1>2 DEF MiddleTurn
  <2>2. /\ d.ses = c.ses /\ d.neg.id = c.neg.id /\ d.neg.peer = c.neg.peer
        /\ d.out = c.out \/ d.out.body.msg \notin {"Certificate", "ClientHello", "ServerHello"}
        BY <2>1, DriftSession
  <2>3. /\ d.state \in Judged(e) => c.state \in Judged(e)
        /\ c.state \in Underway \ Early /\ d.state \notin Early
        BY <2>1, JudgedMiddle
  <2>4. d.state \notin {"HELLO_REQUEST", "CLIENT_HELLO"} /\ ~ Offering(e, d)
        BY <2>3 DEF Early, Offering
  <2> QED
    BY <2>1, <2>2, <2>3, <2>4, KnownDrift
<1>3. CASE Standing(e, c, d)
  <2>1. /\ c.end = "no" /\ Drift(c, d) /\ d.state = c.state
        /\ d.end = "no" => c.state = "HANDSHAKE_OVER"
        BY <1>3 DEF Standing
  <2>2. /\ d.ses = c.ses /\ d.neg.id = c.neg.id /\ d.neg.peer = c.neg.peer /\ d.resume = c.resume
        /\ d.out = c.out \/ d.out.body.msg \notin {"Certificate", "ClientHello", "ServerHello"}
        BY <2>1, DriftSession
  <2>3. Offering(e, d) = Offering(e, c)
        BY <2>1, <2>2 DEF Offering
  <2>4. d.end = "no" => d.state \notin {"HELLO_REQUEST", "CLIENT_HELLO"}
        BY <2>1
  <2> QED
    BY <2>1, <2>2, <2>3, <2>4, KnownDrift
<1>4. ASSUME c.state \in {"CLIENT_FINISHED", "SERVER_FINISHED"}, c.end = "no",
             d.ses = c.ses, d.neg = c.neg,
             d.out = c.out \/ d.out.body.msg = "Finished",
             \/ d.end # "no"
             \/ d.state \in {Following(c.state), "HANDSHAKE_WRAPUP", "CLIENT_CHANGE_CIPHER_SPEC"}
      PROVE  Known(e, d)
  <2>1. d.end = "no" => /\ d.state \in {"SERVER_CHANGE_CIPHER_SPEC", "FLUSH_BUFFERS",
                                        "HANDSHAKE_WRAPUP", "CLIENT_CHANGE_CIPHER_SPEC"}
        BY <1>4, ServerStates
  <2>2. /\ d.end = "no" => d.state \notin Early
        /\ c.state \in Underway \ Early /\ c.state \in Judged(e)
        BY <1>4, <2>1 DEF Underway, Early, Judged
  <2>3. d.end = "no" => d.state \notin {"HELLO_REQUEST", "CLIENT_HELLO"}
        BY <2>2 DEF Early
  <2> QED
    BY <1>4, <2>2, <2>3, KnownDrift
<1>5. CASE SaysFinished(e, c, d)
  <2>1. /\ c.state \in {"CLIENT_FINISHED", "SERVER_FINISHED"} /\ c.end = "no"
        /\ d.state \in {Following(c.state), "HANDSHAKE_WRAPUP", "CLIENT_CHANGE_CIPHER_SPEC"}
        BY <1>5 DEF SaysFinished, At, FinishedState, AfterWriting
  <2>2. d.ses = c.ses /\ d.neg = c.neg /\ d.out.body.msg = "Finished"
        BY <1>5 DEF SaysFinished, Same, Fields
  <2> QED
    BY <1>4, <2>1, <2>2
<1>6. CASE HearsFinished(e, c, d)
  <2>1. /\ c.state \in {"CLIENT_FINISHED", "SERVER_FINISHED"} /\ c.end = "no"
        BY <1>6 DEF HearsFinished, Gets, At, FinishedState
  <2>2. \/ d.end # "no"
        \/ d.state \in {Following(c.state), "HANDSHAKE_WRAPUP", "CLIENT_CHANGE_CIPHER_SPEC"}
        BY <1>6 DEF HearsFinished, AfterReading
  <2>3. d.ses = c.ses /\ d.neg = c.neg /\ d.out = c.out
        BY <1>6 DEF HearsFinished, Same, Fields
  <2> QED
    BY <1>4, <2>1, <2>2, <2>3
<1> QED
  BY <1>1, <1>2, <1>3, <1>5, <1>6

\* The end of a handshake and the beginning of the next, and the end of the connection.
LEMMA EndKnown ==
  ASSUME PeerInv, NEW e \in End, NEW c, c = ctx[e], Known(e, c), NEW d,
         Wraps(e, c, d) \/ Restarts(e, c, d) \/ Closes(e, c, d) \/ Flushes(e, c, d)
  PROVE  Known(e, d)
<1>1. NewSession.id = None
      BY DEF NewSession
<1>2. IdOf(who, None)
      BY DEF IdOf
<1>3. CASE Wraps(e, c, d)
  <2>1. /\ c.state = "HANDSHAKE_WRAPUP" /\ c.end = "no" /\ d.state = "HANDSHAKE_OVER"
        /\ d.ses = c.neg /\ d.neg = NewSession /\ d.resume = FALSE
        BY <1>3 DEF Wraps, At
  <2>2. d.out = c.out
        BY <1>3 DEF Wraps, Same, Fields
  <2>3. /\ c.state \in Judged(e) /\ d.state \notin Judged(e)
        /\ d.state \notin Underway /\ ~ Offering(e, d)
        BY <2>1 DEF Judged, Underway, Offering
  <2>4. PeerKnown(e, d)
        BY <1>1, <1>2, <2>1, <2>2, <2>3 DEF Known, PeerKnown
  <2>5. ServerKnown(d)
        BY <2>1, <2>3 DEF ServerKnown
  <2> QED
    BY <2>4, <2>5 DEF Known
<1>4. CASE Restarts(e, c, d)
  <2>1. /\ d.state = "HELLO_REQUEST" /\ d.neg = NewSession /\ d.resume = FALSE
        /\ e = "server" => net[e] # <<>> /\ d.msg = Incoming(e) /\ d.msg.msg = "ClientHello"
        BY <1>4 DEF Restarts
  <2>2. d.ses = c.ses /\ d.out = c.out
        BY <1>4 DEF Restarts, Same, Fields
  <2>3. d.state \notin Judged(e) /\ d.state \in Early /\ ~ Offering(e, d)
        BY <2>1 DEF Judged, Early, Offering
  <2>4. PeerKnown(e, d)
        BY <1>1, <1>2, <2>1, <2>2, <2>3 DEF Known, PeerKnown
  <2>5. e = "server" => IdOf(who, d.msg.id)
        BY <2>1, IncomingFits DEF Fits
  <2>6. e = "server" => ServerKnown(d)
        BY <2>3, <2>5 DEF ServerKnown
  <2> QED
    BY <2>4, <2>6 DEF Known
<1>5. CASE Closes(e, c, d)
  <2>1. d.end # "no" /\ d.ses = c.ses /\ d.out = c.out
        BY <1>5 DEF Closes, Same, Fields
  <2> QED
    BY <2>1 DEF Known, PeerKnown, ServerKnown
<1>6. CASE Flushes(e, c, d)
  <2>1. /\ d.out = None /\ d.ses = c.ses /\ d.end = c.end /\ d.neg = c.neg
        /\ d.state = c.state /\ d.resume = c.resume /\ d.reneg = c.reneg /\ d.msg = c.msg
        BY <1>6 DEF Flushes, Same, Fields
  <2> QED
    BY <2>1 DEF Known, PeerKnown, ServerKnown, Offering
<1> QED
  BY <1>3, <1>4, <1>5, <1>6

\* What ssl_cache_set makes of the chain: one entry is new, of the session that comes in.
LEMMA PutIs ==
  ASSUME Sequence(chain), NEW s, Put(s)
  PROVE  /\ Sequence(chain')
         /\ \A j \in 1..Len(chain') :
              \/ j \in 1..Len(chain) /\ chain'[j] = chain[j]
              \/ /\ chain'[j].id = s.id
                 /\ s.peer # None => chain'[j].peer = s.peer
<1>1. \A p, t : Entry(s, p, t).id = s.id /\ Entry(s, p, t).peer = p
      BY DEF Entry
<1>2. PICK i, en : /\ en.id = s.id /\ (s.peer # None => en.peer = s.peer)
                   /\ \/ chain' = [chain EXCEPT ![i] = en] \/ chain' = Append(chain, en)
  <2>1. CASE Reusable(s) # {}
    <3>1. \A en : Reused(en, s).id = s.id /\ (s.peer # None => Reused(en, s).peer = s.peer)
          BY <1>1 DEF Reused
    <3> QED
      BY <2>1, <3>1 DEF Put
  <2>2. CASE Reusable(s) = {} /\ chain # <<>> /\ Len(chain) >= MaxEntries
    BY <1>1, <2>2 DEF Put
  <2>3. CASE Reusable(s) = {} /\ ~(chain # <<>> /\ Len(chain) >= MaxEntries)
    BY <1>1, <2>3 DEF Put
  <2> QED
    BY <2>1, <2>2, <2>3
<1>3. PICK ch : ch = chain'
      OBVIOUS
<1>4. CASE ch = [chain EXCEPT ![i] = en]
  <2>1. /\ Sequence(ch) /\ Len(ch) = Len(chain)
        /\ \A j \in 1..Len(chain) : ch[j] = IF j = i THEN en ELSE chain[j]
    <3>1. Replaces(ch, chain, i, en)
          BY <1>4 DEF Replaces
    <3> QED
      BY <3>1, ReplaceIn
  <2> QED
    BY <1>2, <1>3, <2>1
<1>5. CASE ch = Append(chain, en)
  <2>1. /\ Sequence(ch) /\ Len(chain) \in Nat /\ Len(ch) = Len(chain) + 1
        /\ \A j \in 1..Len(chain) : ch[j] = chain[j]
        /\ ch[Len(chain) + 1] = en
        BY <1>5, AppendTo
  <2>2. \A j \in 1..Len(ch) : j \in 1..Len(chain) \/ j = Len(chain) + 1
        BY <2>1
  <2> QED
    BY <1>2, <1>3, <2>1, <2>2
<1> QED
  BY <1>2, <1>3, <1>4, <1>5

\* A session of the client that is connected goes into the cache: its entry is of that
\* client, and of no other.
LEMMA PutKnown ==
  ASSUME NullIsNothing, PeerInv, NEW s, Put(s), UNCHANGED <<conf, who, saved, nonce>>,
         s.id \in Nat, IdOf(who, s.id), conf.sauth = "REQUIRED" => Good("server", s.peer)
  PROVE  CacheKnown' /\ SavedKnown' /\ Carries
<1>1. Sequence(chain) /\ s.id < nonce /\ s.id # None
      BY DEF PeerInv, CacheKnown, IdOf, NullIsNothing
<1>2. /\ Sequence(chain')
      /\ \A j \in 1..Len(chain') :
           \/ j \in 1..Len(chain) /\ chain'[j] = chain[j]
           \/ /\ chain'[j].id = s.id
              /\ s.peer # None => chain'[j].peer = s.peer
      BY <1>1, PutIs
<1>3. CacheKnown'
      BY <1>1, <1>2 DEF PeerInv, CacheKnown
<1>4. ASSUME NEW k, NEW x, IdOf(k, x),
             x = s.id => k = who
      PROVE  IdOf(k, x)'
  <2>1. CASE x = None
    BY <2>1 DEF IdOf
  <2>2. CASE x # None
    <3>1. /\ x \in Nat /\ x < nonce
          /\ \A j \in Client : saved[j] # None /\ saved[j].id = x => j = k
          BY <1>4, <2>2 DEF IdOf
    <3>2. ASSUME conf.sauth = "REQUIRED", NEW i \in 1..Len(chain'), chain'[i].id = x
          PROVE  chain'[i].peer # None /\ chain'[i].peer = conf.ccert[k] /\ chain'[i].peer.ok
      <4>1. CASE i \in 1..Len(chain) /\ chain'[i] = chain[i]
        BY <1>4, <2>2, <3>2, <4>1 DEF IdOf
      <4>2. CASE chain'[i].id = s.id /\ (s.peer # None => chain'[i].peer = s.peer)
        <5>1. k = who /\ Good("server", s.peer)
              BY <1>4, <3>2, <4>2
        <5> QED
          BY <4>2, <5>1 DEF Good, Own, Other
      <4> QED
        BY <1>2, <4>1, <4>2
    <3> QED
      BY <3>1, <3>2 DEF IdOf
  <2> QED
    BY <2>1, <2>2
<1>5. Carries
      BY <1>4 DEF Carries
<1>6. ASSUME NEW k \in Client, saved[k] # None
      PROVE  IdOf(k, saved[k].id)'
  <2>1. PICK x : x = saved[k].id
        OBVIOUS
  <2>2. IdOf(k, x)
        BY <1>6, <2>1 DEF PeerInv, SavedKnown
  <2>3. x = s.id => k = who
        BY <1>1, <1>6, <2>1 DEF IdOf
  <2>4. IdOf(k, x)'
        BY <1>4, <2>2, <2>3
  <2> QED
    BY <2>1, <2>4 DEF IdOf
<1>7. SavedKnown'
      BY <1>6, GoodLater DEF PeerInv, SavedKnown
<1> QED
  BY <1>3, <1>5, <1>7

\* An application that closes the connection keeps the session for the same client.
LEMMA CloseKnown ==
  ASSUME PeerInv, NEW e \in End, NEW c, c = ctx[e], Known(e, c), NEW d, Closes(e, c, d)
  PROVE  CacheKnown' /\ SavedKnown' /\ Carries
<1>1. /\ UNCHANGED <<conf, who, nonce, chain>> /\ DOMAIN saved = Client
      /\ saved' = IF e = "client" THEN [saved EXCEPT ![who] = c.ses] ELSE saved
      BY DEF Closes, PeerInv, Typed
<1>2. CacheKnown'
      BY <1>1 DEF PeerInv, CacheKnown
<1>3. CASE \A k \in Client : saved'[k] = saved[k]
  <2>1. \A k, x : IdOf(k, x) => IdOf(k, x)'
        BY <1>1, <1>3 DEF IdOf
  <2>2. SavedKnown'
        BY <1>1, <1>3, <2>1, GoodLater DEF PeerInv, SavedKnown
  <2> QED
    BY <1>1, <1>2, <2>1, <2>2 DEF Carries
<1>4. CASE e = "client" /\ who \in Client
  <2>1. \A k \in Client : saved'[k] = IF k = who THEN c.ses ELSE saved[k]
        BY <1>1, <1>4
  <2>2. /\ c.ses # None => IdOf(who, c.ses.id)
        /\ conf.cauth = "REQUIRED" /\ c.ses # None => Good("client", c.ses.peer)
        BY <1>4 DEF Known, PeerKnown, Auth
  <2>3. ASSUME NEW x, IdOf(who, x) PROVE IdOf(who, x)'
    <3>1. \A j \in Client : j # who => saved'[j] = saved[j]
          BY <2>1
    <3> QED
      BY <1>1, <2>3, <3>1 DEF IdOf
  <2>4. ASSUME NEW k \in Client, saved'[k] # None
        PROVE  /\ IdOf(k, saved[k].id)'
               /\ conf.cauth = "REQUIRED" => Good("client", saved[k].peer)'
    <3>1. PICK s : s = saved'[k]
          OBVIOUS
    <3>2. CASE k = who
      <4>1. s = c.ses /\ s # None
            BY <2>1, <2>4, <3>1, <3>2
      <4>2. IdOf(k, s.id)' /\ (conf.cauth = "REQUIRED" => Good("client", s.peer)')
            BY <1>1, <2>2, <2>3, <3>2, <4>1, GoodLater
      <4> QED
        BY <3>1, <4>2 DEF IdOf, Good
    <3>3. CASE k # who
      <4>1. s = saved[k] /\ s # None
            BY <2>1, <2>4, <3>1, <3>3
      <4>2. IdOf(k, s.id) /\ (conf.cauth = "REQUIRED" => Good("client", s.peer))
            BY <4>1 DEF PeerInv, SavedKnown
      <4>3. s.id # None => \A j \in Client : saved'[j] # None /\ saved'[j].id = s.id => j = k
        <5>1. ASSUME s.id # None, NEW j \in Client, saved'[j] # None, saved'[j].id = s.id
              PROVE  j = k
          <6>1. CASE j = who
            <7>1. IdOf(who, s.id)
                  BY <2>1, <2>2, <5>1, <6>1
            <7> QED
              BY <3>3, <4>1, <5>1, <7>1 DEF IdOf
          <6>2. CASE j # who
            BY <2>1, <4>2, <5>1, <6>2 DEF IdOf
          <6> QED
            BY <6>1, <6>2
        <5> QED
          BY <5>1
      <4>4. IdOf(k, s.id)'
            BY <1>1, <4>2, <4>3 DEF IdOf
      <4>5. conf.cauth = "REQUIRED" => Good("client", s.peer)'
            BY <1>1, <4>2, GoodLater
      <4> QED
        BY <3>1, <4>4, <4>5 DEF IdOf, Good
    <3> QED
      BY <3>2, <3>3
  <2>5. SavedKnown'
        BY <1>1, <2>4 DEF SavedKnown
  <2>6. Carries
        BY <1>1, <2>3 DEF Carries
  <2> QED
    BY <1>2, <2>5, <2>6
<1>5. CASE who \notin Client \/ e # "client"
  <2>1. \A k \in Client : saved'[k] = saved[k]
        BY <1>1, <1>5
  <2> QED
    BY <1>3, <2>1
<1> QED
  BY <1>4, <1>5

\* The flush moves what is known of a message to the records under way.
LEMMA FlushKnown ==
  ASSUME PeerInv, Typed', NEW e \in End, NEW d, Flushes(e, ctx[e], d)
  PROVE  PeerInv'
<1>1. PICK f, c, b : f = Other(e) /\ c = ctx[e] /\ b = ctx[f]
      OBVIOUS
<1>2. f \in End /\ f # e /\ Other(e) = f /\ \A g \in End : g = e \/ g = f
      BY <1>1, OtherEnd
<1>3. DOMAIN ctx = End /\ DOMAIN net = End /\ RecordsOK(net[f]) /\ nonce \in Nat
      BY <1>2 DEF PeerInv, Typed
<1>4. /\ ctx'[e] = d /\ ctx'[f] = b /\ net'[e] = net[e] /\ net'[f] = Append(net[f], c.out)
      /\ c.out # None /\ nonce' = nonce /\ UNCHANGED <<conf, who, saved, chain>>
      BY <1>1, <1>2, <1>3 DEF Flushes, Around
<1>5. Known(e, c) /\ Known(f, b) /\ NetKnown(e) /\ NetKnown(f)
      BY <1>1, <1>2 DEF PeerInv
<1>6. Fits(f, c.out.body)
      BY <1>2, <1>4, <1>5 DEF Known, PeerKnown
<1>7. Carries
      BY <1>3, <1>4, CarriesLater
<1>8. NetKnown(e)' /\ NetKnown(f)'
      BY <1>3, <1>4, <1>5, <1>6, <1>7, NetKnownLater, NetKnownAppend
<1>9. Known(e, d)
      BY <1>1, <1>5, EndKnown
<1>10. Known(e, d)' /\ Known(f, b)'
       BY <1>5, <1>7, <1>9, KnownLater
<1>11. Known(e, ctx[e])' /\ Known(f, ctx[f])'
       BY <1>4, <1>10 DEF Known, PeerKnown, ServerKnown, Offering
<1>12. CacheKnown' /\ SavedKnown'
  <2>1. \A k, x : IdOf(k, x) => IdOf(k, x)'
        BY <1>3, <1>4, IdOfLater
  <2> QED
    BY <1>4, <2>1, GoodLater DEF PeerInv, CacheKnown, SavedKnown
<1>13. (\A g \in End : Known(g, ctx[g]) /\ NetKnown(g))'
       BY <1>2, <1>8, <1>11
<1> QED
  BY <1>12, <1>13 DEF PeerInv

\* A new connection: the client brings no more than a session it has kept.
LEMMA OpensKnown ==
  ASSUME PeerInv, Typed', NEW k \in Client, NEW d, NEW s, Opens(k, ctx["server"], d, s)
  PROVE  PeerInv'
<1>1. /\ ctx'["client"] = d /\ ctx'["server"] = s /\ \A e \in End : net'[e] = <<>>
      /\ Opened(d) /\ Opened(s) /\ s.neg = NewSession /\ s.resume = FALSE
      /\ who' = k /\ UNCHANGED <<conf, nonce, saved, chain>> /\ nonce \in Nat
      BY DEF Opens, End, PeerInv, Typed
<1>2. \A j, x : IdOf(j, x) => IdOf(j, x)'
      BY <1>1, IdOfLater
<1>3. \A p : Good("client", p)' = Good("client", p)
      BY <1>1 DEF Good, Own, Other
<1>4. CacheKnown' /\ SavedKnown'
      BY <1>1, <1>2, <1>3 DEF PeerInv, CacheKnown, SavedKnown
<1>5. PICK n : n = NewSession.id
      OBVIOUS
<1>6. IdOf(who, n)'
      BY <1>5 DEF IdOf, NewSession
<1>7. /\ IdOf(who, d.neg.id)'
      /\ conf.cauth = "REQUIRED" /\ d.resume => Good("client", d.neg.peer)'
  <2>1. CASE d.neg = NewSession /\ d.resume = FALSE
    BY <1>5, <1>6, <2>1
  <2>2. CASE saved[k] # None /\ d.neg = saved[k]
    <3>1. IdOf(k, d.neg.id) /\ (conf.cauth = "REQUIRED" => Good("client", d.neg.peer))
          BY <2>2 DEF PeerInv, SavedKnown
    <3>2. IdOf(k, d.neg.id)'
          BY <1>2, <3>1
    <3> QED
      BY <1>1, <1>3, <3>1, <3>2
  <2> QED
    BY <2>1, <2>2 DEF Opens
<1>8. "HELLO_REQUEST" \notin Judged("client") \cup Judged("server") /\ "HELLO_REQUEST" \in Early
      BY DEF Judged, Early
<1>9. Known("client", d)'
  <2>1. PeerKnown("client", d)'
        BY <1>1, <1>7, <1>8 DEF PeerKnown, Opened, Offering, Auth
  <2> QED
    BY <2>1 DEF Known
<1>10. Known("server", s)'
  <2>1. PeerKnown("server", s)'
        BY <1>1, <1>5, <1>6, <1>8 DEF PeerKnown, Opened, Offering
  <2>2. ServerKnown(s)'
        BY <1>1, <1>8 DEF ServerKnown, Opened
  <2> QED
    BY <2>1, <2>2 DEF Known
<1>11. NetKnown("client")' /\ NetKnown("server")'
       BY <1>1, EmptySeq DEF NetKnown, End
<1>12. Known("client", ctx["client"])' /\ Known("server", ctx["server"])'
       BY <1>1, <1>9, <1>10 DEF Known, PeerKnown, ServerKnown, Offering
<1>13. (\A e \in End : Known(e, ctx[e]) /\ NetKnown(e))'
       BY <1>11, <1>12 DEF End
<1> QED
  BY <1>4, <1>13 DEF PeerInv

\* Every step keeps it.
LEMMA PeerStep ==
  ASSUME NullIsNothing, PeerInv, [Next]_vars
  PROVE  PeerInv'
<1>1. Typed /\ Typed'
      BY TypedStep DEF PeerInv
<1>2. CASE UNCHANGED vars \/ Tick
  <2>1. /\ ctx' = ctx /\ net' = net /\ nonce' = nonce /\ nonce \in Nat
        /\ UNCHANGED <<conf, who, saved, chain>>
        BY <1>1, <1>2 DEF vars, Tick, Typed
  <2>2. Carries /\ \A k, x : IdOf(k, x) => IdOf(k, x)'
        BY <2>1, IdOfLater, CarriesLater
  <2>3. ASSUME NEW e \in End
        PROVE  Known(e, ctx[e])' /\ NetKnown(e)'
    <3>1. PICK c : c = ctx[e]
          OBVIOUS
    <3>2. Known(e, c)'
          BY <2>2, <3>1, KnownLater DEF PeerInv
    <3>3. NetKnown(e)'
          BY <2>1, <2>2, NetKnownLater DEF PeerInv
    <3> QED
      BY <2>1, <3>1, <3>2, <3>3 DEF Known, PeerKnown, ServerKnown, Offering
  <2>4. CacheKnown' /\ SavedKnown'
        BY <2>1, <2>2, GoodLater DEF PeerInv, CacheKnown, SavedKnown
  <2> QED
    BY <1>1, <2>3, <2>4 DEF PeerInv
<1>3. ASSUME NEW e \in End, NEW d, Moves(e, ctx[e], d)
      PROVE  PeerInv'
  <2>1. PICK c : c = ctx[e]
        OBVIOUS
  <2>2. Known(e, c) /\ nonce \in Nat
        BY <1>1, <2>1 DEF PeerInv, Typed
  <2>3. CASE Flushes(e, c, d)
    BY <1>1, <2>1, <2>3, FlushKnown
  <2>4. CASE Closes(e, c, d)
    <3>1. CacheKnown' /\ SavedKnown' /\ Carries
          BY <2>1, <2>2, <2>4, CloseKnown
    <3>2. Known(e, d)'
          BY <2>1, <2>2, <2>4, <3>1, EndKnown, KnownLater
    <3>3. Took(e, d)
          BY <2>4 DEF Closes, Took
    <3> QED
      BY <1>1, <3>1, <3>2, <3>3, KnownStep
  <2>5. CASE e = "server" /\ Wraps(e, c, d)
    <3>1. /\ c.state = "HANDSHAKE_WRAPUP" /\ c.end = "no" /\ Put(c.neg)
          /\ UNCHANGED <<conf, who, saved, nonce>> /\ Took(e, d)
          BY <2>1, <2>5 DEF Wraps, At, Took
    <3>2. /\ c.neg.id \in Nat /\ IdOf(who, c.neg.id)
          /\ conf.sauth = "REQUIRED" => Good("server", c.neg.peer)
          BY <2>2, <2>5, <3>1 DEF Known, PeerKnown, ServerKnown, Underway, Early, Judged, Auth
    <3>3. CacheKnown' /\ SavedKnown' /\ Carries
          BY <3>1, <3>2, PutKnown
    <3>4. Known(e, d)'
          BY <2>1, <2>2, <2>5, <3>3, EndKnown, KnownLater
    <3> QED
      BY <1>1, <3>1, <3>3, <3>4, KnownStep
  <2>6. CASE e = "server" /\ Names(c, d)
    <3>1. Known(e, d)'
          BY <2>1, <2>6, NamesKnown
    <3>2. /\ UNCHANGED <<conf, who, saved, chain>> /\ nonce <= nonce' /\ Took(e, d)
          BY <2>2, <2>6 DEF Names, Around, Took
    <3> QED
      BY <1>1, <3>1, <3>2, PlainKnownStep
  <2>7. CASE \/ Starts(e, c, d)
             \/ e = "client" /\ (Offers(c, d) \/ \E h : TakesName(c, h, d))
             \/ e = "server" /\ \E h : TakesOffer(c, h, d)
    <3>1. Known(e, d)
          BY <2>1, <2>7, HelloKnown
    <3>2. UNCHANGED <<conf, who, saved, chain>> /\ nonce' \in {nonce, nonce + 1}
          BY <2>7 DEF Starts, Offers, TakesName, TakesOffer, Around
    <3>3. Took(e, d)
          BY <1>1, <2>1, <2>7, HelloTyped
    <3>4. nonce <= nonce' /\ nonce' \in Nat
          BY <2>2, <3>2
    <3>5. Known(e, d)'
          BY <2>2, <3>1, <3>2, <3>4, CarriesLater, KnownLater
    <3> QED
      BY <1>1, <3>2, <3>3, <3>4, <3>5, PlainKnownStep
  <2>8. CASE \/ e = "server" /\ Skips(c, d)
             \/ MiddleTurn(e, c, d) \/ Standing(e, c, d) \/ Presents(e, c, d)
             \/ SeesCertificate(e, c, d) \/ SaysFinished(e, c, d) \/ HearsFinished(e, c, d)
             \/ (e = "client" /\ Wraps(e, c, d)) \/ Restarts(e, c, d)
    <3>1. Known(e, d)
          BY <2>1, <2>2, <2>8, LaterKnown, EndKnown, PresentsKnown, SeesKnown
    <3>2. UNCHANGED <<conf, who, saved, chain>> /\ nonce' \in {nonce, nonce + 1}
          BY <2>8 DEF Skips, MiddleTurn, Standing, Presents, SeesCertificate, SaysFinished,
                      HearsFinished, Wraps, Restarts, Around
    <3>3. Took(e, d)
          BY <1>1, <2>1, <2>8, LaterTyped
    <3>4. nonce <= nonce' /\ nonce' \in Nat
          BY <2>2, <3>2
    <3>5. Known(e, d)'
          BY <2>2, <3>1, <3>2, <3>4, CarriesLater, KnownLater
    <3> QED
      BY <1>1, <3>2, <3>3, <3>4, <3>5, PlainKnownStep
  <2> QED
    BY <1>3, <2>1, <2>3, <2>4, <2>5, <2>6, <2>7, <2>8 DEF Moves, End
<1>4. ASSUME NEW k \in Client, NEW d, NEW s, Opens(k, ctx["server"], d, s)
      PROVE  PeerInv'
  BY <1>1, <1>4, OpensKnown
<1> QED
  BY <1>1, <1>2, <1>3, <1>4, StepIs

\* It holds before the first connection.
LEMMA InitPeer == Init => PeerInv
<1> SUFFICES ASSUME Init PROVE PeerInv
  OBVIOUS
<1>1. PICK d : d = Fail(New, "closed")
      OBVIOUS
<1>2. Opened(New)
      BY NewIs
<1>3. Same(New, d, {"end"}) /\ d.end = "closed"
      BY <1>1, <1>2, FailIs DEF Opened
<1>4. d.ses = None /\ d.out = None
      BY <1>2, <1>3 DEF Same, Fields, Opened
<1>5. \A e \in End : ctx[e] = d /\ net[e] = <<>>
      BY <1>1 DEF Init
<1>6. \A e \in End : Known(e, d) /\ NetKnown(e)
      BY <1>3, <1>4, <1>5, EmptySeq DEF Known, PeerKnown, ServerKnown, NetKnown
<1>7. CacheKnown
      BY EmptySeq DEF Init, CacheKnown, Sequence
<1>8. SavedKnown
      BY DEF Init, SavedKnown
<1> QED
  BY <1>5, <1>6, <1>7, <1>8, InitTyped DEF PeerInv

\* An end that requires a certificate completes no handshake without having verified one of
\* the peer it is connected to, in this handshake or in the one that has made the session it
\* resumes (ssl_parse_certificate, ssl_cache_get's "Restore peer certificate"): no client
\* gets into a session of another, whichever ids they offer and whatever the cache holds.
THEOREM PeerIsVerifiedAlways ==
  ASSUME NullIsNothing
  PROVE  Spec => []PeerIsVerified
<1>1. Init => PeerInv /\ RejectInv
      BY InitPeer, InitReject
<1>2. PeerInv /\ RejectInv /\ [Next]_vars => PeerInv' /\ RejectInv'
      BY PeerStep, RejectStep DEF NullIsNothing
<1>3. PeerInv /\ RejectInv => PeerIsVerified
  <2> SUFFICES ASSUME PeerInv, RejectInv, NEW e \in End, Over(e), Auth(e) = "REQUIRED"
               PROVE  ctx[e].ses.peer = Own(Other(e)) /\ ctx[e].ses.peer.ok
    BY DEF PeerIsVerified
  <2>1. ctx[e].ses # None
        BY DEF RejectInv, Settled, Over
  <2> QED
    BY <2>1 DEF PeerInv, Known, PeerKnown, Good
<1> QED
  BY <1>1, <1>2, <1>3, PTL DEF Spec

-----------------------------------------------------------------------------
(* Agreement: both ends hold the keys of the last handshake                 *)

\* Nor is NULL a key.
NullIsNoKey == \A e \in End : \A k : <<e, k>> # None

\* From the ClientHello to the keys, and from the keys to the end of the handshake.
Negotiating == {"SERVER_HELLO", "SERVER_CERTIFICATE", "SERVER_KEY_EXCHANGE",
  "CERTIFICATE_REQUEST", "SERVER_HELLO_DONE", "CLIENT_CERTIFICATE", "CLIENT_KEY_EXCHANGE"}
Keyed == {"CERTIFICATE_VERIFY", "CLIENT_CHANGE_CIPHER_SPEC", "CLIENT_FINISHED",
  "SERVER_CHANGE_CIPHER_SPEC", "SERVER_FINISHED", "FLUSH_BUFFERS", "HANDSHAKE_WRAPUP"}

\* e has written its Finished of this handshake ...
HasTold(e, c) ==
  \/ c.state \in {"FLUSH_BUFFERS", "HANDSHAKE_WRAPUP"}
  \/ e = "client" /\ ~ c.resume
       /\ c.state \in {"SERVER_CHANGE_CIPHER_SPEC", "SERVER_FINISHED"}
  \/ e = "server" /\ c.resume
       /\ c.state \in {"CLIENT_CHANGE_CIPHER_SPEC", "CLIENT_FINISHED"}

\* ... and has read its peer's.
HasHeard(e, c) ==
  \/ c.state \in {"FLUSH_BUFFERS", "HANDSHAKE_WRAPUP"}
  \/ e = "server" /\ ~ c.resume
       /\ c.state \in {"SERVER_CHANGE_CIPHER_SPEC", "SERVER_FINISHED"}
  \/ e = "client" /\ c.resume
       /\ c.state \in {"CLIENT_CHANGE_CIPHER_SPEC", "CLIENT_FINISHED"}

\* Keys are ranked by the client's random number they are made from.
Rank(key) == key[2].block[3][1]

\* A handshake is under way, and the client's random number in it.
InProgress(e, c) ==
  /\ c.end = "no"
  /\ \/ c.state \in Negotiating \cup Keyed
     \/ e = "server" /\ c.reneg /\ c.state \in {"HELLO_REQUEST", "CLIENT_HELLO"}
Pending(c) == IF c.state \in Negotiating THEN c.rc
              ELSE IF c.state \in Keyed THEN c.tneg.block[3][1] ELSE c.msg.random

\* n is later than the key e writes under, and than the handshake under way.
After(c, n) == c.tout # None => Rank(c.tout) < n
Beyond(e, c, n) == n \in Nat /\ After(c, n) /\ (InProgress(e, c) => Pending(c) < n)

\* Keys k are those of session s.
KeysFit(k, s, minor) == k.minor = minor /\ k.suite = s.suite /\ k.block[2] = s.master

\* The session that the transcript in some verify data names.
IdIn(data) == data[3][2].id

KeysOK(e, c) ==
  /\ c.state \in Keyed => KeysFit(c.tneg, c.neg, c.minor)
  /\ HasTold(e, c) => c.tout = OutKey(e, c) /\ IdIn(c.own) = c.neg.id
  /\ HasHeard(e, c) => c.tin = InKey(e, c) /\ IdIn(c.peer) = c.neg.id

OverOK(e, c) ==
  c.state = "HANDSHAKE_OVER" =>
    /\ c.end # "finished"
    /\ \E k : c.tout = <<e, k>> /\ c.tin = <<Other(e), k>> /\ KeysFit(k, c.ses, c.minor)
    /\ IdIn(c.own) = c.ses.id /\ IdIn(c.peer) = c.ses.id

\* What an end knows of its own keys, after n random numbers.
OwnKeys(e, c, n) ==
  /\ c.tout # None => Rank(c.tout) \in Nat
  /\ Beyond(e, c, n)
  /\ InProgress(e, c) => Pending(c) \in Nat /\ (HasTold(e, c) \/ After(c, Pending(c)))
  /\ c.end = "no" => KeysOK(e, c)
  /\ OverOK(e, c)

\* s writes under this key, or has written under it before.
Used(s, key) ==
  \/ key = None \/ key = s.tout
  \/ s.tout # None /\ Rank(key) \in Nat /\ Rank(key) < Rank(s.tout)

\* Record r is from s: a Finished under the key s writes under is the last s has written.
From(s, r) ==
  /\ Used(s, r.key)
  /\ r.key # None /\ r.key = s.tout /\ r.body.msg = "Finished" => r.body.hash = s.own

\* What s has written and r read, with the records w on their way.
Linked(s, r, w) ==
  /\ \A i \in 1..Len(w) : From(s, w[i])
  /\ s.out # None => From(s, s.out)
  /\ Used(s, r.tin)
  /\ r.tin # None /\ r.tin = s.tout /\ r.end # "finished" => r.peer = s.own

IsHello(r) == r.body.msg = "ClientHello"

\* A ClientHello that server s has yet to read is a later one than those it has read.
News(s, r, n) == IsHello(r) => Beyond("server", s, r.body.random) /\ r.body.random < n

\* The ClientHellos come in the order they are made in.
Rising(s, out, w, n) ==
  /\ \A i \in 1..Len(w) : News(s, w[i], n)
  /\ \A i, j \in 1..Len(w) : i < j /\ IsHello(w[i]) /\ IsHello(w[j])
       => w[i].body.random < w[j].body.random
  /\ out # None => News(s, out, n)
  /\ out # None /\ IsHello(out)
       => \A i \in 1..Len(w) : IsHello(w[i]) => w[i].body.random < out.body.random

AgreeInv ==
  /\ Typed /\ IInv
  /\ \A e \in End : OwnKeys(e, ctx[e], nonce)
  /\ \A e \in End : Linked(ctx[e], ctx[Other(e)], net[Other(e)])
  /\ Rising(ctx["server"], ctx["client"].out, net["server"], nonce)

\* When both handshakes are over, neither key is older than the other.
LEMMA AgreeInvAgrees ==
  ASSUME NullIsNoKey, AgreeInv
  PROVE  Agreement
<1> SUFFICES ASSUME Over("client"), Over("server")
             PROVE  LET c == ctx["client"]
                        s == ctx["server"]
                    IN  /\ c.minor = s.minor
                        /\ \A f \in {"id", "suite", "master"} : c.ses[f] = s.ses[f]
                        /\ c.tin = s.tout /\ c.tout = s.tin
                        /\ c.own = s.peer /\ c.peer = s.own
  BY DEF Agreement
<1>1. PICK c, s : c = ctx["client"] /\ s = ctx["server"]
      OBVIOUS
<1>2. OverOK("client", c) /\ OverOK("server", s) /\ OwnKeys("client", c, nonce)
      /\ OwnKeys("server", s, nonce)
      BY <1>1 DEF AgreeInv, OwnKeys, End
<1>3. c.state = "HANDSHAKE_OVER" /\ s.state = "HANDSHAKE_OVER"
      BY <1>1 DEF Over
<1>4. PICK kc : /\ c.tout = <<"client", kc>> /\ c.tin = <<"server", kc>>
                /\ KeysFit(kc, c.ses, c.minor)
      BY <1>2, <1>3 DEF OverOK, Other
<1>5. PICK ks : /\ s.tout = <<"server", ks>> /\ s.tin = <<"client", ks>>
                /\ KeysFit(ks, s.ses, s.minor)
      BY <1>2, <1>3 DEF OverOK, Other
<1>6. Linked(c, s, net["server"]) /\ Linked(s, c, net["client"])
      BY <1>1 DEF AgreeInv, End, Other
<1>7. /\ c.tout # None /\ c.tin # None /\ s.tout # None /\ s.tin # None
      BY <1>4, <1>5 DEF NullIsNoKey, End
<1>8. /\ Rank(c.tout) = kc.block[3][1] /\ Rank(c.tin) = kc.block[3][1]
      /\ Rank(s.tout) = ks.block[3][1] /\ Rank(s.tin) = ks.block[3][1]
      BY <1>4, <1>5 DEF Rank
<1>9. kc.block[3][1] \in Nat /\ ks.block[3][1] \in Nat
      BY <1>2, <1>7, <1>8 DEF OwnKeys
<1>10. s.tin = c.tout \/ ks.block[3][1] < kc.block[3][1]
      BY <1>6, <1>7, <1>8 DEF Linked, Used
<1>11. c.tin = s.tout \/ kc.block[3][1] < ks.block[3][1]
      BY <1>6, <1>7, <1>8 DEF Linked, Used
<1>12. kc = ks
      BY <1>4, <1>5, <1>9, <1>10, <1>11
<1>13. c.tin = s.tout /\ c.tout = s.tin
      BY <1>4, <1>5, <1>12
<1>14. c.end # "finished" /\ s.end # "finished"
      BY <1>2, <1>3 DEF OverOK
<1>15. c.peer = s.own /\ s.peer = c.own
      BY <1>6, <1>7, <1>13, <1>14 DEF Linked
<1>16. c.minor = s.minor /\ c.ses.suite = s.ses.suite /\ c.ses.master = s.ses.master
      BY <1>4, <1>5, <1>12 DEF KeysFit
<1>17. c.ses.id = s.ses.id
      BY <1>2, <1>3, <1>15 DEF OverOK
<1> QED
  BY <1>1, <1>13, <1>15, <1>16, <1>17

-----------------------------------------------------------------------------
(* The records                                                              *)

\* d leaves e's keys alone, and writes nothing but under the key it has.
Quiet(c, d) ==
  /\ d.tout = c.tout /\ d.own = c.own
  /\ d.out = c.out \/ (d.out.key = c.tout /\ d.out.body.msg # "Finished")

\* What comes from an end that goes on under its key.
LEMMA QuietLinked ==
  ASSUME NEW s, NEW r, NEW w, Linked(s, r, w), NEW d, Quiet(s, d)
  PROVE  Linked(d, r, w)
<1>1. \A x : From(s, x) => From(d, x)
      BY DEF Quiet, From, Used
<1>2. d.out # None => From(d, d.out)
      BY <1>1 DEF Quiet, Linked, From, Used
<1> QED
  BY <1>1, <1>2 DEF Linked, Quiet, Used

\* What comes from an end that changes its key for a later one, with its Finished.
LEMMA ToldLinked ==
  ASSUME NEW s, NEW r, NEW w, Linked(s, r, w), NEW d, d.tout # None,
         Rank(d.tout) \in Nat, After(s, Rank(d.tout)), s.tout # None => Rank(s.tout) \in Nat,
         d.out.key = d.tout, d.out.body.hash = d.own
  PROVE  Linked(d, r, w)
<1>1. \A key : Used(s, key) => Used(d, key) /\ (key # None => key # d.tout)
      BY DEF Used, After
<1>2. \A x : From(s, x) => From(d, x)
      BY <1>1 DEF From
<1>3. From(d, d.out)
      BY DEF From, Used
<1> QED
  BY <1>1, <1>2, <1>3 DEF Linked

\* The records that are left when one is read.
LEMMA TailOfRecords ==
  ASSUME NEW w, Sequence(w), w # <<>>
  PROVE  /\ Head(w) = w[1] /\ 1 \in 1..Len(w)
         /\ \A i \in 1..Len(Tail(w)) : i + 1 \in 1..Len(w) /\ Tail(w)[i] = w[i + 1]
<1>1. PICK S : w \in Seq(S)
      BY DEF Sequence
<1>2. Len(w) \in Nat /\ Len(w) >= 1 /\ Head(w) = w[1]
      BY <1>1, HeadOf
<1>3. Len(Tail(w)) = Len(w) - 1 /\ \A i \in 1..Len(w) - 1 : Tail(w)[i] = w[i + 1]
      BY <1>1, <1>2
<1> QED
  BY <1>2, <1>3

\* What an end has read that keeps the key it reads under.
LEMMA ReadLinked ==
  ASSUME NEW s, NEW r, NEW w, Sequence(w), Linked(s, r, w), NEW d,
         d.tin = r.tin, d.peer = r.peer, d.end # "finished" => r.end # "finished",
         NEW v, v = w \/ (w # <<>> /\ v = Tail(w))
  PROVE  Linked(s, d, v)
<1>1. \A i \in 1..Len(v) : From(s, v[i])
      BY TailOfRecords DEF Linked
<1> QED
  BY <1>1 DEF Linked

\* What an end has read that has got a Finished.
LEMMA HeardLinked ==
  ASSUME NEW s, NEW r, NEW w, Sequence(w), Linked(s, r, w), w # <<>>, NEW d,
         Head(w).key = d.tin, Head(w).body.msg = "Finished",
         d.end = "finished" \/ d.peer = Head(w).body.hash
  PROVE  Linked(s, d, Tail(w))
<1>1. From(s, Head(w)) /\ \A i \in 1..Len(Tail(w)) : From(s, Tail(w)[i])
      BY TailOfRecords DEF Linked
<1> QED
  BY <1>1 DEF Linked, From

\* A record that goes out.
LEMMA FlushLinked ==
  ASSUME NEW s, NEW r, NEW w, Sequence(w), Linked(s, r, w), s.out # None, NEW d,
         d.tout = s.tout, d.own = s.own, d.out = None
  PROVE  Linked(d, r, Append(w, s.out))
<1>1. PICK v : v = Append(w, s.out)
      OBVIOUS
<1>2. /\ Len(w) \in Nat /\ Len(v) = Len(w) + 1
      /\ \A i \in 1..Len(w) : v[i] = w[i]
      /\ v[Len(w) + 1] = s.out
      BY <1>1, AppendTo
<1>3. \A i \in 1..Len(v) : i \in 1..Len(w) \/ i = Len(w) + 1
      BY <1>2
<1>4. \A i \in 1..Len(v) : From(s, v[i])
      BY <1>2, <1>3 DEF Linked
<1>5. \A x : From(s, x) => From(d, x)
      BY DEF From, Used
<1>6. Linked(d, r, v)
      BY <1>4, <1>5 DEF Linked, Used
<1> QED
  BY <1>1, <1>6

-----------------------------------------------------------------------------
(* The order of the ClientHellos                                            *)

\* What is later than all that c has used is later than all that d has.
Later(e, c, d) == \A m : Beyond(e, c, m) => Beyond(e, d, m)

\* A client that says no ClientHello.
LEMMA NoHelloRising ==
  ASSUME NEW s, NEW out, NEW w, NEW n, Rising(s, out, w, n), NEW x,
         x = out \/ ~ IsHello(x), NEW k, k \in Nat, n \in Nat, n <= k
  PROVE  Rising(s, x, w, k)
<1>1. \A r : News(s, r, n) => News(s, r, k)
      BY DEF News, Beyond
<1>2. x # None => News(s, x, k)
      BY <1>1 DEF Rising, News
<1> QED
  BY <1>1, <1>2 DEF Rising

\* A client that says one.
LEMMA HelloRising ==
  ASSUME NEW s, NEW w, NEW n, n \in Nat, Rising(s, None, w, n), NEW x,
         x.body.random = n, Beyond("server", s, n)
  PROVE  Rising(s, x, w, n + 1)
<1>1. \A r : News(s, r, n) => News(s, r, n + 1)
      BY DEF News, Beyond
<1>2. News(s, x, n + 1)
      BY DEF News
<1>3. \A i \in 1..Len(w) : IsHello(w[i]) => w[i].body.random < n
      BY DEF Rising, News
<1> QED
  BY <1>1, <1>2, <1>3 DEF Rising

\* A server that reads none.
LEMMA LaterRising ==
  ASSUME NEW s, NEW out, NEW w, NEW n, Rising(s, out, w, n), Sequence(w), NEW d,
         Later("server", s, d), NEW k, k \in Nat, n \in Nat, n <= k,
         NEW v, v = w \/ (w # <<>> /\ v = Tail(w))
  PROVE  Rising(d, out, v, k)
<1>1. \A r : News(s, r, n) => News(d, r, k)
      BY DEF News, Beyond, Later
<1>2. CASE v = w
  BY <1>1, <1>2 DEF Rising
<1>3. CASE w # <<>> /\ v = Tail(w)
  <2>1. \A i \in 1..Len(v) : i \in Int /\ i + 1 \in 1..Len(w) /\ v[i] = w[i + 1]
        BY <1>3, TailOfRecords
  <2>2. \A i \in 1..Len(v) : News(d, v[i], k)
        BY <1>1, <2>1 DEF Rising
  <2>3. ASSUME NEW i \in 1..Len(v), NEW j \in 1..Len(v), i < j, IsHello(v[i]), IsHello(v[j])
        PROVE  v[i].body.random < v[j].body.random
    <3>1. i + 1 < j + 1 /\ v[i] = w[i + 1] /\ v[j] = w[j + 1]
          BY <2>1, <2>3
    <3> QED
      BY <2>1, <2>3, <3>1 DEF Rising
  <2>4. out # None /\ IsHello(out)
          => \A i \in 1..Len(v) : IsHello(v[i]) => v[i].body.random < out.body.random
        BY <2>1 DEF Rising
  <2>5. out # None => News(d, out, k)
        BY <1>1 DEF Rising
  <2> QED
    BY <2>2, <2>3, <2>4, <2>5 DEF Rising
<1> QED
  BY <1>2, <1>3

\* The server is beyond the ClientHello it reads, and no further.
Reads(e, c, x, d) == \A m : Beyond(e, c, m) /\ x < m => Beyond(e, d, m)

\* A server that reads one.
LEMMA ReadsRising ==
  ASSUME NEW s, NEW out, NEW w, NEW n, n \in Nat, Rising(s, out, w, n), Sequence(w), w # <<>>,
         IsHello(Head(w)), NEW d, Reads("server", s, Head(w).body.random, d)
  PROVE  Rising(d, out, Tail(w), n)
<1>1. PICK v, x : v = Tail(w) /\ x = Head(w)
      OBVIOUS
<1>2. /\ x = w[1] /\ 1 \in 1..Len(w) /\ IsHello(x)
      /\ \A i \in 1..Len(v) : i \in Int /\ 1 <= i /\ i + 1 \in 1..Len(w) /\ v[i] = w[i + 1]
      BY <1>1, TailOfRecords
<1>3. ASSUME NEW i \in 1..Len(v)
      PROVE  News(d, v[i], n)
  <2>1. News(s, w[i + 1], n) /\ 1 < i + 1
        BY <1>2 DEF Rising
  <2>2. IsHello(w[i + 1]) => x.body.random < w[i + 1].body.random
        BY <1>2, <2>1 DEF Rising
  <2> QED
    BY <1>1, <1>2, <2>1, <2>2 DEF News, Reads
<1>4. out # None => News(d, out, n)
      BY <1>1, <1>2 DEF Rising, News, Reads
<1>5. ASSUME NEW i \in 1..Len(v), NEW j \in 1..Len(v), i < j, IsHello(v[i]), IsHello(v[j])
      PROVE  v[i].body.random < v[j].body.random
  <2>1. i + 1 < j + 1 /\ v[i] = w[i + 1] /\ v[j] = w[j + 1]
        BY <1>2, <1>5
  <2> QED
    BY <1>2, <1>5, <2>1 DEF Rising
<1>6. out # None /\ IsHello(out)
        => \A i \in 1..Len(v) : IsHello(v[i]) => v[i].body.random < out.body.random
      BY <1>2 DEF Rising
<1> QED
  BY <1>1, <1>3, <1>4, <1>5, <1>6 DEF Rising

\* A record of the client that goes out.
LEMMA FlushRising ==
  ASSUME NEW s, NEW out, NEW w, NEW n, Rising(s, out, w, n), Sequence(w), out # None
  PROVE  Rising(s, None, Append(w, out), n)
<1>1. PICK v : v = Append(w, out)
      OBVIOUS
<1>2. /\ Len(w) \in Nat /\ Len(v) = Len(w) + 1
      /\ \A i \in 1..Len(w) : v[i] = w[i]
      /\ v[Len(w) + 1] = out
      BY <1>1, AppendTo
<1>3. \A i \in 1..Len(v) : i \in 1..Len(w) \/ i = Len(w) + 1
      BY <1>2
<1>4. \A i \in 1..Len(v) : News(s, v[i], n)
      BY <1>2, <1>3 DEF Rising
<1>5. ASSUME NEW i \in 1..Len(v), NEW j \in 1..Len(v), i < j, IsHello(v[i]), IsHello(v[j])
      PROVE  v[i].body.random < v[j].body.random
  <2>1. i \in 1..Len(w)
        BY <1>2, <1>5
  <2>2. CASE j \in 1..Len(w)
    BY <1>2, <1>5, <2>1, <2>2 DEF Rising
  <2>3. CASE j = Len(w) + 1
    BY <1>2, <1>5, <2>1, <2>3 DEF Rising
  <2> QED
    BY <1>3, <2>2, <2>3
<1> QED
  BY <1>1, <1>4, <1>5 DEF Rising

-----------------------------------------------------------------------------
(* The keys of one end                                                      *)

\* More random numbers have been drawn.
LEMMA OwnKeysLater ==
  ASSUME NEW e, NEW c, NEW n, n \in Nat, OwnKeys(e, c, n), NEW k \in Nat, n <= k
  PROVE  OwnKeys(e, c, k)
<1>1. Beyond(e, c, k)
      BY DEF OwnKeys, Beyond, After
<1> QED
  BY <1>1 DEF OwnKeys

\* The fields of a handshake that is over.
SameKept(c, d) == /\ d.tin = c.tin /\ d.tout = c.tout /\ d.own = c.own /\ d.peer = c.peer
                  /\ d.ses = c.ses /\ d.minor = c.minor

\* An end that leaves the connection.
LEMMA LeavesKeys ==
  ASSUME NEW e, NEW c, NEW n, OwnKeys(e, c, n), NEW d, d.tout = c.tout, d.end # "no",
         d.state = "HANDSHAKE_OVER" => /\ c.state = "HANDSHAKE_OVER" /\ SameKept(c, d)
                                       /\ d.end # "finished"
  PROVE  OwnKeys(e, d, n) /\ Later(e, c, d)
<1>1. ~ InProgress(e, d)
      BY DEF InProgress
<1>2. Later(e, c, d)
      BY <1>1 DEF Later, Beyond, After
<1>3. OverOK(e, d)
      BY DEF OwnKeys, OverOK, SameKept
<1> QED
  BY <1>1, <1>2, <1>3 DEF OwnKeys, Later

\* An end that goes on with the handshake.
LEMMA GoesOnKeys ==
  ASSUME NEW e, NEW c, NEW n, OwnKeys(e, c, n), NEW d,
         d.tin = c.tin, d.tout = c.tout, d.own = c.own, d.peer = c.peer,
         c.end = "no", d.neg.id = c.neg.id \/ ~ (HasTold(e, d) \/ HasHeard(e, d)),
         d.state # "HANDSHAKE_OVER",
         InProgress(e, d) => InProgress(e, c) /\ Pending(d) = Pending(c),
         HasTold(e, d) <=> HasTold(e, c), HasHeard(e, d) <=> HasHeard(e, c),
         HasTold(e, d) \/ HasHeard(e, d) => d.tneg = c.tneg,
         d.state \in Keyed => KeysFit(d.tneg, d.neg, d.minor)
  PROVE  OwnKeys(e, d, n) /\ Later(e, c, d)
<1>1. Later(e, c, d)
      BY DEF Later, Beyond, After
<1>2. KeysOK(e, d)
      BY DEF OwnKeys, KeysOK, OutKey, InKey
<1>3. OverOK(e, d)
      BY DEF OverOK
<1>4. InProgress(e, d) => Pending(d) \in Nat /\ (HasTold(e, d) \/ After(d, Pending(d)))
      BY DEF OwnKeys, After
<1> QED
  BY <1>1, <1>2, <1>3, <1>4 DEF OwnKeys, Later

\* The keys of a handshake.
LEMMA KeysOfFit ==
  ASSUME NEW master, NEW rc, NEW rs, NEW suite, NEW minor,
         NEW k, k = KeysOf(master, rc, rs, suite, minor)
  PROVE  /\ k.block[3][1] = rc
         /\ \A s : s.suite = suite /\ s.master = master => KeysFit(k, s, minor)
<1>1. k.block = <<"keys", master, <<rc, rs>>>> /\ k.suite = suite /\ k.minor = minor
      BY DEF KeysOf, PRF
<1> QED
  BY <1>1 DEF KeysFit

\* What an end has heard, and what it writes, is what it was.
Steady(c, d) == Quiet(c, d) /\ d.tin = c.tin /\ d.peer = c.peer /\ d.end # "finished"

\* A client that says no ClientHello.
NoHello(c, d) == d.out = c.out \/ ~ IsHello(d.out)

\* A turn of the handshake leaves the keys of the one before alone.
LEMMA DriftKeeps ==
  ASSUME NEW c, NEW d, Drift(c, d), d.end # "finished"
  PROVE  Steady(c, d) /\ SameKept(c, d) /\ NoHello(c, d) /\ d.resume = c.resume /\ d.reneg = c.reneg
<1>1. /\ d.tout = c.tout /\ d.tin = c.tin /\ d.own = c.own /\ d.peer = c.peer /\ d.ses = c.ses
      /\ d.minor = c.minor /\ d.resume = c.resume /\ d.reneg = c.reneg
      BY DEF Drift, Same, Fields, Scratch
<1>2. d.out = c.out \/ (d.out.key = c.tout /\ d.out.body.msg \in Plain)
      BY DEF Drift
<1>3. "Finished" \notin Plain /\ "ClientHello" \notin Plain
      BY DEF Plain
<1> QED
  BY <1>1, <1>2, <1>3 DEF Steady, Quiet, SameKept, NoHello, IsHello

\* The end leaves the connection.
LEMMA EndsKeys ==
  ASSUME NEW e, NEW c, c = ctx[e], NEW n, OwnKeys(e, c, n), NEW d, d.end # "no", d.end # "finished",
         \/ MiddleTurn(e, c, d) \/ Standing(e, c, d) \/ Presents(e, c, d)
  PROVE  OwnKeys(e, d, n) /\ Later(e, c, d) /\ Steady(c, d) /\ NoHello(c, d)
<1>1. ASSUME Drift(c, d), d.state = "HANDSHAKE_OVER" => c.state = "HANDSHAKE_OVER"
      PROVE  OwnKeys(e, d, n) /\ Later(e, c, d) /\ Steady(c, d) /\ NoHello(c, d)
  <2>1. Steady(c, d) /\ SameKept(c, d) /\ NoHello(c, d)
        BY <1>1, DriftKeeps
  <2> QED
    BY <1>1, <2>1, LeavesKeys DEF SameKept
<1>2. CASE MiddleTurn(e, c, d)
  <2>1. d.state # "HANDSHAKE_OVER"
        BY <1>2, ServerStates DEF MiddleTurn, Middle
  <2> QED
    BY <1>1, <1>2, <2>1 DEF MiddleTurn
<1>3. CASE Standing(e, c, d)
  BY <1>1, <1>3 DEF Standing
<1>4. CASE Presents(e, c, d) /\ Drift(c, d)
  <2>1. d.state # "HANDSHAKE_OVER"
        BY <1>4, ServerStates DEF Presents, At, CertificateState
  <2> QED
    BY <1>1, <1>4, <2>1
<1>5. CASE Presents(e, c, d) /\ Same(c, d, {"state", "sum", "out"})
  <2>1. d.end = c.end
        BY <1>5 DEF Same, Fields
  <2> QED
    BY <1>5, <2>1 DEF Presents, At
<1> QED
  BY <1>2, <1>3, <1>4, <1>5 DEF Presents

\* Data, and what the server does not want.
LEMMA IdlesKeys ==
  ASSUME NEW e, NEW c, NEW n, OwnKeys(e, c, n), NEW d, d.end = "no", Standing(e, c, d)
  PROVE  OwnKeys(e, d, n) /\ Later(e, c, d) /\ Steady(c, d) /\ NoHello(c, d)
<1>1. c.state = "HANDSHAKE_OVER" /\ d.state = "HANDSHAKE_OVER" /\ Drift(c, d) /\ c.end = "no"
      BY DEF Standing
<1>2. Steady(c, d) /\ SameKept(c, d) /\ NoHello(c, d)
      BY <1>1, DriftKeeps
<1>3. ~ InProgress(e, d) /\ KeysOK(e, d)
      BY <1>1 DEF InProgress, KeysOK, HasTold, HasHeard, Negotiating, Keyed
<1>4. Later(e, c, d) /\ OverOK(e, d)
      BY <1>1, <1>2, <1>3 DEF Later, Beyond, After, OwnKeys, OverOK, SameKept
<1> QED
  BY <1>2, <1>3, <1>4 DEF OwnKeys, SameKept, Later

\* The states a handshake that resumes a session goes through.
LEMMA ShortWay ==
  ASSUME IInv, NEW e \in End, NEW c, c = ctx[e], c.end = "no"
  PROVE  ResumesShort(c) /\ HelloSecond(c)
  BY DEF IInv, EndOK

\* The turns between the hellos and the end.
LEMMA MiddleKeys ==
  ASSUME NEW e, NEW c, NEW n, OwnKeys(e, c, n), ResumesShort(c),
         NEW d, d.end = "no", MiddleTurn(e, c, d)
  PROVE  OwnKeys(e, d, n) /\ Later(e, c, d) /\ Steady(c, d) /\ NoHello(c, d)
<1>1. /\ c.state \in Middle /\ d.state = Following(c.state) /\ c.end = "no" /\ Drift(c, d)
      /\ c.state = "CLIENT_KEY_EXCHANGE" => NewKeys(c, d)
      BY DEF MiddleTurn
<1>2. /\ Steady(c, d) /\ SameKept(c, d) /\ NoHello(c, d) /\ d.resume = c.resume
      /\ d.reneg = c.reneg
      BY <1>1, DriftKeeps
<1>3. d.neg.id = c.neg.id /\ d.neg.suite = c.neg.suite
      BY <1>1 DEF Drift
<1>4. c.resume => c.state \in {"SERVER_CHANGE_CIPHER_SPEC", "CLIENT_CHANGE_CIPHER_SPEC"}
      BY <1>1 DEF ResumesShort, Middle, Early, ResumedStates
<1>5. /\ HasTold(e, d) <=> HasTold(e, c)
      /\ HasHeard(e, d) <=> HasHeard(e, c)
  <2>1. CASE c.resume
    <3>1. \/ c.state = "SERVER_CHANGE_CIPHER_SPEC" /\ d.state = "SERVER_FINISHED"
          \/ c.state = "CLIENT_CHANGE_CIPHER_SPEC" /\ d.state = "CLIENT_FINISHED"
          BY <1>1, <1>4, <2>1, ServerStates
    <3> QED
      BY <1>2, <2>1, <3>1 DEF HasTold, HasHeard
  <2>2. CASE ~ c.resume
    BY <1>1, <1>2, <2>2, ServerStates DEF HasTold, HasHeard, Middle
  <2> QED
    BY <2>1, <2>2
<1>6. /\ c.state \in Negotiating \cup Keyed /\ d.state \in Negotiating \cup Keyed
      /\ d.state # "HANDSHAKE_OVER"
      BY <1>1, ServerStates DEF Middle, Negotiating, Keyed
<1>7. InProgress(e, c)
      BY <1>1, <1>6 DEF InProgress
<1>8. /\ HasTold(e, d) \/ HasHeard(e, d) => d.tneg = c.tneg
      /\ d.state \in Keyed => KeysFit(d.tneg, d.neg, d.minor)
      /\ Pending(d) = Pending(c)
  <2>1. CASE c.state = "CLIENT_KEY_EXCHANGE"
    <3>1. ~ HasTold(e, c) /\ ~ HasHeard(e, c) /\ d.state = "CERTIFICATE_VERIFY"
          BY <1>1, <2>1, ServerStates DEF HasTold, HasHeard
    <3>2. d.tneg.block[3][1] = c.rc /\ KeysFit(d.tneg, d.neg, d.minor)
          BY <1>1, <2>1, KeysOfFit DEF NewKeys
    <3> QED
      BY <1>5, <2>1, <3>1, <3>2 DEF Pending, Negotiating, Keyed
  <2>2. CASE c.state # "CLIENT_KEY_EXCHANGE"
    <3>1. d.tneg = c.tneg /\ d.rc = c.rc /\ d.neg.master = c.neg.master
          BY <1>1, <2>2 DEF Drift, SameKeys
    <3>2. /\ c.state \in Negotiating => d.state \in Negotiating
          /\ c.state \in Keyed => d.state \in Keyed
          BY <1>1, <2>2, ServerStates DEF Middle, Negotiating, Keyed
    <3>3. \A s \in Keyed : s \notin Negotiating
          BY DEF Negotiating, Keyed
    <3>4. Pending(d) = Pending(c)
          BY <1>6, <3>1, <3>2, <3>3 DEF Pending
    <3>5. d.state \in Keyed => KeysFit(c.tneg, c.neg, c.minor)
          BY <1>1, <1>6, <3>2, <3>3 DEF OwnKeys, KeysOK
    <3>6. d.state \in Keyed => KeysFit(d.tneg, d.neg, d.minor)
          BY <1>2, <1>3, <3>1, <3>5 DEF KeysFit, SameKept
    <3> QED
      BY <3>1, <3>4, <3>6
  <2> QED
    BY <2>1, <2>2
<1>9. OwnKeys(e, d, n) /\ Later(e, c, d)
      BY <1>1, <1>2, <1>3, <1>5, <1>6, <1>7, <1>8, GoesOnKeys DEF SameKept
<1> QED
  BY <1>2, <1>9

\* A turn in which the keys are not made yet.
LEMMA ExchangeKeys ==
  ASSUME NEW e, NEW c, NEW n, OwnKeys(e, c, n), c.end = "no", c.state \in Negotiating,
         NEW d, d.state \in Negotiating, d.rc = c.rc,
         d.tin = c.tin, d.tout = c.tout, d.own = c.own, d.peer = c.peer
  PROVE  OwnKeys(e, d, n) /\ Later(e, c, d)
<1>1. ~ HasTold(e, c) /\ ~ HasHeard(e, c) /\ ~ HasTold(e, d) /\ ~ HasHeard(e, d)
      BY DEF HasTold, HasHeard, Negotiating
<1>2. Pending(d) = Pending(c) /\ d.state \notin Keyed /\ d.state # "HANDSHAKE_OVER"
      BY DEF Pending, Negotiating, Keyed
<1>3. InProgress(e, c)
      BY DEF InProgress
<1> QED
  BY <1>1, <1>2, <1>3, GoesOnKeys

\* The turns of the certificates.
LEMMA PresentsKeys ==
  ASSUME NEW e \in End, NEW c, c = ctx[e], NEW n, OwnKeys(e, c, n), NEW d, d.end = "no",
         Presents(e, c, d) \/ (e = "server" /\ Skips(c, d))
  PROVE  OwnKeys(e, d, n) /\ Later(e, c, d) /\ Steady(c, d) /\ NoHello(c, d)
<1>1. /\ c.end = "no" /\ c.state \in {"CLIENT_CERTIFICATE", "SERVER_CERTIFICATE"}
      /\ \/ d.state = Following(c.state) \/ (Drift(c, d) /\ d.state = "CLIENT_KEY_EXCHANGE")
      /\ \/ Drift(c, d)
         \/ /\ Same(c, d, {"state", "sum", "out"})
            /\ d.out = [key |-> c.tout, body |-> [msg |-> "Certificate", cert |-> Own(e)]]
      BY DEF Presents, Skips, At, CertificateState
<1>2. c.state \in Negotiating /\ d.state \in Negotiating
      BY <1>1, ServerStates DEF Negotiating
<1>3. CASE Drift(c, d)
  <2>1. Steady(c, d) /\ SameKept(c, d) /\ NoHello(c, d)
        BY <1>3, DriftKeeps
  <2>2. d.rc = c.rc
        BY <1>1, <1>3 DEF Drift, SameKeys
  <2> QED
    BY <1>1, <1>2, <2>1, <2>2, ExchangeKeys DEF SameKept
<1>4. CASE /\ Same(c, d, {"state", "sum", "out"})
           /\ d.out = [key |-> c.tout, body |-> [msg |-> "Certificate", cert |-> Own(e)]]
  <2>1. /\ d.tin = c.tin /\ d.tout = c.tout /\ d.own = c.own /\ d.peer = c.peer /\ d.rc = c.rc
        BY <1>4 DEF Same, Fields
  <2>2. Steady(c, d) /\ NoHello(c, d)
        BY <1>4, <2>1 DEF Steady, Quiet, NoHello, IsHello
  <2> QED
    BY <1>1, <1>2, <2>1, <2>2, ExchangeKeys
<1> QED
  BY <1>1, <1>3, <1>4

\* The peer's certificate.
LEMMA SeesKeys ==
  ASSUME NEW e \in End, NEW c, c = ctx[e], NEW n, OwnKeys(e, c, n), NEW d,
         SeesCertificate(e, c, d)
  PROVE  OwnKeys(e, d, n) /\ Later(e, c, d) /\ Steady(c, d) /\ NoHello(c, d)
<1>1. At(e, CertificateState(Other(e))) /\ Judges(e, c, Incoming(e), d)
      BY GetsFacts DEF SeesCertificate
<1>2. /\ c.end = "no" /\ c.state \in {"CLIENT_CERTIFICATE", "SERVER_CERTIFICATE"}
      BY <1>1 DEF At, CertificateState
<1>3. /\ Same(c, d, Scratch) /\ d.out = c.out /\ d.rc = c.rc /\ d.state = Following(c.state)
      /\ d.end \in {"no", "badcert"}
      BY <1>1 DEF Judges
<1>4. d.tin = c.tin /\ d.tout = c.tout /\ d.own = c.own /\ d.peer = c.peer
      BY <1>3 DEF Same, Fields, Scratch
<1>5. Steady(c, d) /\ NoHello(c, d)
      BY <1>3, <1>4 DEF Steady, Quiet, NoHello
<1>6. c.state \in Negotiating /\ d.state \in Negotiating /\ d.state # "HANDSHAKE_OVER"
      BY <1>2, <1>3, ServerStates DEF Negotiating
<1> QED
  BY <1>2, <1>3, <1>4, <1>5, <1>6, ExchangeKeys, LeavesKeys

\* The client hears the ServerHello.
LEMMA TakesNameKeys ==
  ASSUME NEW c, c = ctx["client"], NEW n, OwnKeys("client", c, n), NEW h, NEW d,
         TakesName(c, h, d)
  PROVE  OwnKeys("client", d, n) /\ Steady(c, d) /\ NoHello(c, d)
<1>1. At("client", "SERVER_HELLO") /\ (GoesOnWith(c, h, d) \/ GoesAlong(c, h, d)) /\ d.minor = h.minor
      BY GetsFacts DEF TakesName
<1>2. c.end = "no" /\ c.state = "SERVER_HELLO" /\ c.state \in Negotiating
      BY <1>1 DEF At, Negotiating
<1>3. CASE GoesAlong(c, h, d)
  <2>1. /\ d.tin = c.tin /\ d.tout = c.tout /\ d.own = c.own /\ d.peer = c.peer /\ d.rc = c.rc
        /\ d.out = c.out /\ d.end = c.end /\ d.state = "SERVER_CERTIFICATE"
        BY <1>3 DEF GoesAlong, Same, Fields
  <2>2. d.state \in Negotiating
        BY <2>1 DEF Negotiating
  <2>3. Steady(c, d) /\ NoHello(c, d)
        BY <1>2, <2>1 DEF Steady, Quiet, NoHello
  <2> QED
    BY <1>2, <2>1, <2>2, <2>3, ExchangeKeys
<1>4. CASE GoesOnWith(c, h, d)
  <2>1. /\ d.tin = c.tin /\ d.tout = c.tout /\ d.own = c.own /\ d.peer = c.peer
        /\ d.out = c.out /\ d.end = c.end /\ d.state = "SERVER_CHANGE_CIPHER_SPEC"
        /\ d.resume = c.resume
        /\ d.tneg = KeysOf(c.neg.master, c.rc, h.random, c.neg.suite, h.minor)
        BY <1>4 DEF GoesOnWith, Same, Fields
  <2>0. d.neg.master = c.neg.master /\ d.neg.suite = c.neg.suite /\ c.resume
        BY <1>4 DEF GoesOnWith, Accepts, SessionFields
  <2>2. Steady(c, d) /\ NoHello(c, d)
        BY <1>2, <2>1 DEF Steady, Quiet, NoHello
  <2>3. d.tneg.block[3][1] = c.rc /\ KeysFit(d.tneg, d.neg, d.minor)
        BY <1>1, <2>0, <2>1, KeysOfFit
  <2>4. /\ ~ HasTold("client", d) /\ ~ HasTold("client", c)
        /\ ~ HasHeard("client", d) /\ ~ HasHeard("client", c)
        BY <1>2, <2>0, <2>1 DEF HasTold, HasHeard
  <2>5. Pending(d) = Pending(c)
        BY <1>2, <2>1, <2>3 DEF Pending, Negotiating, Keyed
  <2>6. InProgress("client", c)
        BY <1>2 DEF InProgress
  <2> QED
    BY <1>2, <2>1, <2>2, <2>3, <2>4, <2>5, <2>6, GoesOnKeys
<1> QED
  BY <1>1, <1>3, <1>4

\* The server says the ServerHello.
LEMMA NamesKeys ==
  ASSUME NEW c, c = ctx["server"], NEW n, OwnKeys("server", c, n), NEW d, Names(c, d)
  PROVE  OwnKeys("server", d, n) /\ Later("server", c, d) /\ Steady(c, d)
<1>1. /\ c.end = "no" /\ c.state = "SERVER_HELLO" /\ c.state \in Negotiating
      /\ FoundInCache(c, d) \/ NewlyNamed(c, d)
      /\ d.out.key = c.tout /\ d.out.body.msg = "ServerHello"
      BY DEF Names, At, Negotiating, Says, ServerHello
<1>2. /\ d.tin = c.tin /\ d.tout = c.tout /\ d.own = c.own /\ d.peer = c.peer
      /\ d.end = c.end /\ d.minor = c.minor
      BY <1>1 DEF FoundInCache, NewlyNamed, Same, Fields
<1>3. Steady(c, d)
      BY <1>1, <1>2 DEF Steady, Quiet
<1>4. CASE NewlyNamed(c, d)
  <2>1. d.rc = c.rc /\ d.state \in Negotiating
        BY <1>4 DEF NewlyNamed, Same, Fields, Negotiating
  <2> QED
    BY <1>1, <1>2, <1>3, <2>1, ExchangeKeys
<1>5. CASE FoundInCache(c, d)
  <2>1. /\ d.state = "SERVER_CHANGE_CIPHER_SPEC" /\ d.resume = TRUE
        /\ d.tneg = KeysOf(d.neg.master, c.rc, nonce, d.neg.suite, c.minor)
        BY <1>5 DEF FoundInCache
  <2>2. d.tneg.block[3][1] = c.rc /\ KeysFit(d.tneg, d.neg, d.minor)
        BY <1>2, <2>1, KeysOfFit
  <2>3. /\ ~ HasTold("server", d) /\ ~ HasTold("server", c)
        /\ ~ HasHeard("server", d) /\ ~ HasHeard("server", c)
        BY <1>1, <2>1 DEF HasTold, HasHeard
  <2>4. Pending(d) = Pending(c)
        BY <1>1, <2>1, <2>2 DEF Pending, Negotiating, Keyed
  <2>5. InProgress("server", c)
        BY <1>1 DEF InProgress
  <2> QED
    BY <1>1, <1>2, <1>3, <2>1, <2>2, <2>3, <2>4, <2>5, GoesOnKeys
<1> QED
  BY <1>1, <1>4, <1>5

\* A handshake begins with random number x.
LEMMA BeginsKeys ==
  ASSUME NEW e, NEW c, NEW n, OwnKeys(e, c, n), c.end = "no", NEW d, NEW x,
         d.tin = c.tin, d.tout = c.tout, d.own = c.own, d.peer = c.peer,
         d.state \in {"HELLO_REQUEST", "CLIENT_HELLO", "SERVER_HELLO"},
         InProgress(e, d) => Pending(d) = x /\ x \in Nat /\ x < n /\ After(c, x)
  PROVE  OwnKeys(e, d, n) /\ Reads(e, c, x, d)
<1>1. ~ HasTold(e, d) /\ ~ HasHeard(e, d) /\ d.state \notin Keyed /\ d.state # "HANDSHAKE_OVER"
      BY DEF HasTold, HasHeard, Keyed
<1>2. KeysOK(e, d) /\ OverOK(e, d)
      BY <1>1 DEF KeysOK, OverOK
<1>3. Reads(e, c, x, d)
      BY DEF Reads, Beyond, After
<1>4. Beyond(e, d, n)
      BY DEF OwnKeys, Beyond, After
<1> QED
  BY <1>2, <1>3, <1>4 DEF OwnKeys, After

\* The turn before a handshake.
LEMMA StartsKeys ==
  ASSUME NEW e, NEW c, c = ctx[e], NEW n, OwnKeys(e, c, n), NEW d, Starts(e, c, d)
  PROVE  OwnKeys(e, d, n) /\ Later(e, c, d) /\ Steady(c, d) /\ NoHello(c, d)
<1>1. /\ c.end = "no" /\ c.state = "HELLO_REQUEST" /\ d.state = "CLIENT_HELLO"
      /\ d.end = c.end /\ d.tin = c.tin /\ d.tout = c.tout /\ d.own = c.own /\ d.peer = c.peer
      /\ d.out = c.out /\ d.reneg = c.reneg /\ d.msg = c.msg
      BY DEF Starts, At, Same, Fields
<1>2. Steady(c, d) /\ NoHello(c, d)
      BY <1>1 DEF Steady, Quiet, NoHello
<1>3. /\ ~ HasTold(e, c) /\ ~ HasHeard(e, c) /\ ~ HasTold(e, d) /\ ~ HasHeard(e, d)
      /\ d.state \notin Keyed
      BY <1>1 DEF HasTold, HasHeard, Keyed
<1>4. InProgress(e, d) => InProgress(e, c) /\ Pending(d) = Pending(c)
      BY <1>1 DEF InProgress, Pending, Negotiating, Keyed
<1> QED
  BY <1>1, <1>2, <1>3, <1>4, GoesOnKeys

\* The client's hello.
LEMMA OffersKeys ==
  ASSUME Typed, NEW c, c = ctx["client"], OwnKeys("client", c, nonce), NEW d, Offers(c, d)
  PROVE  /\ OwnKeys("client", d, nonce + 1) /\ Steady(c, d) /\ c.out = None
         /\ d.out.body.random = nonce /\ IsHello(d.out)
<1>1. /\ c.end = "no" /\ c.out = None /\ d.state = "SERVER_HELLO" /\ d.rc = nonce
      /\ d.end = c.end /\ d.tin = c.tin /\ d.tout = c.tout /\ d.own = c.own /\ d.peer = c.peer
      BY DEF Offers, At, Same, Fields
<1>2. /\ d.out.key = c.tout /\ d.out.body.random = nonce
      /\ d.out.body.msg = "ClientHello"
      BY DEF Offers, Says, ClientHello
<1>3. Steady(c, d)
      BY <1>1, <1>2 DEF Steady, Quiet
<1>4. nonce \in Nat /\ nonce + 1 \in Nat /\ nonce < nonce + 1
      BY DEF Typed
<1>5. OwnKeys("client", c, nonce + 1) /\ After(c, nonce)
      BY <1>4, OwnKeysLater DEF OwnKeys, Beyond
<1>6. Pending(d) = nonce
      BY <1>1 DEF Pending, Negotiating
<1>7. OwnKeys("client", d, nonce + 1)
      BY <1>1, <1>4, <1>5, <1>6, BeginsKeys
<1> QED
  BY <1>1, <1>2, <1>3, <1>7 DEF IsHello

\* What the server makes of a ClientHello that comes first on a connection.
LEMMA TakesFirstKeys ==
  ASSUME NEW c, c = ctx["server"], NEW n, OwnKeys("server", c, n), NEW h, NEW d,
         TakesOffer(c, h, d), ~ c.reneg, Beyond("server", c, h.random), h.random < n
  PROVE  OwnKeys("server", d, n) /\ Reads("server", c, h.random, d) /\ Steady(c, d)
<1>1. c.end = "no" /\ c.state = "CLIENT_HELLO" /\ HelloRead(c, h, d)
      BY DEF TakesOffer, At
<1>2. /\ d.tin = c.tin /\ d.tout = c.tout /\ d.own = c.own /\ d.peer = c.peer
      /\ d.end \in {"no", "version", "nocipher", "renegotiation"}
      /\ d.out = c.out \/ d.out = [key |-> c.tout, body |-> [msg |-> "Fatal"]]
      BY <1>1 DEF HelloRead, Same, Fields
<1>3. Steady(c, d)
      BY <1>2 DEF Steady, Quiet
<1>4. \/ d.end # "no" /\ d.state = "CLIENT_HELLO"
      \/ d.end = "no" /\ d.state = "SERVER_HELLO" /\ d.rc = h.random
      BY <1>1 DEF HelloRead, Same, Fields
<1>5. InProgress("server", d) => Pending(d) = h.random
      BY <1>4 DEF InProgress, Pending, Negotiating
<1>6. h.random \in Nat /\ After(c, h.random)
      BY DEF Beyond
<1> QED
  BY <1>1, <1>2, <1>3, <1>4, <1>5, <1>6, BeginsKeys

\* What the server makes of one that it has read before.
LEMMA TakesAgainKeys ==
  ASSUME NEW c, c = ctx["server"], NEW n, OwnKeys("server", c, n), NEW h, NEW d,
         TakesOffer(c, h, d), c.reneg
  PROVE  OwnKeys("server", d, n) /\ Later("server", c, d) /\ Steady(c, d)
<1>1. c.end = "no" /\ c.state = "CLIENT_HELLO" /\ HelloRead(c, h, d) /\ h = c.msg
      BY DEF TakesOffer, At
<1>2. /\ d.tin = c.tin /\ d.tout = c.tout /\ d.own = c.own /\ d.peer = c.peer
      /\ d.end \in {"no", "version", "nocipher", "renegotiation"}
      /\ d.out = c.out \/ d.out = [key |-> c.tout, body |-> [msg |-> "Fatal"]]
      BY <1>1 DEF HelloRead, Same, Fields
<1>3. Steady(c, d)
      BY <1>2 DEF Steady, Quiet
<1>4. \/ d.end # "no" /\ d.state = "CLIENT_HELLO"
      \/ d.end = "no" /\ d.state = "SERVER_HELLO" /\ d.rc = h.random
      BY <1>1 DEF HelloRead, Same, Fields
<1>5. InProgress("server", c) /\ Pending(c) = h.random
      BY <1>1 DEF InProgress, Pending, Negotiating, Keyed
<1>6. InProgress("server", d) => Pending(d) = h.random
      BY <1>4 DEF InProgress, Pending, Negotiating
<1>7. /\ ~ HasTold("server", c) /\ ~ HasHeard("server", c)
      /\ ~ HasTold("server", d) /\ ~ HasHeard("server", d)
      /\ d.state \notin Keyed /\ d.state # "HANDSHAKE_OVER"
      BY <1>1, <1>4 DEF HasTold, HasHeard, Keyed
<1> QED
  BY <1>1, <1>2, <1>3, <1>5, <1>6, <1>7, GoesOnKeys

\* A ClientHello makes the server renegotiate.
LEMMA RestartsKeys ==
  ASSUME NEW e \in End, NEW c, c = ctx[e], NEW n, OwnKeys(e, c, n), NEW d, Restarts(e, c, d),
         NEW x, e = "server" => x = Incoming(e).random /\ Beyond("server", c, x) /\ x < n
  PROVE  OwnKeys(e, d, n) /\ Reads(e, c, x, d) /\ Steady(c, d) /\ NoHello(c, d)
<1>1. /\ c.end = "no" /\ c.state = "HANDSHAKE_OVER" /\ d.state = "HELLO_REQUEST"
      /\ d.end = c.end /\ d.tin = c.tin /\ d.tout = c.tout /\ d.own = c.own /\ d.peer = c.peer
      /\ d.out = c.out
      BY DEF Restarts, At, Same, Fields
<1>2. Steady(c, d) /\ NoHello(c, d)
      BY <1>1 DEF Steady, Quiet, NoHello
<1>3. InProgress(e, d) => e = "server"
      BY <1>1 DEF InProgress, Negotiating, Keyed
<1>4. e = "server" => Pending(d) = x
      BY <1>1 DEF Restarts, Pending, Negotiating, Keyed
<1> QED
  BY <1>1, <1>2, <1>3, <1>4, BeginsKeys DEF Beyond

\* An end says that it has its keys.
LEMMA ToldKeys ==
  ASSUME NullIsNoKey, NEW e \in End, NEW c, c = ctx[e], NEW n, OwnKeys(e, c, n), HelloSecond(c),
         NEW d, SaysFinished(e, c, d)
  PROVE  /\ OwnKeys(e, d, n) /\ Later(e, c, d) /\ NoHello(c, d)
         /\ d.tin = c.tin /\ d.peer = c.peer /\ d.end = "no"
         /\ d.tout # None /\ Rank(d.tout) \in Nat /\ After(c, Rank(d.tout))
         /\ d.out.key = d.tout /\ d.out.body.hash = d.own
<1>1. /\ c.end = "no" /\ c.state = FinishedState(e) /\ d.state = AfterWriting(e, c)
      /\ d.own = FinishedBy(e, c) /\ d.tout = OutKey(e, c)
      /\ d.out = [key |-> OutKey(e, c), body |-> [msg |-> "Finished", hash |-> FinishedBy(e, c)]]
      BY DEF SaysFinished, At
<1>2. /\ d.end = c.end /\ d.tin = c.tin /\ d.peer = c.peer /\ d.resume = c.resume
      /\ d.tneg = c.tneg /\ d.neg = c.neg /\ d.minor = c.minor
      BY DEF SaysFinished, Same, Fields
<1>3. /\ ~ HasTold(e, c) /\ HasTold(e, d) /\ (HasHeard(e, d) => HasHeard(e, c))
      /\ c.state \in Keyed /\ d.state \in Keyed
      /\ c.state \notin Negotiating /\ d.state \notin Negotiating
      /\ d.state # "HANDSHAKE_OVER"
  <2>1. CASE e = "client" /\ c.resume
    <3>1. c.state = "CLIENT_FINISHED" /\ d.state = "HANDSHAKE_WRAPUP"
          BY <1>1, <2>1 DEF FinishedState, AfterWriting
    <3> QED
      BY <1>2, <2>1, <3>1 DEF HasTold, HasHeard, Keyed, Negotiating
  <2>2. CASE e = "client" /\ ~ c.resume
    <3>1. c.state = "CLIENT_FINISHED" /\ d.state = "SERVER_CHANGE_CIPHER_SPEC"
          BY <1>1, <2>2, ServerStates DEF FinishedState, AfterWriting
    <3> QED
      BY <1>2, <2>2, <3>1 DEF HasTold, HasHeard, Keyed, Negotiating
  <2>3. CASE e = "server" /\ c.resume
    <3>1. c.state = "SERVER_FINISHED" /\ d.state = "CLIENT_CHANGE_CIPHER_SPEC"
          BY <1>1, <2>3 DEF FinishedState, AfterWriting
    <3> QED
      BY <1>2, <2>3, <3>1 DEF HasTold, HasHeard, Keyed, Negotiating
  <2>4. CASE e = "server" /\ ~ c.resume
    <3>1. c.state = "SERVER_FINISHED" /\ d.state = "FLUSH_BUFFERS"
          BY <1>1, <2>4, ServerStates DEF FinishedState, AfterWriting
    <3> QED
      BY <1>2, <2>4, <3>1 DEF HasTold, HasHeard, Keyed, Negotiating
  <2> QED
    BY <2>1, <2>2, <2>3, <2>4 DEF End
<1>4. InProgress(e, c) /\ InProgress(e, d)
      BY <1>1, <1>2, <1>3 DEF InProgress
<1>5. Pending(c) = c.tneg.block[3][1] /\ Pending(d) = c.tneg.block[3][1]
      BY <1>2, <1>3 DEF Pending
<1>6. d.tout = <<e, c.tneg>> /\ d.tout # None
      BY <1>1 DEF OutKey, NullIsNoKey
<1>7. Rank(d.tout) = Pending(c)
      BY <1>5, <1>6 DEF Rank
<1>8. Pending(c) \in Nat /\ After(c, Pending(c))
      BY <1>3, <1>4 DEF OwnKeys
<1>9. \A m : Beyond(e, c, m) => Beyond(e, d, m)
      BY <1>4, <1>5, <1>7 DEF Beyond, After
<1>10. IdIn(d.own) = d.neg.id
  <2>1. c.sum[2].id = c.neg.id
        BY <1>1 DEF HelloSecond, FinishedState, Early
  <2>2. d.own = <<e, c.neg.master, c.sum>>
        BY <1>1 DEF FinishedBy, PRF, Transcript
  <2> QED
    BY <1>2, <2>1, <2>2 DEF IdIn
<1>11. KeysOK(e, d)
  <2>1. KeysFit(c.tneg, c.neg, c.minor) /\ (HasHeard(e, c) => c.tin = InKey(e, c) /\ IdIn(c.peer) = c.neg.id)
        BY <1>1, <1>3 DEF OwnKeys, KeysOK
  <2> QED
    BY <1>1, <1>2, <1>3, <1>10, <2>1 DEF KeysOK, OutKey, InKey
<1>12. OwnKeys(e, d, n)
      BY <1>3, <1>5, <1>7, <1>8, <1>9, <1>11 DEF OwnKeys, OverOK
<1>13. ~ IsHello(d.out) /\ d.out.key = d.tout /\ d.out.body.hash = d.own
      BY <1>1 DEF IsHello
<1> QED
  BY <1>1, <1>2, <1>6, <1>7, <1>8, <1>9, <1>12, <1>13 DEF Later, NoHello

\* An end hears that its peer has its keys.
LEMMA HeardKeys ==
  ASSUME NEW e \in End, NEW c, c = ctx[e], NEW n, OwnKeys(e, c, n), HelloSecond(c),
         NEW d, HearsFinished(e, c, d)
  PROVE  /\ OwnKeys(e, d, n) /\ Later(e, c, d) /\ Quiet(c, d) /\ NoHello(c, d)
         /\ Head(net[e]).key = d.tin /\ Head(net[e]).body.msg = "Finished"
         /\ d.end = "finished" \/ d.peer = Head(net[e]).body.hash
<1>1. /\ Gets(e, FinishedState(Other(e)), {"Finished"}) /\ d.tin = InKey(e, c)
      /\ \/ /\ d.end = "no" /\ d.state = AfterReading(e, c)
            /\ d.peer = FinishedBy(Other(e), c) /\ d.peer = Incoming(e).hash
         \/ d.end = "finished" /\ d.state = c.state
      BY DEF HearsFinished
<1>2. c.end = "no" /\ c.state = FinishedState(Other(e))
      BY <1>1, GetsFacts DEF At
<1>3. /\ d.tout = c.tout /\ d.own = c.own /\ d.out = c.out /\ d.resume = c.resume
      /\ d.tneg = c.tneg /\ d.neg = c.neg /\ d.minor = c.minor
      BY DEF HearsFinished, Same, Fields
<1>4. Quiet(c, d) /\ NoHello(c, d)
      BY <1>3 DEF Quiet, NoHello
<1>5. Head(net[e]).key = d.tin /\ Head(net[e]).body.msg = "Finished"
  <2>1. Head(net[e]).key = ReadKey(e) /\ Head(net[e]).body.msg = "Finished"
        BY <1>1 DEF Gets
  <2>2. Awaits(e) = {"Finished"}
        BY <1>2 DEF Awaits, FinishedState, Other, End
  <2> QED
    BY <1>1, <2>1, <2>2 DEF ReadKey
<1>6. c.state \in {"CLIENT_FINISHED", "SERVER_FINISHED"}
      BY <1>2 DEF FinishedState
<1>7. CASE d.end = "finished" /\ d.state = c.state
  BY <1>3, <1>4, <1>5, <1>6, <1>7, LeavesKeys
<1>8. CASE /\ d.end = "no" /\ d.state = AfterReading(e, c)
           /\ d.peer = FinishedBy(Other(e), c) /\ d.peer = Incoming(e).hash
  <2>1. /\ HasHeard(e, d) /\ (HasTold(e, d) <=> HasTold(e, c))
        /\ c.state \in Keyed /\ d.state \in Keyed
        /\ c.state \notin Negotiating /\ d.state \notin Negotiating
        /\ d.state # "HANDSHAKE_OVER"
    <3>1. CASE e = "client" /\ c.resume
      <4>1. c.state = "SERVER_FINISHED" /\ d.state = "CLIENT_CHANGE_CIPHER_SPEC"
            BY <1>2, <1>8, <3>1 DEF FinishedState, AfterReading, Other
      <4> QED
        BY <1>3, <3>1, <4>1 DEF HasTold, HasHeard, Keyed, Negotiating
    <3>2. CASE e = "client" /\ ~ c.resume
      <4>1. c.state = "SERVER_FINISHED" /\ d.state = "FLUSH_BUFFERS"
            BY <1>2, <1>8, <3>2, ServerStates DEF FinishedState, AfterReading, Other
      <4> QED
        BY <1>3, <3>2, <4>1 DEF HasTold, HasHeard, Keyed, Negotiating
    <3>3. CASE e = "server" /\ c.resume
      <4>1. c.state = "CLIENT_FINISHED" /\ d.state = "HANDSHAKE_WRAPUP"
            BY <1>2, <1>8, <3>3 DEF FinishedState, AfterReading, Other
      <4> QED
        BY <1>3, <3>3, <4>1 DEF HasTold, HasHeard, Keyed, Negotiating
    <3>4. CASE e = "server" /\ ~ c.resume
      <4>1. c.state = "CLIENT_FINISHED" /\ d.state = "SERVER_CHANGE_CIPHER_SPEC"
            BY <1>2, <1>8, <3>4, ServerStates DEF FinishedState, AfterReading, Other
      <4> QED
        BY <1>3, <3>4, <4>1 DEF HasTold, HasHeard, Keyed, Negotiating
    <3> QED
      BY <3>1, <3>2, <3>3, <3>4 DEF End
  <2>2. InProgress(e, c) /\ InProgress(e, d) /\ Pending(d) = Pending(c)
        BY <1>2, <1>3, <1>8, <2>1 DEF InProgress, Pending
  <2>3. IdIn(d.peer) = d.neg.id
    <3>1. c.sum[2].id = c.neg.id
          BY <1>2, <1>6 DEF HelloSecond, Early
    <3>2. d.peer = <<Other(e), c.neg.master, c.sum>>
          BY <1>8 DEF FinishedBy, PRF, Transcript
    <3> QED
      BY <1>3, <3>1, <3>2 DEF IdIn
  <2>4. KeysOK(e, d)
    <3>1. /\ KeysFit(c.tneg, c.neg, c.minor)
          /\ HasTold(e, c) => c.tout = OutKey(e, c) /\ IdIn(c.own) = c.neg.id
          BY <1>2, <2>1 DEF OwnKeys, KeysOK
    <3> QED
      BY <1>1, <1>3, <2>1, <2>3, <3>1 DEF KeysOK, OutKey, InKey
  <2>5. Later(e, c, d)
        BY <1>3, <2>2 DEF Later, Beyond, After
  <2>6. OwnKeys(e, d, n)
        BY <1>3, <2>1, <2>2, <2>4, <2>5 DEF OwnKeys, OverOK, Later, After
  <2> QED
    BY <1>4, <1>5, <1>8, <2>5, <2>6 DEF Incoming
<1> QED
  BY <1>1, <1>7, <1>8

\* The handshake is over: the session is that of the keys.
LEMMA WrapsKeys ==
  ASSUME NEW e \in End, NEW c, c = ctx[e], NEW n, OwnKeys(e, c, n), NEW d, Wraps(e, c, d)
  PROVE  OwnKeys(e, d, n) /\ Later(e, c, d) /\ Steady(c, d) /\ NoHello(c, d)
<1>1. /\ c.end = "no" /\ c.state = "HANDSHAKE_WRAPUP" /\ d.state = "HANDSHAKE_OVER"
      /\ d.end = c.end /\ d.tin = c.tin /\ d.tout = c.tout /\ d.own = c.own /\ d.peer = c.peer
      /\ d.out = c.out /\ d.minor = c.minor /\ d.ses = c.neg
      BY DEF Wraps, At, Same, Fields
<1>2. Steady(c, d) /\ NoHello(c, d)
      BY <1>1 DEF Steady, Quiet, NoHello
<1>3. ~ InProgress(e, d) /\ KeysOK(e, d)
      BY <1>1 DEF InProgress, KeysOK, HasTold, HasHeard, Negotiating, Keyed
<1>4. HasTold(e, c) /\ HasHeard(e, c) /\ c.state \in Keyed /\ KeysOK(e, c)
      BY <1>1 DEF HasTold, HasHeard, Keyed, OwnKeys
<1>5. OverOK(e, d)
  <2>1. c.tout = <<e, c.tneg>> /\ c.tin = <<Other(e), c.tneg>> /\ KeysFit(c.tneg, c.neg, c.minor)
        /\ IdIn(c.own) = c.neg.id /\ IdIn(c.peer) = c.neg.id
        BY <1>4 DEF KeysOK, OutKey, InKey
  <2> QED
    BY <1>1, <2>1 DEF OverOK
<1>6. Later(e, c, d)
      BY <1>1, <1>3 DEF Later, Beyond, After
<1> QED
  BY <1>1, <1>2, <1>3, <1>5, <1>6 DEF OwnKeys, Later

\* The application leaves.
LEMMA ClosesKeys ==
  ASSUME NEW e, NEW c, c = ctx[e], NEW n, OwnKeys(e, c, n), NEW d, Closes(e, c, d)
  PROVE  OwnKeys(e, d, n) /\ Later(e, c, d) /\ Steady(c, d) /\ NoHello(c, d)
<1>1. /\ c.state = "HANDSHAKE_OVER" /\ d.end = "closed" /\ SameKept(c, d) /\ d.out = c.out
      BY DEF Closes, At, Same, Fields, SameKept
<1>2. Steady(c, d) /\ NoHello(c, d)
      BY <1>1 DEF Steady, Quiet, NoHello, SameKept
<1> QED
  BY <1>1, <1>2, LeavesKeys DEF SameKept

\* A record leaves.
LEMMA FlushKeys ==
  ASSUME NEW e, NEW c, NEW n, OwnKeys(e, c, n), NEW d, Same(c, d, {"out"})
  PROVE  OwnKeys(e, d, n) /\ Later(e, c, d)
<1>1. \A f \in Fields \ {"out"} : d[f] = c[f]
      BY DEF Same
<1>2. /\ d.state = c.state /\ d.end = c.end /\ d.reneg = c.reneg /\ d.msg = c.msg /\ d.rc = c.rc
      /\ d.tneg = c.tneg /\ d.neg = c.neg /\ d.resume = c.resume /\ d.minor = c.minor
      /\ d.tin = c.tin /\ d.tout = c.tout /\ d.own = c.own /\ d.peer = c.peer /\ d.ses = c.ses
      BY <1>1 DEF Fields
<1>3. /\ InProgress(e, d) = InProgress(e, c) /\ Pending(d) = Pending(c)
      /\ HasTold(e, d) = HasTold(e, c) /\ HasHeard(e, d) = HasHeard(e, c)
      BY <1>2 DEF InProgress, Pending, HasTold, HasHeard
<1>4. Later(e, c, d)
      BY <1>2, <1>3 DEF Later, Beyond, After
<1>5. KeysOK(e, c) => KeysOK(e, d)
      BY <1>2, <1>3 DEF KeysOK, OutKey, InKey
<1>6. OverOK(e, d)
      BY <1>2 DEF OwnKeys, OverOK
<1> QED
  BY <1>2, <1>3, <1>4, <1>5, <1>6 DEF OwnKeys, Later, After

-----------------------------------------------------------------------------
(* The steps                                                                *)

\* d says nothing under a key, or in a Finished, that is not its own.
Speaks(c, d) ==
  \/ Quiet(c, d)
  \/ /\ d.tout # None /\ Rank(d.tout) \in Nat /\ After(c, Rank(d.tout))
     /\ d.out.key = d.tout /\ d.out.body.hash = d.own

\* d reads under the key it has, or under that of a Finished it has read.
Listens(e, c, d) ==
  \/ d.tin = c.tin /\ d.peer = c.peer /\ (d.end # "finished" => c.end # "finished")
  \/ /\ net[e] # <<>> /\ Consumes(e, d)
     /\ Head(net[e]).key = d.tin /\ Head(net[e]).body.msg = "Finished"
     /\ d.end = "finished" \/ d.peer = Head(net[e]).body.hash

\* The ClientHellos still rise.
Climbs(e, d) ==
  /\ e = "client" => Rising(ctx["server"], d.out, net["server"], nonce')
  /\ e = "server" => Rising(d, ctx["client"].out, net'["server"], nonce')

\* A turn.
LEMMA AgreeMoved ==
  ASSUME AgreeInv, Typed', IInv', nonce <= nonce', NEW e \in End, NEW c, c = ctx[e], NEW d,
         Took(e, d), OwnKeys(e, d, nonce'), Speaks(c, d), Listens(e, c, d), Climbs(e, d)
  PROVE  AgreeInv'
<1>1. PICK f : f = Other(e)
      OBVIOUS
<1>2. /\ f \in End /\ f # e /\ Other(e) = f /\ Other(f) = e /\ \A g \in End : g = e \/ g = f
      BY <1>1, OtherEnd
<1>3. /\ DOMAIN ctx = End /\ DOMAIN net = End /\ nonce \in Nat /\ nonce' \in Nat
      /\ Sequence(net[e]) /\ Sequence(net[f])
      BY <1>2 DEF AgreeInv, Typed, RecordsOK
<1>4. ctx'[e] = d /\ ctx'[f] = ctx[f] /\ net'[f] = net[f]
      BY <1>2, <1>3 DEF Took, Becomes, Consumes
<1>5. net'[e] = net[e] \/ (net[e] # <<>> /\ net'[e] = Tail(net[e]))
      BY <1>3 DEF Took, Becomes, Consumes
<1>6. /\ OwnKeys(e, c, nonce) /\ OwnKeys(f, ctx[f], nonce)
      /\ Linked(c, ctx[f], net[f]) /\ Linked(ctx[f], c, net[e])
      BY <1>2 DEF AgreeInv
<1>7. OwnKeys(f, ctx'[f], nonce')
      BY <1>3, <1>4, <1>6, OwnKeysLater
<1>8. Linked(d, ctx[f], net[f])
      BY <1>6, QuietLinked, ToldLinked DEF Speaks, OwnKeys
<1>9. Linked(ctx[f], d, net'[e])
  <2>1. CASE d.tin = c.tin /\ d.peer = c.peer /\ (d.end # "finished" => c.end # "finished")
    BY <1>3, <1>5, <1>6, <2>1, ReadLinked
  <2>2. CASE /\ net[e] # <<>> /\ Consumes(e, d)
             /\ Head(net[e]).key = d.tin /\ Head(net[e]).body.msg = "Finished"
             /\ d.end = "finished" \/ d.peer = Head(net[e]).body.hash
    <3>1. net'[e] = Tail(net[e])
          BY <1>3, <2>2 DEF Consumes
    <3> QED
      BY <1>3, <1>6, <2>2, <3>1, HeardLinked
  <2> QED
    BY <2>1, <2>2 DEF Listens
<1>10. \A g \in End : OwnKeys(g, ctx'[g], nonce')
       BY <1>2, <1>4, <1>7
<1>11. \A g \in End : Linked(ctx'[g], ctx'[Other(g)], net'[Other(g)])
       BY <1>2, <1>4, <1>8, <1>9
<1>12. Rising(ctx'["server"], ctx'["client"].out, net'["server"], nonce')
  <2>1. CASE e = "client"
    BY <1>4, <2>1, <1>1 DEF Climbs, Other
  <2>2. CASE e = "server"
    BY <1>4, <2>2, <1>1 DEF Climbs, Other
  <2> QED
    BY <2>1, <2>2 DEF End
<1> QED
  BY <1>10, <1>11, <1>12 DEF AgreeInv

\* A turn of a client that says no ClientHello, or of a server that reads none.
LEMMA ClimbsOn ==
  ASSUME AgreeInv, Typed', nonce <= nonce', NEW e \in End, NEW c, c = ctx[e], NEW d, Took(e, d),
         e = "client" => NoHello(c, d), e = "server" => Later(e, c, d)
  PROVE  Climbs(e, d)
<1>1. /\ Rising(ctx["server"], ctx["client"].out, net["server"], nonce)
      /\ DOMAIN ctx = End /\ DOMAIN net = End /\ nonce \in Nat /\ nonce' \in Nat
      /\ Sequence(net["server"])
      BY DEF AgreeInv, Typed, RecordsOK, End
<1>2. CASE e = "client"
  BY <1>1, <1>2, NoHelloRising DEF Climbs, NoHello
<1>3. CASE e = "server"
  <2>1. net'[e] = net[e] \/ (net[e] # <<>> /\ net'[e] = Tail(net[e]))
        BY <1>1 DEF Took, Becomes, Consumes
  <2> QED
    BY <1>1, <1>3, <2>1, LaterRising DEF Climbs
<1> QED
  BY <1>2, <1>3 DEF End

\* A turn of the server that reads one.
LEMMA ClimbsUp ==
  ASSUME AgreeInv, nonce' = nonce, NEW c, c = ctx["server"], NEW d, net["server"] # <<>>,
         Consumes("server", d), IsHello(Head(net["server"])),
         Reads("server", c, Head(net["server"]).body.random, d)
  PROVE  Climbs("server", d)
<1>1. /\ Rising(ctx["server"], ctx["client"].out, net["server"], nonce)
      /\ DOMAIN net = End /\ nonce \in Nat /\ Sequence(net["server"])
      BY DEF AgreeInv, Typed, RecordsOK, End
<1>2. net'["server"] = Tail(net["server"])
      BY <1>1 DEF Consumes, End
<1> QED
  BY <1>1, <1>2, ReadsRising DEF Climbs

\* The ClientHello that the server reads is a later one than all before.
LEMMA HelloIsNews ==
  ASSUME AgreeInv, net["server"] # <<>>, Incoming("server").msg = "ClientHello"
  PROVE  /\ Beyond("server", ctx["server"], Incoming("server").random)
         /\ Incoming("server").random < nonce /\ IsHello(Head(net["server"]))
<1>1. Head(net["server"]) = net["server"][1] /\ 1 \in 1..Len(net["server"])
      BY TypedIncoming DEF AgreeInv, End
<1>2. IsHello(Head(net["server"]))
      BY DEF Incoming, IsHello
<1>3. News(ctx["server"], Head(net["server"]), nonce)
      BY <1>1 DEF AgreeInv, Rising
<1> QED
  BY <1>2, <1>3 DEF News, Incoming

\* A turn that leaves e's keys alone.
LEMMA AgreeSteady ==
  ASSUME AgreeInv, Typed', IInv', nonce <= nonce', NEW e \in End, NEW c, c = ctx[e], c.end = "no",
         NEW d, Took(e, d), OwnKeys(e, d, nonce), Steady(c, d),
         e = "client" => NoHello(c, d), e = "server" => Later(e, c, d)
  PROVE  AgreeInv'
<1>1. nonce \in Nat /\ nonce' \in Nat
      BY DEF AgreeInv, Typed
<1>2. OwnKeys(e, d, nonce')
      BY <1>1, OwnKeysLater
<1>3. Speaks(c, d) /\ Listens(e, c, d)
      BY DEF Steady, Speaks, Listens
<1>4. Climbs(e, d)
      BY ClimbsOn
<1> QED
  BY <1>2, <1>3, <1>4, AgreeMoved

\* The hellos.
LEMMA AgreeHellos ==
  ASSUME AgreeInv, Typed', IInv', NEW e \in End, NEW c, c = ctx[e], NEW d,
         \/ Starts(e, c, d)
         \/ e = "client" /\ (Offers(c, d) \/ \E h : TakesName(c, h, d))
         \/ e = "server" /\ (Names(c, d) \/ \E h : TakesOffer(c, h, d))
  PROVE  AgreeInv'
<1>1. Typed /\ IInv /\ OwnKeys(e, c, nonce) /\ nonce \in Nat
      BY DEF AgreeInv, Typed
<1>2. Took(e, d)
      BY <1>1, HelloTyped
<1>3. CASE Starts(e, c, d)
  <2>1. c.end = "no" /\ nonce <= nonce'
        BY <1>1, <1>3 DEF Starts, At
  <2> QED
    BY <1>1, <1>2, <1>3, <2>1, StartsKeys, AgreeSteady
<1>4. CASE e = "client" /\ Offers(c, d)
  <2>1. c.end = "no" /\ nonce' = nonce + 1 /\ nonce <= nonce'
        BY <1>1, <1>4 DEF Offers, At
  <2>2. /\ OwnKeys(e, d, nonce') /\ Steady(c, d) /\ c.out = None
        /\ d.out.body.random = nonce /\ IsHello(d.out)
        BY <1>1, <1>4, <2>1, OffersKeys
  <2>3. Beyond("server", ctx["server"], nonce)
        BY DEF AgreeInv, OwnKeys, End
  <2>4. Rising(ctx["server"], None, net["server"], nonce)
        BY <1>4, <2>2 DEF AgreeInv
  <2>5. Rising(ctx["server"], d.out, net["server"], nonce')
        BY <1>1, <2>1, <2>2, <2>3, <2>4, HelloRising
  <2>6. Climbs(e, d) /\ Speaks(c, d) /\ Listens(e, c, d)
        BY <1>4, <2>1, <2>2, <2>5 DEF Climbs, Steady, Speaks, Listens
  <2> QED
    BY <1>2, <2>1, <2>2, <2>6, AgreeMoved
<1>5. ASSUME e = "client", NEW h, TakesName(c, h, d)
      PROVE  AgreeInv'
  <2>1. c.end = "no" /\ nonce <= nonce'
        BY <1>1, <1>5, GetsFacts DEF TakesName, At
  <2> QED
    BY <1>1, <1>2, <1>5, <2>1, TakesNameKeys, AgreeSteady
<1>6. CASE e = "server" /\ Names(c, d)
  <2>1. c.end = "no" /\ nonce <= nonce'
        BY <1>1, <1>6 DEF Names, At
  <2> QED
    BY <1>1, <1>2, <1>6, <2>1, NamesKeys, AgreeSteady
<1>7. ASSUME e = "server", NEW h, TakesOffer(c, h, d)
      PROVE  AgreeInv'
  <2>1. c.end = "no" /\ nonce' = nonce /\ nonce <= nonce'
        BY <1>1, <1>7 DEF TakesOffer, At
  <2>2. CASE c.reneg
    BY <1>1, <1>2, <1>7, <2>1, <2>2, TakesAgainKeys, AgreeSteady
  <2>3. CASE ~ c.reneg
    <3>1. /\ h = Incoming("server") /\ h.msg = "ClientHello" /\ net["server"] # <<>>
          /\ Consumes("server", d)
          BY <1>7, <2>3 DEF TakesOffer
    <3>2. /\ Beyond("server", c, h.random) /\ h.random < nonce
          /\ IsHello(Head(net["server"])) /\ h = Head(net["server"]).body
          BY <1>7, <3>1, HelloIsNews DEF Incoming
    <3>3. OwnKeys("server", d, nonce) /\ Reads("server", c, h.random, d) /\ Steady(c, d)
          BY <1>1, <1>7, <2>3, <3>2, TakesFirstKeys
    <3>4. Climbs(e, d)
          BY <1>7, <2>1, <3>1, <3>2, <3>3, ClimbsUp
    <3>5. Speaks(c, d) /\ Listens(e, c, d) /\ OwnKeys(e, d, nonce')
          BY <1>7, <2>1, <3>3 DEF Steady, Speaks, Listens
    <3> QED
      BY <1>2, <2>1, <3>4, <3>5, AgreeMoved
  <2> QED
    BY <2>2, <2>3
<1> QED
  BY <1>3, <1>4, <1>5, <1>6, <1>7

\* The turns that leave the keys alone.
LEMMA AgreeQuiet ==
  ASSUME AgreeInv, Typed', IInv', NEW e \in End, NEW c, c = ctx[e], NEW d,
         \/ e = "server" /\ Skips(c, d)
         \/ MiddleTurn(e, c, d) \/ Standing(e, c, d) \/ Presents(e, c, d)
         \/ SeesCertificate(e, c, d) \/ Wraps(e, c, d) \/ Closes(e, c, d)
  PROVE  AgreeInv'
<1>1. Typed /\ IInv /\ OwnKeys(e, c, nonce) /\ nonce \in Nat
      BY DEF AgreeInv, Typed
<1>2. Took(e, d)
      BY <1>1, LaterTyped
<1>3. c.end = "no" /\ nonce' \in {nonce, nonce + 1}
      BY GetsFacts DEF Skips, MiddleTurn, Standing, Presents, SeesCertificate, Wraps, Closes, At
<1>4. nonce <= nonce'
      BY <1>1, <1>3
<1>5. ResumesShort(c)
      BY <1>1, <1>3, ShortWay
<1>6. OwnKeys(e, d, nonce) /\ Later(e, c, d) /\ Steady(c, d) /\ NoHello(c, d)
  <2>1. CASE e = "server" /\ Skips(c, d)
    <3>1. d.end = "no"
          BY <2>1 DEF Skips
    <3> QED
      BY <1>1, <2>1, <3>1, PresentsKeys
  <2>2. CASE MiddleTurn(e, c, d)
    <3>1. d.end = "no" \/ (d.end # "no" /\ d.end # "finished")
          BY <2>2 DEF MiddleTurn
    <3> QED
      BY <1>1, <1>5, <2>2, <3>1, MiddleKeys, EndsKeys
  <2>3. CASE Standing(e, c, d)
    <3>1. d.end = "no" \/ (d.end # "no" /\ d.end # "finished")
          BY <2>3 DEF Standing
    <3> QED
      BY <1>1, <2>3, <3>1, IdlesKeys, EndsKeys
  <2>4. CASE Presents(e, c, d)
    <3>1. d.end = "no" \/ (d.end # "no" /\ d.end # "finished")
          BY <1>3, <2>4 DEF Presents, Same, Fields
    <3> QED
      BY <1>1, <2>4, <3>1, PresentsKeys, EndsKeys
  <2>5. CASE SeesCertificate(e, c, d)
    BY <1>1, <2>5, SeesKeys
  <2>6. CASE Wraps(e, c, d)
    BY <1>1, <2>6, WrapsKeys
  <2>7. CASE Closes(e, c, d)
    BY <1>1, <2>7, ClosesKeys
  <2> QED
    BY <2>1, <2>2, <2>3, <2>4, <2>5, <2>6, <2>7
<1> QED
  BY <1>2, <1>3, <1>4, <1>6, AgreeSteady

\* The turns that change them, and the one that begins another handshake.
LEMMA AgreeTurned ==
  ASSUME NullIsNoKey, AgreeInv, Typed', IInv', NEW e \in End, NEW c, c = ctx[e], NEW d,
         SaysFinished(e, c, d) \/ HearsFinished(e, c, d) \/ Restarts(e, c, d)
  PROVE  AgreeInv'
<1>1. Typed /\ IInv /\ OwnKeys(e, c, nonce) /\ nonce \in Nat
      BY DEF AgreeInv, Typed
<1>2. Took(e, d)
      BY <1>1, LaterTyped
<1>3. c.end = "no" /\ nonce' = nonce /\ nonce <= nonce'
      BY <1>1, GetsFacts DEF SaysFinished, HearsFinished, Restarts, At
<1>4. HelloSecond(c)
      BY <1>1, <1>3, ShortWay
<1>5. CASE SaysFinished(e, c, d)
  <2>1. /\ OwnKeys(e, d, nonce') /\ Later(e, c, d) /\ NoHello(c, d)
        /\ d.tin = c.tin /\ d.peer = c.peer
        /\ d.tout # None /\ Rank(d.tout) \in Nat /\ After(c, Rank(d.tout))
        /\ d.out.key = d.tout /\ d.out.body.hash = d.own
        BY <1>1, <1>3, <1>4, <1>5, ToldKeys
  <2>2. Speaks(c, d) /\ Listens(e, c, d)
        BY <1>3, <2>1 DEF Speaks, Listens
  <2>3. Climbs(e, d)
        BY <1>2, <1>3, <2>1, ClimbsOn
  <2> QED
    BY <1>2, <1>3, <2>1, <2>2, <2>3, AgreeMoved
<1>6. CASE HearsFinished(e, c, d)
  <2>1. /\ OwnKeys(e, d, nonce') /\ Later(e, c, d) /\ Quiet(c, d) /\ NoHello(c, d)
        /\ Head(net[e]).key = d.tin /\ Head(net[e]).body.msg = "Finished"
        /\ d.end = "finished" \/ d.peer = Head(net[e]).body.hash
        BY <1>1, <1>3, <1>4, <1>6, HeardKeys
  <2>2. net[e] # <<>> /\ Consumes(e, d)
        BY <1>6, GetsFacts DEF HearsFinished
  <2>3. Speaks(c, d) /\ Listens(e, c, d)
        BY <2>1, <2>2 DEF Speaks, Listens
  <2>4. Climbs(e, d)
        BY <1>2, <1>3, <2>1, ClimbsOn
  <2> QED
    BY <1>2, <1>3, <2>1, <2>3, <2>4, AgreeMoved
<1>7. CASE e = "client" /\ Restarts(e, c, d)
  <2>1. OwnKeys(e, d, nonce) /\ Steady(c, d) /\ NoHello(c, d)
        BY <1>1, <1>7, RestartsKeys
  <2> QED
    BY <1>2, <1>3, <1>7, <2>1, AgreeSteady
<1>8. CASE e = "server" /\ Restarts(e, c, d)
  <2>1. net["server"] # <<>> /\ Incoming("server").msg = "ClientHello"
        BY <1>8 DEF Restarts
  <2>2. PICK x : x = Incoming("server").random
        OBVIOUS
  <2>3. /\ Beyond("server", c, x) /\ x < nonce /\ IsHello(Head(net["server"]))
        /\ x = Head(net["server"]).body.random
        BY <1>8, <2>1, <2>2, HelloIsNews DEF Incoming
  <2>4. OwnKeys(e, d, nonce) /\ Reads(e, c, x, d) /\ Steady(c, d)
        BY <1>1, <1>8, <2>2, <2>3, RestartsKeys
  <2>5. Consumes("server", d)
        BY <1>8 DEF Restarts
  <2>6. Climbs(e, d)
        BY <1>3, <1>8, <2>1, <2>3, <2>4, <2>5, ClimbsUp
  <2>7. Speaks(c, d) /\ Listens(e, c, d) /\ OwnKeys(e, d, nonce')
        BY <1>3, <2>4 DEF Steady, Speaks, Listens
  <2> QED
    BY <1>2, <1>3, <2>6, <2>7, AgreeMoved
<1> QED
  BY <1>5, <1>6, <1>7, <1>8 DEF End

\* A record leaves.
LEMMA AgreeFlushed ==
  ASSUME AgreeInv, Typed', IInv', NEW e \in End, NEW c, c = ctx[e], NEW d, Flushes(e, c, d)
  PROVE  AgreeInv'
<1>1. PICK f : f = Other(e)
      OBVIOUS
<1>2. /\ f \in End /\ f # e /\ Other(e) = f /\ Other(f) = e /\ \A g \in End : g = e \/ g = f
      BY <1>1, OtherEnd
<1>3. /\ DOMAIN ctx = End /\ DOMAIN net = End /\ nonce \in Nat
      /\ Sequence(net[e]) /\ Sequence(net[f])
      BY <1>2 DEF AgreeInv, Typed, RecordsOK
<1>4. /\ ctx'[e] = d /\ ctx'[f] = ctx[f] /\ net'[e] = net[e] /\ net'[f] = Append(net[f], c.out)
      /\ nonce' = nonce /\ c.out # None /\ d.out = None /\ Same(c, d, {"out"})
      BY <1>2, <1>3 DEF Flushes
<1>5. /\ d.tout = c.tout /\ d.own = c.own /\ d.tin = c.tin /\ d.peer = c.peer /\ d.end = c.end
      BY <1>4 DEF Same, Fields
<1>6. /\ OwnKeys(e, c, nonce) /\ OwnKeys(f, ctx[f], nonce)
      /\ Linked(c, ctx[f], net[f]) /\ Linked(ctx[f], c, net[e])
      BY <1>2 DEF AgreeInv
<1>7. OwnKeys(e, d, nonce) /\ Later(e, c, d)
      BY <1>4, <1>6, FlushKeys
<1>8. Linked(d, ctx[f], net'[f])
      BY <1>3, <1>4, <1>5, <1>6, FlushLinked
<1>9. Linked(ctx[f], d, net'[e])
      BY <1>3, <1>4, <1>5, <1>6, ReadLinked
<1>10. \A g \in End : OwnKeys(g, ctx'[g], nonce')
       BY <1>2, <1>4, <1>6, <1>7
<1>11. \A g \in End : Linked(ctx'[g], ctx'[Other(g)], net'[Other(g)])
       BY <1>2, <1>4, <1>8, <1>9
<1>12. Rising(ctx'["server"], ctx'["client"].out, net'["server"], nonce')
  <2>1. Rising(ctx["server"], ctx["client"].out, net["server"], nonce)
        BY DEF AgreeInv
  <2>2. CASE e = "client"
    <3>1. f = "server"
          BY <1>1, <2>2 DEF Other
    <3> QED
      BY <1>3, <1>4, <2>1, <2>2, <3>1, FlushRising
  <2>3. CASE e = "server"
    <3>1. f = "client"
          BY <1>1, <2>3 DEF Other
    <3>2. c = ctx["server"] /\ Sequence(net["server"]) /\ nonce <= nonce
          BY <1>3, <2>3
    <3>3. Rising(d, ctx["client"].out, net["server"], nonce)
          BY <1>3, <1>7, <2>1, <2>3, <3>2, LaterRising
    <3> QED
      BY <1>4, <2>3, <3>1, <3>3
  <2> QED
    BY <2>2, <2>3 DEF End
<1> QED
  BY <1>10, <1>11, <1>12 DEF AgreeInv

\* No keys, no records.
LEMMA EmptyKeys ==
  ASSUME NEW e, NEW c, c.tin = None, c.tout = None, c.own = None, c.peer = None,
         c.state = "HELLO_REQUEST", ~ c.reneg, NEW n \in Nat
  PROVE  OwnKeys(e, c, n)
<1>1. ~ InProgress(e, c) /\ KeysOK(e, c) /\ OverOK(e, c)
      BY DEF InProgress, Negotiating, Keyed, KeysOK, OverOK, HasTold, HasHeard
<1> QED
  BY <1>1 DEF OwnKeys, Beyond, After

\* Nothing has been written, and nothing read.
LEMMA EmptyLinked ==
  ASSUME NEW s, s.out = None, NEW r, r.tin = None, NEW n
  PROVE  Linked(s, r, <<>>) /\ Rising(r, None, <<>>, n)
  BY EmptySeq DEF Linked, Used, Rising

\* Every step keeps it.
LEMMA AgreeStep ==
  ASSUME NullIsNoKey, AgreeInv, [Next]_vars
  PROVE  AgreeInv'
<1>1. Typed /\ Typed' /\ IInv'
      BY TypedStep, NextIInv DEF AgreeInv
<1>2. CASE UNCHANGED vars \/ Tick
  <2>1. ctx' = ctx /\ net' = net /\ nonce' = nonce
        BY <1>2 DEF vars, Tick
  <2> QED
    BY <1>1, <2>1 DEF AgreeInv
<1>3. ASSUME NEW e \in End, NEW d, Moves(e, ctx[e], d)
      PROVE  AgreeInv'
  <2>1. PICK c : c = ctx[e]
        OBVIOUS
  <2>2. CASE Flushes(e, c, d)
    BY <1>1, <2>1, <2>2, AgreeFlushed
  <2>3. CASE \/ Starts(e, c, d)
             \/ e = "client" /\ (Offers(c, d) \/ \E h : TakesName(c, h, d))
             \/ e = "server" /\ (Names(c, d) \/ \E h : TakesOffer(c, h, d))
    BY <1>1, <2>1, <2>3, AgreeHellos
  <2>4. CASE \/ e = "server" /\ Skips(c, d)
             \/ MiddleTurn(e, c, d) \/ Standing(e, c, d) \/ Presents(e, c, d)
             \/ SeesCertificate(e, c, d) \/ Wraps(e, c, d) \/ Closes(e, c, d)
    BY <1>1, <2>1, <2>4, AgreeQuiet
  <2>5. CASE SaysFinished(e, c, d) \/ HearsFinished(e, c, d) \/ Restarts(e, c, d)
    BY <1>1, <2>1, <2>5, AgreeTurned
  <2> QED
    BY <1>3, <2>1, <2>2, <2>3, <2>4, <2>5 DEF Moves
<1>4. ASSUME NEW k \in Client, NEW d, NEW s, Opens(k, ctx["server"], d, s)
      PROVE  AgreeInv'
  <2>1. /\ ctx'["client"] = d /\ ctx'["server"] = s
        /\ net'["client"] = <<>> /\ net'["server"] = <<>>
        /\ Opened(d) /\ Opened(s) /\ nonce' \in Nat
        BY <1>1, <1>4 DEF Opens, End, Typed
  <2>2. OwnKeys("client", d, nonce') /\ OwnKeys("server", s, nonce')
        BY <2>1, EmptyKeys DEF Opened
  <2>3. /\ Linked(d, s, <<>>) /\ Linked(s, d, <<>>)
        /\ d.out = None /\ Rising(s, d.out, <<>>, nonce')
        BY <2>1, EmptyLinked DEF Opened
  <2>4. /\ \A e \in End : OwnKeys(e, ctx'[e], nonce')
        /\ \A e \in End : Linked(ctx'[e], ctx'[Other(e)], net'[Other(e)])
        /\ Rising(ctx'["server"], ctx'["client"].out, net'["server"], nonce')
        BY <2>1, <2>2, <2>3 DEF End, Other
  <2> QED
    BY <1>1, <2>4 DEF AgreeInv
<1> QED
  BY <1>2, <1>3, <1>4, <1>1, StepIs

\* It holds before the first connection.
LEMMA InitAgree == Init => AgreeInv
<1> SUFFICES ASSUME Init PROVE AgreeInv
  OBVIOUS
<1>1. PICK d : d = Fail(New, "closed")
      OBVIOUS
<1>2. Opened(New)
      BY NewIs
<1>3. Same(New, d, {"end"}) /\ d.end = "closed"
      BY <1>1, <1>2, FailIs DEF Opened
<1>4. /\ d.tin = None /\ d.tout = None /\ d.own = None /\ d.peer = None /\ d.out = None
      /\ d.state = "HELLO_REQUEST" /\ ~ d.reneg
      BY <1>2, <1>3 DEF Same, Fields, Opened
<1>5. \A e \in End : ctx[e] = d /\ net[e] = <<>>
      BY <1>1 DEF Init
<1>6. nonce \in Nat
      BY DEF Init
<1>7. \A e \in End : OwnKeys(e, d, nonce)
      BY <1>4, <1>6, EmptyKeys
<1>8. Linked(d, d, <<>>) /\ Rising(d, d.out, <<>>, nonce)
      BY <1>4, EmptyLinked
<1>9. Typed /\ IInv
      BY InitTyped, InitIInv
<1> QED
  BY <1>5, <1>7, <1>8, <1>9, OtherEnd DEF AgreeInv, End

\* When the handshake is over at both ends of a connection they have the same version and the
\* same session, and each reads under the keys the other writes under and has the verify data
\* the other has sent: after a full handshake, one that resumes a session and one that
\* renegotiates (ssl_parse_finished, ssl_handshake_wrapup), in however many connections and
\* whatever the cache holds.
THEOREM AgreementAlways ==
  ASSUME NullIsNoKey
  PROVE  Spec => []Agreement
<1>1. Init => AgreeInv
      BY InitAgree
<1>2. AgreeInv /\ [Next]_vars => AgreeInv'
      BY AgreeStep
<1>3. AgreeInv => Agreement
      BY AgreeInvAgrees
<1> QED
  BY <1>1, <1>2, <1>3, PTL DEF Spec

=============================================================================

---------------------------- MODULE HandshakeStep ----------------------------
(***************************************************************************)
(* Why the two ends of a connection never come out of step.  A view tells    *)
(* how far a reader has come in its peer's records, and what they hold so    *)
(* far; every record on its way, the one that is not flushed included, is a  *)
(* hop from a view to the next.  While both ends are alive, one of them has  *)
(* nothing to read but what it does not mind, and the other is on a way that *)
(* ends where the first one is.                                              *)
(***************************************************************************)
EXTENDS HandshakePeers

-----------------------------------------------------------------------------
(* In step: what is on its way to an end is what this end is about to read   *)

\* The states in which it is e's turn to write.
TurnsOf(e) ==
  IF e = "client"
  THEN {"CLIENT_CERTIFICATE", "CLIENT_KEY_EXCHANGE", "CERTIFICATE_VERIFY",
        "CLIENT_CHANGE_CIPHER_SPEC", "CLIENT_FINISHED"}
  ELSE {"SERVER_HELLO", "SERVER_CERTIFICATE", "SERVER_KEY_EXCHANGE", "CERTIFICATE_REQUEST",
        "SERVER_HELLO_DONE", "SERVER_CHANGE_CIPHER_SPEC", "SERVER_FINISHED"}

\* Those in which e waits for the first record of its peer's turn.
WaitsOf(e) ==
  IF e = "client" THEN {"SERVER_HELLO", "SERVER_CHANGE_CIPHER_SPEC"}
  ELSE {"CLIENT_CERTIFICATE", "CLIENT_KEY_EXCHANGE", "CLIENT_CHANGE_CIPHER_SPEC"}

Waking(c) == c.state \in {"HELLO_REQUEST", "CLIENT_HELLO"}

\* A server with a ClientHello in in_msg; an end that has not completed any handshake.
Called(e, c) == e = "server" /\ c.reneg /\ Waking(c)
Unmet(c) == ~ c.reneg /\ Waking(c)

Idle(e, c) == \/ c.state \in {"FLUSH_BUFFERS", "HANDSHAKE_WRAPUP", "HANDSHAKE_OVER"}
              \/ Waking(c) /\ ~ Called(e, c)
Writing(e, c) == c.state \in TurnsOf(e) \/ Called(e, c)
Reading(e, c) == c.state \in TurnsOf(Other(e))

\* What is on its way to e, with the record its peer has not flushed.
Queue(e) == IF ctx[Other(e)].out = None THEN net[e] ELSE Append(net[e], ctx[Other(e)].out)

\* How far a reader has come: between handshakes ("calm"), in its peer's turn ("flight")
\* or behind it ("done"); the key of the next record, and whether a Finished is due; what
\* a renegotiation names the reader's peer by; the transcript and what is secret.
View(mode, key, due, info, sum, dh, master) ==
  [mode |-> mode, key |-> key, due |-> due, info |-> info, sum |-> sum, dh |-> dh,
   master |-> master]
Calm(key, info) == View("calm", key, FALSE, info, <<>>, None, None)
Turned(key, sum, dh, master) == View("done", key, FALSE, <<>>, sum, dh, master)

SumOf(e, c) == IF Called(e, c) THEN <<c.msg>> ELSE c.sum
MasterOf(c) == IF c.state \in Keyed THEN c.neg.master ELSE None

Look(e, c, key, due, data) ==
  IF Idle(e, c) THEN Calm(key, IF Unmet(c) THEN <<>> ELSE <<data>>)
  ELSE View("flight", key, due, <<data>>, SumOf(e, c), c.dh, MasterOf(c))

\* Where e is as a reader, ...
Sees(e, c) ==
  IF c.state = "SERVER_HELLO_DONE" /\ c.msg.msg = "ServerHelloDone"
  THEN Turned(c.tin, c.sum, c.dh, MasterOf(c))
  ELSE Look(e, c, c.tin, c.state = FinishedState(Other(e)), c.peer)

\* ... and where the reader of all that e has written is.
Tells(e, c) ==
  IF Reading(e, c) THEN Turned(c.tout, c.sum, c.dh, MasterOf(c))
  ELSE Look(e, c, c.tout, c.state = FinishedState(e), c.own)

KeyOf(v) == KeysOf(v.master, v.sum[1].random, v.sum[2].random, v.sum[2].suite, v.sum[2].minor)
Resumed(s) == s[2].id = s[1].id

Harmless(m) == m.msg \in {"Data", "Fatal", "NoRenegotiation"}

IdsOf(known) == {None} \cup {o.id : o \in known}

\* A ServerHello that answers the ClientHello in v.
Answers(known, v, m, master) ==
  /\ Len(v.sum) = 1 /\ m.id # None
  /\ v.sum[1].info # <<>> => m.info = <<v.sum[1].info[1], v.info[1]>>
  /\ IF m.id = v.sum[1].id
     THEN \E o \in known : o.id = m.id /\ o.suite = m.suite /\ o.master = master
     ELSE master = None

\* The signed half of a key exchange.
Signs(cert, v, m) ==
  /\ v.sum[2].suite \in DHE /\ v.dh = None /\ m.dh # None
  /\ m.by = cert["server"] /\ m.signed = <<v.sum[1].random, v.sum[2].random, m.dh>>

\* The master secret of the client's half.
Seals(cert, v, m, master) ==
  \E secret :
    /\ IF v.sum[2].suite \in DHE THEN secret = <<v.dh, m.half>>
       ELSE m.sealed # None /\ m.sealed[1] = cert["server"] /\ m.sealed[2] = secret
            /\ secret[1] = v.sum[1].max
    /\ master = PRF(secret, "master", <<v.sum[1].random, v.sum[2].random>>)

\* Message m may be next at v, and leaves these secrets.
Continues(known, cert, e, v, m, dh, master) ==
  \/ m.msg = "ServerHello" /\ e = "client" /\ Answers(known, v, m, master) /\ dh = v.dh
  \/ m.msg = "ServerKeyExchange" /\ e = "client" /\ Signs(cert, v, m) /\ dh = m.dh
       /\ master = v.master
  \/ m.msg = "ClientKeyExchange" /\ e = "server" /\ Seals(cert, v, m, master) /\ dh = v.dh
  \/ /\ dh = v.dh /\ master = v.master
     /\ \/ m.msg = "Certificate" /\ m.cert = cert[Other(e)] /\ (e = "client" => m.cert # None)
        \/ m.msg = "NoCertificate" /\ e = "server"
        \/ m.msg = "CertificateRequest" /\ e = "client"
        \/ m.msg = "CertificateVerify" /\ e = "server" /\ m.signed = v.sum
             /\ m.by = cert["client"]

\* A Finished ends the turn, or the handshake.
Ending(e, v, r, hash) ==
  IF (e = "client") = Resumed(v.sum) THEN Turned(r.key, With(v.sum, r.body), v.dh, v.master)
  ELSE Calm(r.key, <<hash>>)

HarmlessHop(v, r, u) == Harmless(r.body) /\ r.key = v.key /\ ~ v.due /\ u = v
HelloHop(known, e, v, r, u) ==
  /\ e = "server" /\ v.mode = "calm" /\ r.key = v.key /\ r.body.msg = "ClientHello"
  /\ r.body.info = v.info /\ r.body.id \in IdsOf(known)
  /\ u = Turned(v.key, <<r.body>>, None, None)
MessageHop(known, cert, e, v, r, u) ==
  /\ v.mode = "flight" /\ ~ v.due /\ r.key = v.key
  /\ \/ r.body.msg = "ServerHelloDone" /\ e = "client"
          /\ u = Turned(v.key, With(v.sum, r.body), v.dh, v.master)
     \/ r.body.msg = "ChangeCipherSpec"
          /\ u = View("flight", v.key, TRUE, v.info, v.sum, v.dh, v.master)
     \/ \E dh, master :
          /\ Continues(known, cert, e, v, r.body, dh, master)
          /\ u = View("flight", v.key, FALSE, v.info, With(v.sum, r.body), dh, master)
FinishedHop(e, v, r, u) ==
  /\ v.mode = "flight" /\ v.due /\ r.body.msg = "Finished" /\ r.key = <<Other(e), KeyOf(v)>>
  /\ r.body.hash = PRF(v.master, Other(e), v.sum)
  /\ u = Ending(e, v, r, r.body.hash)

\* Record r brings e's reader from v to u.
Hop(known, cert, e, v, r, u) ==
  \/ HarmlessHop(v, r, u) \/ HelloHop(known, e, v, r, u)
  \/ MessageHop(known, cert, e, v, r, u) \/ FinishedHop(e, v, r, u)

\* Calm a client stays until it writes, and a server until it reads a ClientHello.
Stays(e, v, u) ==
  /\ v.mode = "done" => u = v
  /\ v.mode = "calm" => u = v \/ (e = "server" /\ u.mode = "done")

Trail(known, cert, e, a, q, b, P) ==
  /\ P[1] = a /\ P[Len(q) + 1] = b
  /\ \A i \in 1..Len(q) : Hop(known, cert, e, P[i], q[i], P[i + 1])
  /\ \A i, j \in 1..(Len(q) + 1) : i <= j => Stays(e, P[i], P[j])

\* The records of q bring e's reader from a to b.
Way(known, cert, e, a, q, b) == \E P : Trail(known, cert, e, a, q, b, P)

Idling(q, key) == \A i \in 1..Len(q) : q[i].key = key /\ Harmless(q[i].body)

\* The fields of a view.
LEMMA ViewIs ==
  ASSUME NEW mode, NEW key, NEW due, NEW info, NEW sum, NEW dh, NEW master, NEW v,
         v = View(mode, key, due, info, sum, dh, master)
  PROVE  /\ v.mode = mode /\ v.key = key /\ v.due = due /\ v.info = info /\ v.sum = sum
         /\ v.dh = dh /\ v.master = master
  BY DEF View

\* What a hop leaves of calm, and of a turn that is done.
LEMMA HopStays ==
  ASSUME NEW known, NEW cert, NEW e \in End, NEW v, NEW r, NEW u, Hop(known, cert, e, v, r, u)
  PROVE  /\ Stays(e, v, u)
         /\ v.mode \in {"done", "calm"} /\ u = v => r.key = v.key /\ Harmless(r.body)
<1>1. HelloHop(known, e, v, r, u) => u.mode = "done" /\ e = "server" /\ v.mode = "calm"
      BY DEF HelloHop, Turned, View
<1>2. \/ HarmlessHop(v, r, u) \/ HelloHop(known, e, v, r, u) \/ v.mode = "flight"
      BY DEF Hop, MessageHop, FinishedHop
<1> QED
  BY <1>1, <1>2 DEF Stays, HarmlessHop

\* Calm, or not, for as long as one likes.
LEMMA StaysOn ==
  ASSUME NEW e, NEW v, NEW w, NEW u, Stays(e, v, w), Stays(e, w, u)
  PROVE  Stays(e, v, u)
  BY DEF Stays

\* A view stays what it is.
LEMMA StaysPut == \A e, v : Stays(e, v, v)
  BY DEF Stays

\* No record, no way.
LEMMA WayEmpty ==
  ASSUME NEW known, NEW cert, NEW e, NEW a, NEW q, q = <<>>
  PROVE  Way(known, cert, e, a, q, a)
<1>1. PICK P : P = [i \in {1} |-> a]
      OBVIOUS
<1>2. Len(q) = 0
      OBVIOUS
<1> QED
  BY <1>1, <1>2, StaysPut DEF Way, Trail

\* Harmless records change nothing.
LEMMA WayIdle ==
  ASSUME NEW known, NEW cert, NEW e, NEW a, ~ a.due, NEW q, Idling(q, a.key)
  PROVE  Way(known, cert, e, a, q, a)
<1>1. PICK P : P = [i \in 1..(Len(q) + 1) |-> a]
      OBVIOUS
<1> QED
  <2>1. ASSUME NEW i \in 1..Len(q)
        PROVE  Hop(known, cert, e, a, q[i], a)
        BY <2>1 DEF Idling, Hop, HarmlessHop
  <2> QED
    BY <1>1, <2>1, StaysPut DEF Way, Trail

\* The first record of a way, and the rest.
LEMMA WayTail ==
  ASSUME NEW known, NEW cert, NEW e \in End, NEW a, NEW b, NEW q, Sequence(q), q # <<>>,
         Way(known, cert, e, a, q, b)
  PROVE  \E u : Hop(known, cert, e, a, q[1], u) /\ Way(known, cert, e, u, Tail(q), b)
<1>1. PICK P : Trail(known, cert, e, a, q, b, P)
      BY DEF Way
<1>2. /\ Len(q) \in Nat /\ Len(q) >= 1 /\ Len(Tail(q)) = Len(q) - 1
      /\ \A i \in 1..Len(Tail(q)) : Tail(q)[i] = q[i + 1]
  <2>1. PICK S : q \in Seq(S)
        BY DEF Sequence
  <2> QED
    BY <2>1, HeadTailProperties, LenProperties, TailOf, HeadOf
<1>3. PICK n : n = Len(q)
      OBVIOUS
<1>4. PICK R : R = [i \in 1..n |-> P[i + 1]]
      OBVIOUS
<1>5. Hop(known, cert, e, P[1], q[1], P[1 + 1]) /\ P[1] = a
      BY <1>1, <1>2 DEF Trail
<1>6. /\ R[1] = P[2] /\ R[Len(Tail(q)) + 1] = b
      BY <1>1, <1>2, <1>3, <1>4 DEF Trail
<1>7. ASSUME NEW i \in 1..Len(Tail(q))
      PROVE  Hop(known, cert, e, R[i], Tail(q)[i], R[i + 1])
  <2>1. i + 1 \in 1..Len(q) /\ i \in 1..n /\ i + 1 \in 1..n
        BY <1>2, <1>3, <1>7
  <2>2. Hop(known, cert, e, P[i + 1], q[i + 1], P[(i + 1) + 1])
        BY <1>1, <2>1 DEF Trail
  <2> QED
    BY <1>2, <1>4, <1>7, <2>1, <2>2
<1>8. ASSUME NEW i \in 1..(Len(Tail(q)) + 1), NEW j \in 1..(Len(Tail(q)) + 1), i <= j
      PROVE  Stays(e, R[i], R[j])
  <2>1. i + 1 \in 1..(Len(q) + 1) /\ j + 1 \in 1..(Len(q) + 1) /\ i + 1 <= j + 1
        BY <1>2, <1>8
  <2>2. Stays(e, P[i + 1], P[j + 1])
        BY <1>1, <2>1 DEF Trail
  <2>3. i \in 1..n /\ j \in 1..n
        BY <1>2, <1>3
  <2> QED
    BY <1>4, <2>2, <2>3
<1> QED
  BY <1>5, <1>6, <1>7, <1>8 DEF Way, Trail

\* One record more.
LEMMA WayAppend ==
  ASSUME NEW known, NEW cert, NEW e \in End, NEW a, NEW b, NEW q, Sequence(q),
         Way(known, cert, e, a, q, b), NEW r, NEW u, Hop(known, cert, e, b, r, u)
  PROVE  Way(known, cert, e, a, Append(q, r), u)
<1>1. PICK P : Trail(known, cert, e, a, q, b, P)
      BY DEF Way
<1>2. PICK n : n = Len(q)
      OBVIOUS
<1>3. /\ n \in Nat /\ Len(Append(q, r)) = n + 1 /\ Append(q, r)[n + 1] = r
      /\ \A i \in 1..n : Append(q, r)[i] = q[i]
      BY <1>2, AppendTo
<1>4. PICK R : R = [i \in 1..(n + 2) |-> IF i = n + 2 THEN u ELSE P[i]]
      OBVIOUS
<1>5. R[n + 2] = u /\ \A i \in 1..(n + 1) : R[i] = P[i]
      BY <1>3, <1>4
<1>6. R[1] = a /\ R[n + 1] = b
      BY <1>1, <1>2, <1>3, <1>5 DEF Trail
<1>7. ASSUME NEW i \in 1..(n + 1)
      PROVE  Hop(known, cert, e, R[i], Append(q, r)[i], R[i + 1])
  <2>1. CASE i \in 1..n
    <3>1. Hop(known, cert, e, P[i], q[i], P[i + 1])
          BY <1>1, <1>2, <2>1 DEF Trail
    <3> QED
      BY <1>3, <1>5, <2>1, <3>1
  <2>2. CASE i = n + 1
    <3>1. R[i + 1] = u /\ R[i] = b /\ Append(q, r)[i] = r
          BY <1>3, <1>5, <1>6, <2>2
    <3> QED
      BY <3>1
  <2> QED
    BY <1>3, <2>1, <2>2
<1>8. ASSUME NEW i \in 1..(n + 2), NEW j \in 1..(n + 2), i <= j
      PROVE  Stays(e, R[i], R[j])
  <2>1. CASE j \in 1..(n + 1)
    <3>1. i \in 1..(n + 1)
          BY <1>3, <1>8, <2>1
    <3>2. Stays(e, P[i], P[j])
          BY <1>1, <1>2, <1>8, <2>1, <3>1 DEF Trail
    <3> QED
      BY <1>5, <2>1, <3>1, <3>2
  <2>2. CASE j = n + 2 /\ i \in 1..(n + 1)
    <3>1. n + 1 \in 1..(n + 1) /\ i <= n + 1
          BY <1>3, <2>2
    <3>2. Stays(e, P[i], P[n + 1])
          BY <1>1, <1>2, <2>2, <3>1 DEF Trail
    <3>3. Stays(e, b, u)
          BY HopStays
    <3> QED
      BY <1>5, <1>6, <2>2, <3>1, <3>2, <3>3, StaysOn
  <2>3. CASE j = n + 2 /\ i = n + 2
    BY <2>3, StaysPut
  <2> QED
    BY <1>3, <2>1, <2>2, <2>3
<1> QED
  <2>1. Len(Append(q, r)) + 1 = n + 2
        BY <1>3
  <2>2. Trail(known, cert, e, a, Append(q, r), u, R)
        BY <1>3, <1>5, <1>6, <1>7, <1>8, <2>1 DEF Trail
  <2> QED
    BY <2>2 DEF Way

\* A way that stays where it is holds nothing but harmless records.
LEMMA WayPut ==
  ASSUME NEW known, NEW cert, NEW e \in End, NEW a, NEW q, Sequence(q), NEW b, NEW P,
         a.mode \in {"done", "calm"}, Trail(known, cert, e, a, q, b, P),
         \A i \in 1..(Len(q) + 1) : P[i] = a
  PROVE  b = a /\ Idling(q, a.key)
<1>2. Len(q) \in Nat
      BY AppendTo
<1>3. b = a /\ \A i \in 1..Len(q) : Hop(known, cert, e, P[i], q[i], P[i + 1])
      BY <1>2 DEF Trail
<1>1. ASSUME NEW i \in 1..Len(q)
      PROVE  q[i].key = a.key /\ Harmless(q[i].body)
  <2>1. i \in 1..(Len(q) + 1) /\ i + 1 \in 1..(Len(q) + 1)
        BY <1>1, <1>2
  <2>2. Hop(known, cert, e, a, q[i], a)
        BY <1>1, <1>3, <2>1
  <2> QED
    BY <2>2, HopStays
<1> QED
  BY <1>1, <1>3 DEF Idling

\* Behind the peer's turn nothing happens.
LEMMA WayDone ==
  ASSUME NEW known, NEW cert, NEW e \in End, NEW a, a.mode = "done", NEW b, NEW q,
         Sequence(q), Way(known, cert, e, a, q, b)
  PROVE  b = a /\ Idling(q, a.key)
<1>1. PICK P : Trail(known, cert, e, a, q, b, P)
      BY DEF Way
<1>2. Len(q) \in Nat
      BY AppendTo
<1>3. \A i \in 1..(Len(q) + 1) : P[i] = a
  <2> TAKE i \in 1..(Len(q) + 1)
  <2>1. 1 \in 1..(Len(q) + 1) /\ 1 <= i
        BY <1>2
  <2>2. Stays(e, P[1], P[i]) /\ P[1] = a
        BY <1>1, <2>1 DEF Trail
  <2> QED
    BY <2>2 DEF Stays
<1> QED
  BY <1>1, <1>3, WayPut

\* Nor while both are between handshakes; and a client is until it writes.
LEMMA WayCalm ==
  ASSUME NEW known, NEW cert, NEW e \in End, NEW a, a.mode = "calm", NEW b, NEW q,
         Sequence(q), Way(known, cert, e, a, q, b), e = "client" \/ b.mode = "calm"
  PROVE  b = a /\ Idling(q, a.key)
<1>1. PICK P : Trail(known, cert, e, a, q, b, P)
      BY DEF Way
<1>2. Len(q) \in Nat
      BY AppendTo
<1>3. \A i \in 1..(Len(q) + 1) : P[i] = a
  <2> TAKE i \in 1..(Len(q) + 1)
  <2>1. /\ 1 \in 1..(Len(q) + 1) /\ 1 <= i /\ i <= Len(q) + 1
        /\ Len(q) + 1 \in 1..(Len(q) + 1)
        BY <1>2
  <2>2. Stays(e, P[1], P[i]) /\ P[1] = a /\ Stays(e, P[i], P[Len(q) + 1]) /\ P[Len(q) + 1] = b
        BY <1>1, <2>1 DEF Trail
  <2>3. P[i] = a \/ (e = "server" /\ P[i].mode = "done" /\ b = P[i])
        BY <2>2 DEF Stays
  <2> QED
    BY <2>3
<1> QED
  BY <1>1, <1>3, WayPut

\* What has been negotiated stays so.
LEMMA HopLater ==
  ASSUME NEW known, NEW more, known \subseteq more, NEW cert, NEW e, NEW v, NEW r, NEW u,
         Hop(known, cert, e, v, r, u)
  PROVE  Hop(more, cert, e, v, r, u)
<1>1. HelloHop(known, e, v, r, u) => HelloHop(more, e, v, r, u)
      BY DEF HelloHop, IdsOf
<1>2. \A m, dh, master : Continues(known, cert, e, v, m, dh, master)
                         => Continues(more, cert, e, v, m, dh, master)
      BY DEF Continues, Answers
<1>3. MessageHop(known, cert, e, v, r, u) => MessageHop(more, cert, e, v, r, u)
      BY <1>2, Zenon DEF MessageHop
<1> QED
  BY <1>1, <1>3 DEF Hop

\* And so does a way.
LEMMA WayLater ==
  ASSUME NEW known, NEW more, known \subseteq more, NEW cert, NEW e, NEW a, NEW q, NEW b,
         Way(known, cert, e, a, q, b)
  PROVE  Way(more, cert, e, a, q, b)
<1>1. PICK P : Trail(known, cert, e, a, q, b, P)
      BY DEF Way
<1>2. Trail(more, cert, e, a, q, b, P)
      BY <1>1, HopLater DEF Trail
<1> QED
  BY <1>2 DEF Way

-----------------------------------------------------------------------------
(* What an end's transcript tells of the rest of its context                 *)

\* A NULL pointer is no session, no number, no pair and no record.
NullIsNull == /\ NullIsNothing
              /\ \A x, y : <<x, y>> # None
              /\ \A key, body : [key |-> key, body |-> body] # None

Certs == [e \in End |-> Own(e)]

\* Every session the server has negotiated has an id of its own.
Identified ==
  /\ \A o \in origin : o.id \in Nat /\ o.id < nonce
  /\ \A o, p \in origin : o.id = p.id => o.suite = p.suite /\ o.master = p.master

\* Before the ClientHello.
Ready(e, c) ==
  Waking(c) =>
    /\ c.dh = None
    /\ e = "client" /\ c.resume => ~ c.reneg /\ Negotiated(c.neg)
    /\ e = "server" => c.neg.peer = None
    /\ Called(e, c) => c.msg.info = <<c.peer>> /\ c.msg.id \in IdsOf(origin)

\* Between the hellos.
Greets(e, c) ==
  c.state = "SERVER_HELLO" =>
    /\ c.sum[1].random = c.rc /\ c.sum[1].max = c.max /\ c.dh = None
    /\ c.sum[1].id \in IdsOf(origin)
    /\ c.sum[1].info = IF c.reneg THEN <<IF e = "client" THEN c.own ELSE c.peer>> ELSE <<>>
    /\ e = "client" => /\ c.sum[1].id = IF c.reneg \/ ~ c.resume THEN None ELSE c.neg.id
                       /\ c.resume /\ ~ c.reneg => Negotiated(c.neg)
    /\ e = "server" => c.neg.id = c.sum[1].id /\ c.neg.peer = None

\* The states behind the hellos, and those in which a client has the server's certificate
\* and needs it.
Turns == (TurnsOf("client") \cup TurnsOf("server")) \ {"SERVER_HELLO"}
Informed == {"SERVER_KEY_EXCHANGE", "CERTIFICATE_REQUEST", "SERVER_HELLO_DONE",
             "CLIENT_CERTIFICATE", "CLIENT_KEY_EXCHANGE"}

\* The keys, or what they will be made from.
KeysMatch(c) ==
  IF c.state \in Keyed
  THEN c.tneg = KeysOf(c.neg.master, c.sum[1].random, c.sum[2].random, c.sum[2].suite,
                       c.sum[2].minor)
  ELSE c.rc = c.sum[1].random /\ c.rs = c.sum[2].random

\* The certificate of the peer, as far as it has presented one.
PeerMatches(e, c) ==
  /\ e = "client" /\ c.state \in Informed => c.neg.peer = Own("server")
  /\ e = "server" /\ c.state \in Informed \cup {"SERVER_CERTIFICATE", "CERTIFICATE_VERIFY"}
       => c.neg.peer \in {None, Own("client")}

\* The server's half of DHE, as far as it is known.
HalfMatches(e, c) ==
  /\ c.state \in {"SERVER_CERTIFICATE", "SERVER_KEY_EXCHANGE"} => c.dh = None
  /\ e = "client" /\ c.state = "CERTIFICATE_REQUEST" /\ c.sum[2].suite \in DHE => c.dh # None

\* Behind the hellos.
Matching(e, c) ==
  c.state \in Turns =>
    /\ c.resume <=> Resumed(c.sum)
    /\ c.sum[1].max = c.max /\ c.sum[2].minor = c.minor
    /\ KeysMatch(c) /\ PeerMatches(e, c) /\ HalfMatches(e, c)
    /\ e = "server" /\ ~ c.resume =>
         c.neg.id \in Nat /\ c.neg.id < nonce /\ c.neg.id \notin IdsOf(origin)

\* Without keys there are no verify data.
Blank(c) == (c.tin = None => c.peer = None) /\ (c.tout = None => c.own = None)

Touch(e, c) == Ready(e, c) /\ Greets(e, c) /\ Matching(e, c) /\ Blank(c)

-----------------------------------------------------------------------------
(* The views of an end, state by state                                       *)

\* Whose turn it is, in words.
LEMMA TurnsApart ==
  ASSUME NEW e \in End, NEW c
  PROVE  /\ c.state \in TurnsOf(e) => Writing(e, c) /\ ~ Reading(e, c) /\ ~ Idle(e, c) /\ ~ Called(e, c)
         /\ Reading(e, c) => ~ Writing(e, c) /\ ~ Idle(e, c) /\ ~ Called(e, c)
         /\ Idle(e, c) => ~ Writing(e, c) /\ ~ Reading(e, c)
         /\ Called(e, c) => Writing(e, c) /\ ~ Reading(e, c) /\ ~ Idle(e, c)
         /\ c.state \in Named => Writing(e, c) \/ Reading(e, c) \/ Idle(e, c)
         /\ c.state \in Named /\ Writing(e, c) => c.state \in TurnsOf(e) \/ Called(e, c)
<1>1. CASE e = "client"
      BY <1>1 DEF TurnsOf, Writing, Reading, Idle, Called, Waking, Other, Named, Underway
<1>2. CASE e = "server"
      BY <1>2 DEF TurnsOf, Writing, Reading, Idle, Called, Waking, Other, Named, Underway
<1> QED
  BY <1>1, <1>2 DEF End

\* An end in its turn: what its peer will see.
LEMMA WriterTells ==
  ASSUME NEW e \in End, NEW c, c.state \in TurnsOf(e)
  PROVE  Tells(e, c) = View("flight", c.tout, c.state = FinishedState(e), <<c.own>>, c.sum, c.dh,
                            MasterOf(c))
  BY TurnsApart DEF Tells, Look, SumOf

\* A server that is about to answer a ClientHello.
LEMMA CalledTells ==
  ASSUME NEW e \in End, NEW c, Called(e, c)
  PROVE  Tells(e, c) = View("flight", c.tout, FALSE, <<c.own>>, <<c.msg>>, c.dh, None)
<1>1. c.state # FinishedState(e) /\ MasterOf(c) = None
      BY DEF Called, Waking, FinishedState, MasterOf, Keyed
<1> QED
  BY <1>1, TurnsApart DEF Tells, Look, SumOf

\* An end in its peer's turn.
LEMMA ReaderViews ==
  ASSUME NEW e \in End, NEW c, Reading(e, c)
  PROVE  /\ Tells(e, c) = Turned(c.tout, c.sum, c.dh, MasterOf(c))
         /\ IF c.state = "SERVER_HELLO_DONE" /\ c.msg.msg = "ServerHelloDone"
            THEN Sees(e, c) = Turned(c.tin, c.sum, c.dh, MasterOf(c))
            ELSE Sees(e, c) = View("flight", c.tin, c.state = FinishedState(Other(e)), <<c.peer>>,
                                   c.sum, c.dh, MasterOf(c))
  BY TurnsApart DEF Tells, Sees, Look, SumOf

\* An end between handshakes.
LEMMA IdleViews ==
  ASSUME NEW e \in End, NEW c, Idle(e, c)
  PROVE  /\ Tells(e, c) = Calm(c.tout, IF Unmet(c) THEN <<>> ELSE <<c.own>>)
         /\ Sees(e, c) = Calm(c.tin, IF Unmet(c) THEN <<>> ELSE <<c.peer>>)
<1>1. c.state # "SERVER_HELLO_DONE"
      BY DEF Idle, Waking
<1> QED
  BY <1>1, TurnsApart DEF Tells, Sees, Look

\* The modes of the views.
LEMMA Modes ==
  ASSUME NEW e \in End, NEW c, c.state \in Named
  PROVE  /\ Writing(e, c) <=> Tells(e, c).mode = "flight"
         /\ Reading(e, c) <=> Tells(e, c).mode = "done"
         /\ Idle(e, c) <=> Tells(e, c).mode = "calm"
         /\ Idle(e, c) => Sees(e, c).mode = "calm"
         /\ Reading(e, c) => Sees(e, c).mode \in {"flight", "done"}
<1>1. c.state \in TurnsOf(e) => Tells(e, c).mode = "flight"
      BY WriterTells DEF View
<1>2. Called(e, c) => Tells(e, c).mode = "flight"
      BY CalledTells DEF View
<1>3. Reading(e, c) => Tells(e, c).mode = "done" /\ Sees(e, c).mode \in {"flight", "done"}
      BY ReaderViews DEF View, Turned
<1>4. Idle(e, c) => Tells(e, c).mode = "calm" /\ Sees(e, c).mode = "calm"
      BY IdleViews DEF View, Calm
<1> QED
  BY <1>1, <1>2, <1>3, <1>4, TurnsApart

\* A view, field by field.
LEMMA ViewsDiffer ==
  ASSUME NEW m1, NEW k1, NEW d1, NEW i1, NEW s1, NEW h1, NEW z1,
         NEW m2, NEW k2, NEW d2, NEW i2, NEW s2, NEW h2, NEW z2,
         View(m1, k1, d1, i1, s1, h1, z1) = View(m2, k2, d2, i2, s2, h2, z2)
  PROVE  m1 = m2 /\ k1 = k2 /\ d1 = d2 /\ i1 = i2 /\ s1 = s2 /\ h1 = h2 /\ z1 = z2
<1>1. PICK v : v = View(m1, k1, d1, i1, s1, h1, z1)
      OBVIOUS
<1> QED
  BY <1>1, ViewIs

\* What the transcript keeps.
LEMMA WithKeeps ==
  ASSUME NEW s, Sequence(s), NEW m
  PROVE  /\ Sequence(With(s, m)) /\ Len(With(s, m)) >= Len(s)
         /\ Len(s) >= 1 => With(s, m)[1] = s[1]
         /\ Len(s) >= 2 => With(s, m)[2] = s[2]
<1>1. Len(s) \in Nat /\ Len(Append(s, m)) = Len(s) + 1
      BY AppendTo
<1>2. \A i \in 1..Len(s) : Append(s, m)[i] = s[i]
      BY AppendTo
<1> QED
  BY <1>1, <1>2, AppendTo DEF With

-----------------------------------------------------------------------------
(* What the turns that write and those that read leave, field by field       *)

\* e goes on, and only the state and the fields in F change.
Passes(e, c, d, F) == Becomes(e, d) /\ Same(c, d, {"state"} \cup F) /\ d.state = Following(c.state)

\* e says m.
Utters(e, c, d, m, F) ==
  /\ Becomes(e, d) /\ Same(c, d, {"state", "sum", "out"} \cup F) /\ d.state = Following(c.state)
  /\ d.sum = With(c.sum, m) /\ d.out = [key |-> c.tout, body |-> m]

\* e reads m.
Heeds(e, c, d, m, F) ==
  /\ net[e] # <<>> /\ m = Incoming(e) /\ Consumes(e, d)
  /\ Same(c, d, {"state", "sum", "msg"} \cup F) /\ d.state = Following(c.state)
  /\ d.sum = With(c.sum, m) /\ d.msg = m

\* e leaves the connection, and may send an alert.
Leaves(e, c, d, why) ==
  /\ Took(e, d) /\ d.end = why
  /\ d.out = c.out \/ d.out = [key |-> c.tout, body |-> [msg |-> "Fatal"]]

\* The state moves on and a message goes out, ...
LEMMA SaidIs ==
  ASSUME NEW c, Context(c), NEW m, NEW d, d = Sent(Advance(c), m)
  PROVE  /\ Same(c, d, {"state", "sum", "out"}) /\ d.state = Following(c.state)
         /\ d.sum = With(c.sum, m) /\ d.out = [key |-> c.tout, body |-> m]
<1>1. PICK b : b = Advance(c)
      OBVIOUS
<1>2. Same(c, b, {"state"}) /\ b.state = Following(c.state) /\ Context(b)
      BY <1>1, AdvanceIs DEF Same
<1>3. /\ Same(b, d, {"sum", "out"})
      /\ d.out = [key |-> b.tout, body |-> m] /\ d.sum = With(b.sum, m)
      BY <1>1, <1>2, SentIs
<1>4. b.tout = c.tout /\ b.sum = c.sum
      BY <1>2 DEF Same, Fields
<1> QED
  BY <1>2, <1>3, <1>4 DEF Same, Fields

\* ... or one comes in.
LEMMA HeededIs ==
  ASSUME NEW c, Context(c), c.state # "HANDSHAKE_OVER", NEW m, NEW d, d = Advance(Received(c, m))
  PROVE  /\ Same(c, d, {"state", "sum", "msg"}) /\ d.state = Following(c.state)
         /\ d.sum = With(c.sum, m) /\ d.msg = m
<1>1. PICK b : b = Received(c, m)
      OBVIOUS
<1>2. /\ Same(c, b, {"sum", "msg"}) /\ b.msg = m /\ b.sum = With(c.sum, m) /\ Context(b)
      BY <1>1, ReceivedIs DEF Same
<1>3. Same(b, d, {"state"}) /\ d.state = Following(b.state)
      BY <1>1, <1>2, AdvanceIs
<1>4. b.state = c.state
      BY <1>2 DEF Same, Fields
<1> QED
  BY <1>2, <1>3, <1>4 DEF Same, Fields

\* A field more.
LEMMA FieldIs ==
  ASSUME NEW c, NEW b, NEW F, Same(c, b, F), NEW f \in Fields \ {"neg"}, NEW v, NEW d,
         d = [b EXCEPT ![f] = v]
  PROVE  Same(c, d, F \cup {f}) /\ d[f] = v /\ \A g \in Fields \ {f} : d[g] = b[g]
<1>1. DOMAIN b = Fields /\ DOMAIN d = Fields /\ d[f] = v /\ \A g \in Fields \ {f} : d[g] = b[g]
      BY DEF Same, Context
<1>2. "neg" \in Fields \ {f}
      BY DEF Fields
<1>3. d.neg = b.neg
      BY <1>1, <1>2
<1> QED
  BY <1>1, <1>3 DEF Same, Context

\* A failure behind all that.
LEMMA FailedIs ==
  ASSUME NEW e, NEW c, NEW b, Context(b), b.out = c.out, NEW why, NEW d, d = Fail(b, why), Took(e, d)
  PROVE  Leaves(e, c, d, why)
<1>1. Same(b, d, {"end"}) /\ d.end = why
      BY FailIs
<1> QED
  BY <1>1 DEF Same, Leaves, Fields

\* ssl_write_certificate.
LEMMA CertificateWritten ==
  ASSUME Typed, NEW e \in End, WriteCertificate(e), NEW c, c = ctx[e]
  PROVE  \E d : \/ e = "client" /\ Passes(e, c, d, {})
                \/ Leaves(e, c, d, "nocert")
                \/ \E m : /\ Utters(e, c, d, m, {})
                          /\ \/ /\ m.msg = "Certificate" /\ m.cert = Own(e)
                                /\ e = "server" => m.cert # None
                             \/ m.msg = "NoCertificate" /\ e = "client"
<1>1. Context(c)
      BY TypedAt
<1>2. PICK m : m = IF e = "client" /\ Own(e) = None /\ c.minor = 0 THEN [msg |-> "NoCertificate"]
                   ELSE [msg |-> "Certificate", cert |-> Own(e)]
      OBVIOUS
<1>3. PICK d : /\ Becomes(e, d)
               /\ \/ e = "client" /\ d = Advance(c)
                  \/ e = "server" /\ Own(e) = None /\ d = Fail(c, "nocert")
                  \/ ~ (e = "server" /\ Own(e) = None) /\ d = Sent(Advance(c), m)
      BY <1>2 DEF WriteCertificate, CertificateState
<1>4. CASE e = "client" /\ d = Advance(c)
      BY <1>1, <1>3, <1>4, AdvanceIs DEF Passes
<1>5. CASE d = Fail(c, "nocert")
      BY <1>1, <1>3, <1>5, FailedIs DEF Took
<1>6. CASE ~ (e = "server" /\ Own(e) = None) /\ d = Sent(Advance(c), m)
  <2>1. Utters(e, c, d, m, {})
        BY <1>1, <1>3, <1>6, SaidIs DEF Utters
  <2>2. \/ m.msg = "Certificate" /\ m.cert = Own(e) /\ (e = "server" => m.cert # None)
        \/ m.msg = "NoCertificate" /\ e = "client"
        BY <1>2, <1>6
  <2> QED
    BY <2>1, <2>2
<1> QED
  BY <1>3, <1>4, <1>5, <1>6

\* ssl_parse_certificate at a server that asks for none.
LEMMA CertificateSkipped ==
  ASSUME Typed, SkipCertificate, NEW c, c = ctx["server"]
  PROVE  \E d : Passes("server", c, d, {"verify"})
<1>1. Context(c)
      BY TypedAt DEF End
<1>2. PICK b, d : b = Advance(c) /\ d = [b EXCEPT !["verify"] = "skipped"] /\ Becomes("server", d)
      BY DEF SkipCertificate
<1>3. Same(c, b, {"state"}) /\ b.state = Following(c.state)
      BY <1>1, <1>2, AdvanceIs
<1>5. "verify" \in Fields \ {"neg"}
      BY DEF Fields
<1>4. /\ Same(c, d, {"state"} \cup {"verify"})
      /\ \A g \in Fields \ {"verify"} : d[g] = b[g]
      BY <1>2, <1>3, <1>5, FieldIs
<1> QED
  BY <1>2, <1>3, <1>4 DEF Passes, Fields

\* ssl_parse_certificate.
LEMMA CertificateParsed ==
  ASSUME Typed, NEW e \in End, ParseCertificate(e), NEW c, c = ctx[e]
  PROVE  \E d, m : \/ Leaves(e, c, d, "badcert")
                   \/ /\ Heeds(e, c, d, m, {"verify", "neg"})
                      /\ m.msg \in {"Certificate", "NoCertificate"}
                      /\ d.neg = [c.neg EXCEPT !.peer =
                                    IF m.msg = "NoCertificate" \/ m.cert = None THEN c.neg.peer ELSE m.cert]
<1>1. Context(c)
      BY TypedAt
<1>2. PICK m, cert : m = Incoming(e) /\ cert = IF m.msg = "NoCertificate" THEN None ELSE m.cert
      OBVIOUS
<1>3. PICK b, n : b = Advance(Received(c, m)) /\ n = Noting(e, b, cert)
      OBVIOUS
<1>4. PICK d : /\ Gets(e, CertificateState(Other(e)), {"Certificate", "NoCertificate"})
               /\ Consumes(e, d) /\ (d = n \/ d = Fail(n, "badcert"))
  <2>1. n = [b EXCEPT !.verify = IF Auth(e) = "NONE" THEN b.verify
                                 ELSE IF cert = None THEN "missing" ELSE IF cert.ok THEN "ok" ELSE "bad",
                      !.neg.peer = IF cert = None THEN @ ELSE cert]
        BY <1>3 DEF Noting, Checked
  <2> QED
    BY <1>2, <1>3, <2>1, Zenon DEF ParseCertificate
<1>5. net[e] # <<>> /\ m.msg \in {"Certificate", "NoCertificate"} /\ c.state = CertificateState(Other(e))
      BY <1>2, <1>4 DEF Gets, At, Incoming
<1>6. c.state # "HANDSHAKE_OVER"
      BY <1>5 DEF CertificateState
<1>7. /\ Same(c, b, {"state", "sum", "msg"}) /\ b.state = Following(c.state)
      /\ b.sum = With(c.sum, m) /\ b.msg = m /\ Context(b)
      BY <1>1, <1>3, <1>6, HeededIs DEF Same
<1>8. /\ Same(b, n, {"verify", "neg"})
      /\ n.neg = [b.neg EXCEPT !.peer = IF cert = None THEN b.neg.peer ELSE cert]
      BY <1>3, <1>7, NotingIs
<1>9. /\ Same(c, n, {"state", "sum", "msg", "verify", "neg"}) /\ n.state = Following(c.state)
      /\ n.sum = With(c.sum, m) /\ n.msg = m /\ b.neg = c.neg /\ n.out = c.out
      BY <1>7, <1>8 DEF Same, Fields
<1>10. CASE d = n
  <2>1. {"state", "sum", "msg"} \cup {"verify", "neg"} = {"state", "sum", "msg", "verify", "neg"}
        OBVIOUS
  <2>2. Heeds(e, c, d, m, {"verify", "neg"})
        BY <1>2, <1>4, <1>5, <1>9, <1>10, <2>1 DEF Heeds
  <2>3. d.neg = [c.neg EXCEPT !.peer =
                   IF m.msg = "NoCertificate" \/ m.cert = None THEN c.neg.peer ELSE m.cert]
        BY <1>2, <1>8, <1>9, <1>10
  <2> QED
    BY <1>5, <2>2, <2>3
<1>11. CASE d = Fail(n, "badcert")
  <2>1. Context(n) /\ Took(e, d)
        BY <1>4, <1>5, <1>9 DEF Same, Took
  <2>2. Leaves(e, c, d, "badcert")
        BY <1>9, <1>11, <2>1, FailedIs
  <2> QED
    BY <2>2
<1> QED
  BY <1>4, <1>10, <1>11

\* A turn that only goes on.
LEMMA OnlyPasses ==
  ASSUME Typed, NEW e \in End, NEW c, c = ctx[e], NEW d, d = Advance(c), Becomes(e, d)
  PROVE  Passes(e, c, d, {})
<1>1. Context(c)
      BY TypedAt
<1> QED
  BY <1>1, AdvanceIs DEF Passes

\* A turn that writes and goes on.
LEMMA OnlyUtters ==
  ASSUME Typed, NEW e \in End, NEW c, c = ctx[e], NEW m, NEW d, d = Sent(Advance(c), m),
         Becomes(e, d)
  PROVE  Utters(e, c, d, m, {})
<1>1. Context(c)
      BY TypedAt
<1> QED
  BY <1>1, SaidIs DEF Utters

\* A turn that reads and goes on.
LEMMA OnlyHeeds ==
  ASSUME Typed, NEW e \in End, NEW s, s # "HANDSHAKE_OVER", NEW ms, Gets(e, s, ms),
         NEW c, c = ctx[e], NEW m, m = Incoming(e), NEW d, d = Advance(Received(c, m))
  PROVE  /\ Same(c, d, {"state", "sum", "msg"}) /\ d.state = Following(c.state)
         /\ d.sum = With(c.sum, m) /\ d.msg = m /\ d.out = c.out
         /\ Consumes(e, d) => Heeds(e, c, d, m, {})
<1>1. Context(c) /\ c.state = s /\ net[e] # <<>>
      BY TypedAt DEF Gets, At
<1>2. /\ Same(c, d, {"state", "sum", "msg"}) /\ d.state = Following(c.state)
      /\ d.sum = With(c.sum, m) /\ d.msg = m
      BY <1>1, HeededIs
<1> QED
  BY <1>1, <1>2 DEF Heeds, Same, Fields

\* ssl_write_server_key_exchange.
LEMMA ServerKeyExchangeWritten ==
  ASSUME Typed, WriteServerKeyExchange, NEW c, c = ctx["server"]
  PROVE  \E d : \/ c.neg.suite \notin DHE /\ Passes("server", c, d, {})
                \/ /\ c.neg.suite \in DHE /\ d.dh = nonce
                   /\ \E m : /\ Utters("server", c, d, m, {"dh"})
                             /\ m.msg = "ServerKeyExchange" /\ m.dh = nonce /\ m.by = conf.scert
                             /\ m.signed = <<c.rc, c.rs, nonce>>
<1>1. Context(c)
      BY TypedAt DEF End
<1>2. PICK m : m = [msg |-> "ServerKeyExchange", dh |-> nonce,
                    signed |-> <<c.rc, c.rs, nonce>>, by |-> conf.scert]
      OBVIOUS
<1>3. PICK a, x : a = Advance(c) /\ x = [a EXCEPT !["dh"] = nonce]
      OBVIOUS
<1>4. \/ c.neg.suite \in DHE /\ Becomes("server", Sent(x, m))
      \/ c.neg.suite \notin DHE /\ Becomes("server", a)
      BY <1>2, <1>3 DEF WriteServerKeyExchange
<1>5. CASE c.neg.suite \in DHE /\ Becomes("server", Sent(x, m))
  <2>1. Same(c, a, {"state"}) /\ a.state = Following(c.state)
        BY <1>1, <1>3, AdvanceIs
  <2>2. "dh" \in Fields \ {"neg"}
        BY DEF Fields
  <2>3. Same(c, x, {"state"} \cup {"dh"}) /\ x.dh = nonce /\ \A g \in Fields \ {"dh"} : x[g] = a[g]
    <3>1. /\ Same(c, x, {"state"} \cup {"dh"})
          /\ \A g \in Fields \ {"dh"} : x[g] = a[g]
          BY <1>3, <2>1, <2>2, FieldIs
    <3>2. x.dh = nonce
          BY <1>3, <2>1 DEF Same, Context, Fields
    <3> QED
      BY <3>1, <3>2
  <2>4. Context(x) /\ x.state = Following(c.state) /\ x.tout = c.tout /\ x.sum = c.sum
        BY <2>1, <2>3 DEF Same, Fields
  <2>5. PICK d : d = Sent(x, m)
        OBVIOUS
  <2>6. /\ Same(x, d, {"sum", "out"}) /\ d.out = [key |-> x.tout, body |-> m]
        /\ d.sum = With(x.sum, m)
        BY <2>4, <2>5, SentIs
  <2>7. /\ Same(c, d, {"state", "sum", "out"} \cup {"dh"}) /\ d.dh = nonce
        /\ d.state = Following(c.state)
        BY <2>3, <2>4, <2>6 DEF Same, Fields
  <2>8. Utters("server", c, d, m, {"dh"})
        BY <1>5, <2>4, <2>5, <2>6, <2>7 DEF Utters
  <2> QED
    BY <1>2, <1>5, <2>7, <2>8
<1>6. CASE c.neg.suite \notin DHE /\ Becomes("server", a)
  BY <1>3, <1>6, OnlyPasses DEF End
<1> QED
  BY <1>4, <1>5, <1>6

\* ssl_parse_server_key_exchange.
LEMMA ServerKeyExchangeParsed ==
  ASSUME Typed, ParseServerKeyExchange, NEW c, c = ctx["client"]
  PROVE  \E d, m : \/ c.neg.suite \notin DHE /\ Passes("client", c, d, {})
                   \/ /\ ~ (m.signed = <<c.rc, c.rs, m.dh>> /\ m.by = c.neg.peer)
                      /\ Leaves("client", c, d, "signature")
                      /\ net["client"] # <<>> /\ m = Incoming("client") /\ m.msg = "ServerKeyExchange"
                   \/ /\ d.dh = m.dh /\ m.msg = "ServerKeyExchange" /\ c.neg.suite \in DHE
                      /\ Heeds("client", c, d, m, {"dh"})
<1>1. PICK m, r : m = Incoming("client") /\ r = Advance(Received(c, m))
      OBVIOUS
<1>2. \/ /\ Gets("client", "SERVER_KEY_EXCHANGE", {"ServerKeyExchange"})
         /\ Consumes("client", IF m.signed = <<r.rc, r.rs, m.dh>> /\ m.by = r.neg.peer
                               THEN [r EXCEPT !["dh"] = m.dh] ELSE Fail(r, "signature"))
      \/ c.neg.suite \notin DHE /\ Becomes("client", Advance(c))
      BY <1>1 DEF ParseServerKeyExchange
<1>3. CASE c.neg.suite \notin DHE /\ Becomes("client", Advance(c))
  BY <1>3, OnlyPasses DEF End
<1>4. CASE /\ Gets("client", "SERVER_KEY_EXCHANGE", {"ServerKeyExchange"})
           /\ Consumes("client", IF m.signed = <<r.rc, r.rs, m.dh>> /\ m.by = r.neg.peer
                                 THEN [r EXCEPT !["dh"] = m.dh] ELSE Fail(r, "signature"))
  <2>1. /\ Same(c, r, {"state", "sum", "msg"}) /\ r.state = Following(c.state)
        /\ r.sum = With(c.sum, m) /\ r.msg = m /\ r.out = c.out
        BY <1>1, <1>4, OnlyHeeds DEF End
  <2>2. Context(r) /\ r.rc = c.rc /\ r.rs = c.rs /\ r.neg = c.neg
        BY <2>1 DEF Same, Fields
  <2>3. net["client"] # <<>> /\ m.msg = "ServerKeyExchange" /\ c.neg.suite \in DHE
    <3>1. m.msg \in {"ServerKeyExchange"} \cap Awaits("client") /\ net["client"] # <<>>
          /\ c.state = "SERVER_KEY_EXCHANGE"
          BY <1>1, <1>4 DEF Gets, At, Incoming
    <3>2. c.neg.suite \notin DHE => Awaits("client") = {}
          BY <3>1 DEF Awaits
    <3> QED
      BY <3>1, <3>2
  <2>4. CASE m.signed = <<c.rc, c.rs, m.dh>> /\ m.by = c.neg.peer
    <3>1. PICK d : d = [r EXCEPT !["dh"] = m.dh] /\ Consumes("client", d)
          BY <1>4, <2>2, <2>4
    <3>2. "dh" \in Fields \ {"neg"} /\ {"state", "sum", "msg"} \subseteq Fields \ {"dh"}
          BY DEF Fields
    <3>5. /\ Same(c, d, {"state", "sum", "msg"} \cup {"dh"})
          /\ \A g \in Fields \ {"dh"} : d[g] = r[g]
      <4>1. PICK F : F = {"state", "sum", "msg"}
            OBVIOUS
      <4>2. Same(c, r, F)
            BY <2>1, <4>1
      <4>3. Same(c, d, F \cup {"dh"}) /\ \A g \in Fields \ {"dh"} : d[g] = r[g]
        <5>1. DOMAIN r = Fields /\ DOMAIN r.neg = SessionFields /\ "neg" \in Fields \ {"dh"}
              BY <4>2 DEF Same, Context, Fields
        <5>2. DOMAIN d = Fields /\ \A g \in Fields \ {"dh"} : d[g] = r[g]
              BY <3>1, <5>1
        <5>3. \A g \in Fields \ (F \cup {"dh"}) : d[g] = c[g]
              BY <4>2, <5>2 DEF Same
        <5> QED
          BY <5>1, <5>2, <5>3 DEF Same, Context
      <4> QED
        BY <4>1, <4>3
    <3>6. d.dh = m.dh
          BY <2>2, <3>1 DEF Context, Fields
    <3>3. /\ Same(c, d, {"state", "sum", "msg"} \cup {"dh"}) /\ d.dh = m.dh
          /\ \A g \in Fields \ {"dh"} : d[g] = r[g]
          BY <3>5, <3>6
    <3>4. Heeds("client", c, d, m, {"dh"})
          BY <1>1, <2>1, <2>3, <3>1, <3>2, <3>3 DEF Heeds
    <3> QED
      BY <2>3, <3>3, <3>4
  <2>5. CASE ~ (m.signed = <<c.rc, c.rs, m.dh>> /\ m.by = c.neg.peer)
    <3>1. PICK d : d = Fail(r, "signature") /\ Consumes("client", d)
          BY <1>4, <2>2, <2>5
    <3>2. Leaves("client", c, d, "signature")
          BY <2>1, <2>2, <2>3, <3>1, FailedIs DEF Took
    <3> QED
      BY <1>1, <2>3, <2>5, <3>2
  <2> QED
    BY <2>4, <2>5
<1> QED
  BY <1>2, <1>3, <1>4

\* ssl_write_certificate_request.
LEMMA CertificateRequestWritten ==
  ASSUME Typed, WriteCertificateRequest, NEW c, c = ctx["server"]
  PROVE  \E d : \/ Passes("server", c, d, {})
                \/ \E m : Utters("server", c, d, m, {}) /\ m.msg = "CertificateRequest"
<1>1. PICK m : m = [msg |-> "CertificateRequest"]
      OBVIOUS
<1>2. Becomes("server", Advance(c)) \/ Becomes("server", Sent(Advance(c), m))
      BY <1>1 DEF WriteCertificateRequest
<1> QED
  BY <1>1, <1>2, OnlyPasses, OnlyUtters DEF End

\* ssl_parse_certificate_request.
LEMMA CertificateRequestParsed ==
  ASSUME Typed, ParseCertificateRequest, NEW c, c = ctx["client"]
  PROVE  \E d, m : Heeds("client", c, d, m, {"auth"}) /\ m.msg \in HandshakeMessages
<1>1. PICK m, r : m = Incoming("client") /\ r = Advance(Received(c, m))
      OBVIOUS
<1>2. PICK d, v : /\ Gets("client", "CERTIFICATE_REQUEST", HandshakeMessages)
                  /\ d = [r EXCEPT !["auth"] = v] /\ Consumes("client", d)
      BY <1>1 DEF ParseCertificateRequest
<1>3. /\ Same(c, r, {"state", "sum", "msg"}) /\ r.state = Following(c.state)
      /\ r.sum = With(c.sum, m) /\ r.msg = m
      BY <1>1, <1>2, OnlyHeeds DEF End
<1>4. "auth" \in Fields \ {"neg"} /\ {"state", "sum", "msg"} \subseteq Fields \ {"auth"}
      BY DEF Fields
<1>5. /\ Same(c, d, {"state", "sum", "msg"} \cup {"auth"})
      /\ \A g \in Fields \ {"auth"} : d[g] = r[g]
  <2>1. PICK F : F = {"state", "sum", "msg"}
        OBVIOUS
  <2>2. Same(c, r, F)
        BY <1>3, <2>1
  <2>3. Same(c, d, F \cup {"auth"}) /\ \A g \in Fields \ {"auth"} : d[g] = r[g]
    <3>1. DOMAIN r = Fields /\ DOMAIN r.neg = SessionFields /\ "neg" \in Fields \ {"auth"}
          BY <2>2 DEF Same, Context, Fields
    <3>2. DOMAIN d = Fields /\ \A g \in Fields \ {"auth"} : d[g] = r[g]
          BY <1>2, <3>1
    <3>3. \A g \in Fields \ (F \cup {"auth"}) : d[g] = c[g]
          BY <2>2, <3>2 DEF Same
    <3> QED
      BY <3>1, <3>2, <3>3 DEF Same, Context
  <2> QED
    BY <2>1, <2>3
<1>6. net["client"] # <<>> /\ m.msg \in HandshakeMessages
      BY <1>1, <1>2 DEF Gets, At, Incoming
<1> QED
  BY <1>1, <1>2, <1>3, <1>4, <1>5, <1>6 DEF Heeds

\* ssl_write_server_hello_done.
LEMMA ServerHelloDoneWritten ==
  ASSUME Typed, WriteServerHelloDone, NEW c, c = ctx["server"]
  PROVE  \E d, m : Utters("server", c, d, m, {}) /\ m.msg = "ServerHelloDone"
<1>1. PICK m : m = [msg |-> "ServerHelloDone"]
      OBVIOUS
<1>2. Becomes("server", Sent(Advance(c), m))
      BY <1>1 DEF WriteServerHelloDone
<1> QED
  BY <1>1, <1>2, OnlyUtters DEF End

\* ssl_parse_server_hello_done.
LEMMA ServerHelloDoneParsed ==
  ASSUME Typed, ParseServerHelloDone, NEW c, c = ctx["client"]
  PROVE  \E d, m : \/ Heeds("client", c, d, m, {}) /\ m.msg = "ServerHelloDone"
                   \/ Passes("client", c, d, {}) /\ c.msg.msg = "ServerHelloDone"
                   \/ Leaves("client", c, d, "unexpected")
<1>1. PICK m : m = Incoming("client")
      OBVIOUS
<1>2. \/ /\ Gets("client", "SERVER_HELLO_DONE", {"ServerHelloDone"})
         /\ Consumes("client", Advance(Received(c, m)))
      \/ Becomes("client", Advance(c)) /\ c.msg.msg = "ServerHelloDone"
      \/ Becomes("client", Fail(c, "unexpected"))
      BY <1>1 DEF ParseServerHelloDone
<1>3. CASE /\ Gets("client", "SERVER_HELLO_DONE", {"ServerHelloDone"})
           /\ Consumes("client", Advance(Received(c, m)))
  <2>1. m.msg = "ServerHelloDone"
        BY <1>1, <1>3 DEF Gets, Incoming
  <2> QED
    BY <1>1, <1>3, <2>1, OnlyHeeds DEF End
<1>4. CASE Becomes("client", Advance(c)) /\ c.msg.msg = "ServerHelloDone"
  BY <1>4, OnlyPasses DEF End
<1>5. CASE Becomes("client", Fail(c, "unexpected"))
  <2>1. Context(c)
        BY TypedAt DEF End
  <2> QED
    BY <1>5, <2>1, FailedIs DEF Took
<1> QED
  BY <1>2, <1>3, <1>4, <1>5

\* ssl_write_certificate_verify.
LEMMA CertificateVerifyWritten ==
  ASSUME Typed, WriteCertificateVerify, NEW c, c = ctx["client"]
  PROVE  \E d : \/ Passes("client", c, d, {})
                \/ \E m : /\ Utters("client", c, d, m, {})
                          /\ m.msg = "CertificateVerify" /\ m.signed = c.sum /\ m.by = Own("client")
<1>1. PICK m : m = [msg |-> "CertificateVerify", signed |-> c.sum, by |-> Own("client")]
      OBVIOUS
<1>2. Becomes("client", Advance(c)) \/ Becomes("client", Sent(Advance(c), m))
      BY <1>1 DEF WriteCertificateVerify, Transcript
<1> QED
  BY <1>1, <1>2, OnlyPasses, OnlyUtters DEF End

\* ssl_parse_certificate_verify.
LEMMA CertificateVerifyParsed ==
  ASSUME Typed, ParseCertificateVerify, NEW c, c = ctx["server"]
  PROVE  \E d, m : \/ Passes("server", c, d, {})
                   \/ /\ c.neg.peer # None /\ net["server"] # <<>> /\ m = Incoming("server")
                      /\ m.msg = "CertificateVerify"
                      /\ \/ Heeds("server", c, d, m, {})
                         \/ /\ ~ (m.signed = c.sum /\ m.by = c.neg.peer)
                            /\ Leaves("server", c, d, "signature")
<1>1. PICK m, r : m = Incoming("server") /\ r = Advance(Received(c, m))
      OBVIOUS
<1>2. \/ /\ Gets("server", "CERTIFICATE_VERIFY", {"CertificateVerify"})
         /\ \/ Consumes("server", r)
            \/ ~ (m.signed = c.sum /\ m.by = c.neg.peer) /\ Consumes("server", Fail(r, "signature"))
      \/ Becomes("server", Advance(c))
      BY <1>1 DEF ParseCertificateVerify, Transcript
<1>3. CASE Becomes("server", Advance(c))
  BY <1>3, OnlyPasses DEF End
<1>4. CASE /\ Gets("server", "CERTIFICATE_VERIFY", {"CertificateVerify"})
           /\ \/ Consumes("server", r)
              \/ ~ (m.signed = c.sum /\ m.by = c.neg.peer) /\ Consumes("server", Fail(r, "signature"))
  <2>1. /\ Same(c, r, {"state", "sum", "msg"}) /\ r.out = c.out
        /\ Consumes("server", r) => Heeds("server", c, r, m, {})
        BY <1>1, <1>4, OnlyHeeds DEF End
  <2>2. net["server"] # <<>> /\ m.msg = "CertificateVerify" /\ c.neg.peer # None
    <3>1. m.msg \in {"CertificateVerify"} \cap Awaits("server") /\ net["server"] # <<>>
          /\ c.state = "CERTIFICATE_VERIFY"
          BY <1>1, <1>4 DEF Gets, At, Incoming
    <3>2. c.neg.peer = None => Awaits("server") = {}
          BY <3>1 DEF Awaits
    <3> QED
      BY <3>1, <3>2
  <2>3. ASSUME Consumes("server", Fail(r, "signature"))
        PROVE  Leaves("server", c, Fail(r, "signature"), "signature")
        BY <2>1, <2>2, <2>3, FailedIs DEF Same, Took
  <2> QED
    BY <1>1, <1>4, <2>1, <2>2, <2>3
<1> QED
  BY <1>2, <1>3, <1>4

\* ssl_write_change_cipher_spec, ssl_parse_change_cipher_spec and SSL_FLUSH_BUFFERS.
LEMMA ChangeCipherSpecTurns ==
  ASSUME Typed, NEW e \in End, NEW c, c = ctx[e]
  PROVE  /\ WriteChangeCipherSpec(e) =>
              \E d, m : Utters(e, c, d, m, {}) /\ m.msg = "ChangeCipherSpec"
         /\ ParseChangeCipherSpec(e) =>
              \E d, m : Heeds(e, c, d, m, {}) /\ m.msg = "ChangeCipherSpec"
         /\ FlushBuffers(e) => \E d : Passes(e, c, d, {})
<1>1. ASSUME WriteChangeCipherSpec(e)
      PROVE  \E d, m : Utters(e, c, d, m, {}) /\ m.msg = "ChangeCipherSpec"
  <2>1. PICK m : m = [msg |-> "ChangeCipherSpec"]
        OBVIOUS
  <2>2. Becomes(e, Sent(Advance(c), m))
        BY <1>1, <2>1 DEF WriteChangeCipherSpec
  <2> QED
    BY <2>1, <2>2, OnlyUtters
<1>2. ASSUME ParseChangeCipherSpec(e)
      PROVE  \E d, m : Heeds(e, c, d, m, {}) /\ m.msg = "ChangeCipherSpec"
  <2>1. PICK m : m = Incoming(e)
        OBVIOUS
  <2>2. /\ Gets(e, SpecState(Other(e)), {"ChangeCipherSpec"}) /\ SpecState(Other(e)) # "HANDSHAKE_OVER"
        /\ Consumes(e, Advance(Received(c, m)))
        BY <1>2, <2>1 DEF ParseChangeCipherSpec, SpecState
  <2>3. m.msg = "ChangeCipherSpec"
        BY <2>1, <2>2 DEF Gets, Incoming
  <2> QED
    BY <2>1, <2>2, <2>3, OnlyHeeds
<1>3. FlushBuffers(e) => \E d : Passes(e, c, d, {})
      BY OnlyPasses DEF FlushBuffers
<1> QED
  BY <1>1, <1>2, <1>3
Secrets == {"premaster", "neg", "tneg", "rc", "rs"}

\* d has the keys that come of secret s.
KeysFrom(c, d, s) ==
  \E master : /\ d.neg = [c.neg EXCEPT !.master = master]
              /\ d.tneg = KeysOf(master, c.rc, c.rs, c.neg.suite, c.minor)
              /\ ~ c.resume => master = PRF(s, "master", <<c.rc, c.rs>>)

\* The premaster secret is noted.
LEMMA NotedSecret ==
  ASSUME NEW b, Context(b), NEW s, NEW x, x = [b EXCEPT !.premaster = s]
  PROVE  Same(b, x, {"premaster"}) /\ x.premaster = s
  BY DEF Same, Context, Fields

\* ssl_derive_keys behind a turn of the key exchange.
LEMMA KeysDerived ==
  ASSUME NEW c, NEW x, Context(x), x.neg = c.neg, x.rc = c.rc, x.rs = c.rs, x.minor = c.minor,
         x.resume = c.resume, NEW d, d = Derived(x)
  PROVE  Same(x, d, Secrets) /\ KeysFrom(c, d, x.premaster)
<1>5. PICK k : k = Master(x)
      OBVIOUS
<1>6. /\ Same(x, d, Secrets) /\ d.neg = [x.neg EXCEPT !.master = k] /\ d.tneg = KeyBlock(x, k)
  <2>1. Secrets = {"neg", "tneg", "premaster", "rc", "rs"}
        BY DEF Secrets
  <2> QED
    BY <1>5, <2>1, DerivedIs
<1>8. ~ c.resume => k = PRF(x.premaster, "master", <<c.rc, c.rs>>)
      BY <1>5 DEF Master
<1>9. d.neg = [c.neg EXCEPT !.master = k] /\ d.tneg = KeysOf(k, c.rc, c.rs, c.neg.suite, c.minor)
      BY <1>6 DEF KeyBlock, KeysOf
<1> QED
  BY <1>6, <1>8, <1>9 DEF KeysFrom

\* ssl_write_client_key_exchange.
LEMMA ClientKeyExchangeWritten ==
  ASSUME Typed, WriteClientKeyExchange, NEW c, c = ctx["client"]
  PROVE  \E d, m, s : /\ Utters("client", c, d, m, Secrets) /\ m.msg = "ClientKeyExchange"
                      /\ KeysFrom(c, d, s)
                      /\ IF c.neg.suite \in DHE THEN s = <<c.dh, m.half>>
                         ELSE m.sealed = <<c.neg.peer, s>> /\ s[1] = c.max
<1>1. PICK s : s = IF c.neg.suite \in DHE THEN <<c.dh, nonce>> ELSE <<c.max, nonce>>
      OBVIOUS
<1>2. PICK m : m = [msg |-> "ClientKeyExchange",
                    half |-> IF c.neg.suite \in DHE THEN nonce ELSE None,
                    sealed |-> IF c.neg.suite \in DHE THEN None ELSE <<c.neg.peer, s>>]
      OBVIOUS
<1>3. PICK b, y, x, d : /\ b = Advance(c) /\ y = [b EXCEPT !.premaster = s] /\ x = Derived(y)
                        /\ d = Sent(x, m) /\ Becomes("client", d)
      BY <1>1, <1>2 DEF WriteClientKeyExchange
<1>4. Same(c, b, {"state"}) /\ b.state = Following(c.state) /\ Context(b)
      BY <1>3, TypedAt, AdvanceIs DEF End, Same
<1>5. /\ Same(c, x, {"state"} \cup Secrets) /\ KeysFrom(c, x, s)
      /\ x.state = b.state /\ x.sum = b.sum /\ x.tout = c.tout
  <2>1. Same(b, y, {"premaster"}) /\ y.premaster = s
        BY <1>3, <1>4, NotedSecret
  <2>2. /\ Context(y) /\ y.neg = c.neg /\ y.rc = c.rc /\ y.rs = c.rs /\ y.minor = c.minor
        /\ y.resume = c.resume
        BY <1>4, <2>1 DEF Same, Fields
  <2>3. Same(y, x, Secrets) /\ KeysFrom(c, x, s)
        BY <1>3, <2>1, <2>2, KeysDerived
  <2> QED
    BY <1>4, <2>1, <2>3 DEF Same, Fields, Secrets
<1>6. /\ Same(x, d, {"sum", "out"})
      /\ d.out = [key |-> x.tout, body |-> m] /\ d.sum = With(x.sum, m)
      BY <1>3, <1>5, SentIs DEF Same
<1>7. Same(c, d, {"state", "sum", "out"} \cup Secrets) /\ d.state = Following(c.state)
      BY <1>4, <1>5, <1>6 DEF Same, Fields
<1>8. b.sum = c.sum /\ d.neg = x.neg /\ d.tneg = x.tneg
      BY <1>4, <1>6 DEF Same, Fields
<1>9. Utters("client", c, d, m, Secrets) /\ KeysFrom(c, d, s)
      BY <1>3, <1>5, <1>6, <1>7, <1>8 DEF Utters, KeysFrom
<1>10. /\ m.msg = "ClientKeyExchange"
       /\ IF c.neg.suite \in DHE THEN s = <<c.dh, m.half>> ELSE m.sealed = <<c.neg.peer, s>> /\ s[1] = c.max
       BY <1>1, <1>2
<1> QED
  BY <1>9, <1>10

\* ssl_parse_client_key_exchange.
LEMMA ClientKeyExchangeParsed ==
  ASSUME Typed, ParseClientKeyExchange, NEW c, c = ctx["server"]
  PROVE  \E d, m, s : /\ Heeds("server", c, d, m, Secrets) /\ m.msg = "ClientKeyExchange"
                      /\ KeysFrom(c, d, s)
                      /\ IF c.neg.suite \in DHE THEN s = <<c.dh, m.half>>
                         ELSE m.sealed # None /\ m.sealed[1] = conf.scert /\ m.sealed[2][1] = c.max
                                => s = m.sealed[2]
<1>1. PICK m, r : m = Incoming("server") /\ r = Advance(Received(c, m))
      OBVIOUS
<1>2. PICK s : s = IF r.neg.suite \in DHE THEN <<r.dh, m.half>>
                   ELSE IF m.sealed # None /\ m.sealed[1] = conf.scert /\ m.sealed[2][1] = r.max
                        THEN m.sealed[2] ELSE <<None, nonce>>
      OBVIOUS
<1>3. PICK y, d : /\ Gets("server", "CLIENT_KEY_EXCHANGE", {"ClientKeyExchange"})
                  /\ y = [r EXCEPT !.premaster = s] /\ d = Derived(y) /\ Consumes("server", d)
      BY <1>1, <1>2 DEF ParseClientKeyExchange
<1>4. /\ Same(c, r, {"state", "sum", "msg"}) /\ r.state = Following(c.state)
      /\ r.sum = With(c.sum, m) /\ r.msg = m /\ Context(r)
  <2>1. /\ Same(c, r, {"state", "sum", "msg"}) /\ r.state = Following(c.state)
        /\ r.sum = With(c.sum, m) /\ r.msg = m
        BY <1>1, <1>3, OnlyHeeds DEF End
  <2> QED
    BY <2>1 DEF Same
<1>6. /\ Same(c, d, {"state", "sum", "msg"} \cup Secrets) /\ KeysFrom(c, d, s)
      /\ d.state = r.state /\ d.sum = r.sum /\ d.msg = r.msg
  <2>1. Same(r, y, {"premaster"}) /\ y.premaster = s
        BY <1>3, <1>4, NotedSecret
  <2>2. /\ Context(y) /\ y.neg = c.neg /\ y.rc = c.rc /\ y.rs = c.rs /\ y.minor = c.minor
        /\ y.resume = c.resume
        BY <1>4, <2>1 DEF Same, Fields
  <2>3. Same(y, d, Secrets) /\ KeysFrom(c, d, s)
        BY <1>3, <2>1, <2>2, KeysDerived
  <2> QED
    BY <1>4, <2>1, <2>3 DEF Same, Fields, Secrets
<1>7. net["server"] # <<>> /\ m.msg = "ClientKeyExchange"
      BY <1>1, <1>3 DEF Gets, Incoming
<1>8. Heeds("server", c, d, m, Secrets)
      BY <1>1, <1>3, <1>4, <1>6, <1>7 DEF Heeds
<1>9. r.dh = c.dh /\ r.max = c.max /\ r.neg = c.neg
      BY <1>4 DEF Same, Fields
<1>10. IF c.neg.suite \in DHE THEN s = <<c.dh, m.half>>
       ELSE m.sealed # None /\ m.sealed[1] = conf.scert /\ m.sealed[2][1] = c.max => s = m.sealed[2]
       BY <1>2, <1>9
<1> QED
  BY <1>6, <1>7, <1>8, <1>10

\* ssl_write_finished.
LEMMA FinishedWritten ==
  ASSUME Typed, NEW e \in End, WriteFinished(e), NEW c, c = ctx[e]
  PROVE  \E d, m : /\ Becomes(e, d) /\ Same(c, d, {"own", "tout", "state", "sum", "out"})
                   /\ d.state = AfterWriting(e, c) /\ d.own = FinishedBy(e, c)
                   /\ d.tout = OutKey(e, c) /\ d.out = [key |-> OutKey(e, c), body |-> m]
                   /\ d.sum = Append(c.sum, m) /\ m.msg = "Finished" /\ m.hash = FinishedBy(e, c)
                   /\ origin' = IF e = "server" /\ ~c.resume THEN origin \cup {c.neg} ELSE origin
<1>1. Context(c)
      BY TypedAt
<1>2. PICK m, x : /\ m = [msg |-> "Finished", hash |-> FinishedBy(e, c)]
                  /\ x = [c EXCEPT !.own = m.hash, !.tout = OutKey(e, c), !.state = AfterWriting(e, c)]
      OBVIOUS
<1>3. PICK d : d = Sent(x, m) /\ Becomes(e, d)
      BY <1>2 DEF WriteFinished
<1>4. /\ Same(c, x, {"own", "tout", "state"}) /\ x.own = FinishedBy(e, c)
      /\ x.tout = OutKey(e, c) /\ x.state = AfterWriting(e, c)
      BY <1>1, <1>2 DEF Same, Context, Fields
<1>5. m.msg \in HandshakeMessages
      BY <1>2 DEF HandshakeMessages
<1>6. /\ Same(x, d, {"sum", "out"}) /\ d.out = [key |-> x.tout, body |-> m]
      /\ d.sum = Append(x.sum, m)
      BY <1>3, <1>4, <1>5, SentMessageIs DEF Same
<1>7. /\ Same(c, d, {"own", "tout", "state", "sum", "out"})
      /\ d.state = AfterWriting(e, c) /\ d.own = FinishedBy(e, c) /\ d.tout = OutKey(e, c)
      /\ d.sum = Append(c.sum, m) /\ d.out = [key |-> OutKey(e, c), body |-> m]
      BY <1>4, <1>6 DEF Same, Fields
<1>8. m.msg = "Finished" /\ m.hash = FinishedBy(e, c)
      BY <1>2
<1>9. origin' = IF e = "server" /\ ~c.resume THEN origin \cup {c.neg} ELSE origin
      BY DEF WriteFinished
<1> QED
  BY <1>3, <1>7, <1>8, <1>9

\* ssl_parse_finished.
LEMMA FinishedParsed ==
  ASSUME Typed, NEW e \in End, ParseFinished(e), NEW c, c = ctx[e]
  PROVE  \E d, m :
           /\ net[e] # <<>> /\ m = Incoming(e) /\ m.msg = "Finished" /\ Consumes(e, d)
           /\ \/ Leaves(e, c, d, "finished") /\ m.hash # FinishedBy(Other(e), c)
              \/ /\ Same(c, d, {"sum", "msg", "tin", "peer", "state"})
                 /\ d.tin = InKey(e, c) /\ d.peer = m.hash /\ d.state = AfterReading(e, c)
                 /\ d.sum = Append(c.sum, m) /\ m.hash = FinishedBy(Other(e), c)
<1>1. Context(c) /\ c.state = FinishedState(Other(e)) /\ net[e] # <<>>
      BY TypedAt DEF ParseFinished, Gets, At
<1>2. PICK m, b, r, x : /\ m = Incoming(e) /\ b = Received(c, m)
                        /\ r = [b EXCEPT !.tin = InKey(e, c)]
                        /\ x = [r EXCEPT !.peer = FinishedBy(Other(e), c), !.state = AfterReading(e, r)]
      OBVIOUS
<1>3. /\ m.msg = "Finished" /\ \/ m.hash = FinishedBy(Other(e), c) /\ Consumes(e, x)
                               \/ m.hash # FinishedBy(Other(e), c) /\ Consumes(e, Fail(r, "finished"))
      BY <1>2 DEF ParseFinished, Gets, Incoming
<1>4. c.state # "HANDSHAKE_OVER" /\ m.msg \in HandshakeMessages
      BY <1>1, <1>3 DEF FinishedState, HandshakeMessages
<1>5. Same(c, b, {"sum", "msg"}) /\ b.sum = Append(c.sum, m)
      BY <1>1, <1>2, <1>4, ReceivedIs DEF With
<1>6. Same(c, r, {"sum", "msg", "tin"}) /\ r.tin = InKey(e, c) /\ r.sum = Append(c.sum, m)
      BY <1>2, <1>5 DEF Same, Context, Fields
<1>7. CASE m.hash = FinishedBy(Other(e), c) /\ Consumes(e, x)
  <2>1. AfterReading(e, r) = AfterReading(e, c)
        BY <1>6 DEF Same, Fields, AfterReading
  <2>2. /\ Same(c, x, {"sum", "msg", "tin", "peer", "state"})
        /\ x.tin = InKey(e, c) /\ x.peer = FinishedBy(Other(e), c) /\ x.state = AfterReading(e, c)
        /\ x.sum = Append(c.sum, m)
        BY <1>2, <1>6, <2>1 DEF Same, Context, Fields
  <2> QED
    BY <1>1, <1>2, <1>3, <1>7, <2>2
<1>8. CASE m.hash # FinishedBy(Other(e), c) /\ Consumes(e, Fail(r, "finished"))
  <2>1. Context(r) /\ r.out = c.out
        BY <1>6 DEF Same, Fields
  <2>2. PICK d : d = Fail(r, "finished") /\ Consumes(e, d)
        BY <1>8
  <2>3. Leaves(e, c, d, "finished")
        BY <1>1, <2>1, <2>2, FailedIs DEF Took
  <2> QED
    BY <1>1, <1>2, <1>3, <1>8, <2>2, <2>3
<1> QED
  BY <1>3, <1>7, <1>8

\* An end that fails, with an alert or without.
LEMMA LeavingIs ==
  ASSUME NEW e, NEW c, NEW b, Context(b), b.out = c.out, b.tout = c.tout, NEW why,
         NEW d, d = Fail(b, why) \/ d = Abort(b, why), Took(e, d)
  PROVE  Leaves(e, c, d, why)
<1>1. CASE d = Fail(b, why)
  BY <1>1, FailedIs
<1>2. CASE d = Abort(b, why)
  BY <1>2, AbortIs DEF Leaves
<1> QED
  BY <1>1, <1>2

\* ssl_parse_server_hello, when it refuses.
LEMMA ServerHelloRefused ==
  ASSUME Typed, RefuseServerHello, NEW c, c = ctx["client"]
  PROVE  \E h, d, why :
           /\ At("client", "SERVER_HELLO") /\ net["client"] # <<>> /\ h = Incoming("client")
           /\ h.msg = "ServerHello" /\ Leaves("client", c, d, why)
           /\ why \in {"hello", "version", "nocipher", "renegotiation"}
           /\ why = "renegotiation" => c.reneg /\ h.info # <<c.own, c.peer>>
<1>1. PICK h, b, why : h = Incoming("client") /\ b = Received(c, h) /\ why = HelloError(b, b.msg)
      OBVIOUS
<1>2. /\ Gets("client", "SERVER_HELLO", {"ServerHello"}) /\ why # "no"
      /\ Consumes("client", Abort(b, why)) \/ Consumes("client", Fail(b, why))
      BY <1>1 DEF RefuseServerHello
<1>3. /\ At("client", "SERVER_HELLO") /\ net["client"] # <<>> /\ h.msg = "ServerHello"
      BY <1>1, <1>2, GetsFacts
<1>4. PICK d : (d = Fail(b, why) \/ d = Abort(b, why)) /\ Took("client", d)
      BY <1>2, <1>3 DEF Took
<1>5. Same(c, b, {"sum", "msg"}) /\ b.msg = h
      BY <1>1, TypedAt, ReceivedIs DEF End
<1>6. Context(b) /\ b.out = c.out /\ b.tout = c.tout /\ b.reneg = c.reneg /\ b.own = c.own
      /\ b.peer = c.peer
      BY <1>5 DEF Same, Fields
<1>7. Leaves("client", c, d, why)
      BY <1>4, <1>6, LeavingIs
<1>8. /\ why \in {"hello", "version", "nocipher", "renegotiation"}
      /\ why = "renegotiation" => b.reneg /\ h.info # <<b.own, b.peer>>
      BY <1>1, <1>2, <1>5 DEF HelloError
<1> QED
  BY <1>1, <1>3, <1>6, <1>7, <1>8

\* A record that is turned down, ...
LEMMA RecordRefused ==
  ASSUME Typed, NEW e \in End, RefuseRecord(e), NEW c, c = ctx[e]
  PROVE  \E d, why :
           /\ At(e, c.state) /\ Awaits(e) # {} /\ net[e] # <<>> /\ Leaves(e, c, d, why)
           /\ \/ why \in {"alert", "unexpected"}
              \/ why = "mac" /\ Head(net[e]).key # ReadKey(e)
<1>1. PICK d, why : /\ d = Fail(c, why) \/ d = Abort(c, why)
                    /\ Took(e, d)
                    /\ \/ why \in {"alert", "unexpected"}
                       \/ why = "mac" /\ Head(net[e]).key # ReadKey(e)
      BY DEF RefuseRecord, Took
<1>2. Leaves(e, c, d, why)
      BY <1>1, TypedAt, LeavingIs
<1> QED
  BY <1>1, <1>2 DEF RefuseRecord

\* ... the end of the stream, a lost connection, and one that is closed.
LEMMA ConnectionEnds ==
  ASSUME Typed, NEW e \in End, Eof(e) \/ Lose(e) \/ Close(e), NEW c, c = ctx[e]
  PROVE  \E d : /\ Took(e, d) /\ d.out = c.out /\ d.end \in {"eof", "lost", "closed"}
                /\ c.end = "no"
<1>1. PICK d, why : /\ d = Fail(c, why) /\ Took(e, d) /\ why \in {"eof", "lost", "closed"}
                    /\ c.end = "no"
      BY DEF Eof, Lose, Close, Took, At
<1>2. Same(c, d, {"end"}) /\ d.end = why
      BY <1>1, TypedAt, FailIs
<1> QED
  BY <1>1, <1>2 DEF Same, Fields

\* ssl_write.
LEMMA DataWritten ==
  ASSUME Typed, NEW e \in End, WriteData(e), NEW c, c = ctx[e]
  PROVE  \E d, m : /\ At(e, "HANDSHAKE_OVER") /\ Becomes(e, d) /\ Same(c, d, {"sum", "out"})
                   /\ d.out = [key |-> c.tout, body |-> m] /\ m.msg = "Data"
<1>1. PICK m, d : m = [msg |-> "Data"] /\ d = Sent(c, m)
      OBVIOUS
<1>2. At(e, "HANDSHAKE_OVER") /\ Becomes(e, d) /\ m.msg = "Data"
      BY <1>1 DEF WriteData
<1>3. Same(c, d, {"sum", "out"}) /\ d.out = [key |-> c.tout, body |-> m]
      BY <1>1, TypedAt, SentIs
<1> QED
  BY <1>2, <1>3

\* ssl_read of data.
LEMMA DataRead ==
  ASSUME Typed, NEW e \in End, ReadData(e), NEW c, c = ctx[e]
  PROVE  \E d : /\ At(e, "HANDSHAKE_OVER") /\ net[e] # <<>> /\ Incoming(e).msg = "Data"
                /\ Consumes(e, d) /\ Same(c, d, {"sum", "msg"})
<1>1. PICK d : d = Received(c, Incoming(e))
      OBVIOUS
<1>2. Gets(e, "HANDSHAKE_OVER", {"Data"}) /\ Consumes(e, d)
      BY <1>1 DEF ReadData
<1>3. At(e, "HANDSHAKE_OVER") /\ net[e] # <<>> /\ Incoming(e).msg = "Data"
      BY <1>2, GetsFacts
<1>4. Same(c, d, {"sum", "msg"})
      BY <1>1, TypedAt, ReceivedIs
<1> QED
  BY <1>2, <1>3, <1>4

\* A ClientHello the server does not want.
LEMMA HelloRefused ==
  ASSUME Typed, ReadHello, ~ conf.renegotiates, NEW c, c = ctx["server"]
  PROVE  \E d, m : /\ At("server", "HANDSHAKE_OVER") /\ net["server"] # <<>>
                   /\ Incoming("server").msg = "ClientHello" /\ Consumes("server", d)
                   /\ Same(c, d, {"sum", "msg", "out"})
                   /\ d.out = [key |-> c.tout, body |-> m] /\ m.msg = "NoRenegotiation"
<1>1. PICK m, r, d : /\ m = [msg |-> "NoRenegotiation"] /\ r = Received(c, Incoming("server"))
                     /\ d = Sent(r, m)
      OBVIOUS
<1>2. Gets("server", "HANDSHAKE_OVER", {"ClientHello"}) /\ Consumes("server", d)
      BY <1>1 DEF ReadHello
<1>3. /\ At("server", "HANDSHAKE_OVER") /\ net["server"] # <<>>
      /\ Incoming("server").msg = "ClientHello"
      BY <1>2, GetsFacts
<1>4. Same(c, r, {"sum", "msg"}) /\ Context(r) /\ r.tout = c.tout
      BY <1>1, TypedAt, ReceivedIs DEF End, Same, Fields
<1>5. Same(r, d, {"sum", "out"}) /\ d.out = [key |-> r.tout, body |-> m]
      BY <1>1, <1>4, SentIs
<1>6. Same(c, d, {"sum", "msg", "out"}) /\ d.out = [key |-> c.tout, body |-> m]
      BY <1>4, <1>5 DEF Same, Fields
<1>7. m.msg = "NoRenegotiation"
      BY <1>1
<1> QED
  BY <1>2, <1>3, <1>6, <1>7

-----------------------------------------------------------------------------
(* What a turn does for the two ends                                         *)

\* The record that is to be read next brings e to u.
HopDue(e, u) == net[e] # <<>> /\ ~ Writing(e, ctx[e])
                  => Hop(origin, Certs, e, Sees(e, ctx[e]), Head(net[e]), u)

\* e leaves the connection, and its alert does not come in the place of a Finished.
Dies(e, c, d) ==
  /\ Took(e, d) /\ d.end \notin {"no", "mac", "signature", "finished", "renegotiation"}
  /\ \/ d.out = c.out
     \/ /\ c.out = None /\ ~ Tells(e, c).due
        /\ d.out = [key |-> c.tout, body |-> [msg |-> "Fatal"]]

\* What e writes brings its peer to where e tells.
Works(e, c, d) ==
  /\ d.tin = c.tin /\ (Reading(e, d) => d.state \in WaitsOf(e))
  /\ \/ d.out = c.out /\ Tells(e, d) = Tells(e, c)
     \/ /\ c.out = None /\ d.out # None
        /\ Hop(origin, Certs, Other(e), Tells(e, c), d.out, Tells(e, d))

\* e says nothing, or nothing that its peer would mind.
Hushed(c, d) ==
  /\ d.tout = c.tout /\ d.own = c.own
  /\ \/ d.out = c.out
     \/ c.out = None /\ d.out # None /\ d.out.key = c.tout /\ Harmless(d.out.body)

\* What e has read brings it to u: it reads on, it is its turn, or it is a server that
\* does not want the ClientHello it has read.
Takes(e, c, u, d) ==
  /\ Hushed(c, d)
  /\ \/ ~ Writing(e, d) /\ Sees(e, d) = u
     \/ /\ Writing(e, d) /\ d.state # FinishedState(e)
        /\ u = Turned(d.tin, SumOf(e, d), d.dh, MasterOf(d))
     \/ /\ e = "server" /\ c.state = "HANDSHAKE_OVER" /\ d.state = "HANDSHAKE_OVER"
        /\ d.tin = c.tin /\ \E h : u = Turned(d.tin, <<h>>, None, None)

\* A turn of the one who writes, one of either that reads nothing, and one that reads.
Acts(e, c, d) == /\ Becomes(e, d) /\ Works(e, c, d)
                 /\ Writing(e, c) \/ (e = "client" /\ Idle(e, c))
Rests(e, c, d) ==
  /\ Becomes(e, d) /\ ~ Writing(e, c) /\ Takes(e, c, Sees(e, c), d)
  /\ c.state # "SERVER_HELLO" /\ (c.state = "HANDSHAKE_OVER" => d.state = "HANDSHAKE_OVER")
  /\ (Reading(e, c) => c.state \in WaitsOf(e)) => Works(e, c, d)
Learns(e, c, u, d) ==
  /\ net[e] # <<>> /\ Consumes(e, d) /\ ~ Writing(e, c) /\ Takes(e, c, u, d)
  /\ Harmless(Incoming(e)) => c.state = "HANDSHAKE_OVER" /\ Same(c, d, {"sum", "msg"})
Goes(e, c, u, d) == Acts(e, c, d) \/ Rests(e, c, d) \/ Learns(e, c, u, d)
Fares(e, c, u, d) ==
  \/ Dies(e, c, d)
  \/ d.end = "no" /\ Touch(e, d)' /\ Goes(e, c, u, d)

-----------------------------------------------------------------------------
(* What the turns have in common                                             *)

\* Numbers are drawn, and sessions negotiated.
LEMMA TouchLater ==
  ASSUME NEW e \in End, NEW d, Touch(e, d), UNCHANGED <<conf, who>>,
         nonce \in Nat, nonce' \in Nat, nonce <= nonce', origin \subseteq origin',
         e = "client" \/ origin' = origin \/ d.state \notin Turns
  PROVE  Touch(e, d)'
<1>1. \A s : Negotiated(s) => Negotiated(s)'
  BY DEF Negotiated
<1>2. IdsOf(origin) \subseteq IdsOf(origin')
  BY DEF IdsOf
<1>3. Own("client")' = Own("client") /\ Own("server")' = Own("server")
  BY DEF Own
<1>4. Ready(e, d)'
  BY <1>1, <1>2 DEF Touch, Ready
<1>5. Greets(e, d)'
  BY <1>1, <1>2 DEF Touch, Greets
<1>6. PeerMatches(e, d) => PeerMatches(e, d)'
  BY <1>3 DEF PeerMatches
<1>7. Matching(e, d)'
  <2>1. CASE d.state \notin Turns
    BY <2>1 DEF Matching
  <2>2. CASE d.state \in Turns
    <3>1. e = "client" \/ IdsOf(origin') = IdsOf(origin)
      BY <2>2 DEF IdsOf
    <3>2. e = "server" /\ ~ d.resume =>
            d.neg.id \in Nat /\ d.neg.id < nonce' /\ d.neg.id \notin IdsOf(origin')
      BY <2>2, <3>1 DEF Touch, Matching
    <3> QED BY <2>2, <3>2, <1>6 DEF Touch, Matching
  <2> QED BY <2>1, <2>2
<1> QED BY <1>4, <1>5, <1>7 DEF Touch

\* A turn by which no session comes to be negotiated.
LEMMA FaresOn ==
  ASSUME Typed, Typed', NEW e \in End, NEW c, NEW u, NEW d, d.end = "no", Touch(e, d),
         Goes(e, c, u, d), nonce' = nonce \/ nonce' = nonce + 1 \/ nonce' = nonce + 2,
         UNCHANGED <<conf, who, origin>>
  PROVE  Fares(e, c, u, d)
<1>1. nonce \in Nat /\ nonce' \in Nat /\ nonce <= nonce'
  BY DEF Typed
<1> QED BY <1>1, TouchLater DEF Fares

\* The end has a message to read: what is at the head of the net.
LEMMA HeadKey ==
  ASSUME NEW e, NEW s, NEW ms, Gets(e, s, ms), NEW c, c = ctx[e]
  PROVE  At(e, s) /\ net[e] # <<>> /\ Head(net[e]).key = ReadKey(e) /\ Incoming(e).msg \in ms
           /\ c.state = s /\ c.end = "no" /\ c.out = None
BY DEF Gets, At, Incoming

\* An end in its peer's turn, field by field.
LEMMA ReaderFields ==
  ASSUME NEW e \in End, NEW c, Reading(e, c),
         ~ (c.state = "SERVER_HELLO_DONE" /\ c.msg.msg = "ServerHelloDone"), NEW v, v = Sees(e, c)
  PROVE  /\ v.mode = "flight" /\ v.key = c.tin /\ (v.due <=> c.state = FinishedState(Other(e)))
         /\ v.info = <<c.peer>> /\ v.sum = c.sum /\ v.dh = c.dh /\ v.master = MasterOf(c)
<1> DEFINE due == c.state = FinishedState(Other(e))
<1>1. v = View("flight", c.tin, due, <<c.peer>>, c.sum, c.dh, MasterOf(c))
  BY ReaderViews
<1>2. due <=> c.state = FinishedState(Other(e))
  OBVIOUS
<1> HIDE DEF due
<1>3. /\ v.mode = "flight" /\ v.key = c.tin /\ v.due = due
      /\ v.info = <<c.peer>> /\ v.sum = c.sum /\ v.dh = c.dh /\ v.master = MasterOf(c)
  BY <1>1, ViewIs
<1> QED BY <1>2, <1>3

\* An end in its turn, field by field.
LEMMA WriterFields ==
  ASSUME NEW e \in End, NEW c, c.state \in TurnsOf(e), NEW v, v = Tells(e, c)
  PROVE  /\ v.mode = "flight" /\ v.key = c.tout /\ (v.due <=> c.state = FinishedState(e))
         /\ v.info = <<c.own>> /\ v.sum = c.sum /\ v.dh = c.dh /\ v.master = MasterOf(c)
<1> DEFINE due == c.state = FinishedState(e)
<1>1. v = View("flight", c.tout, due, <<c.own>>, c.sum, c.dh, MasterOf(c))
  BY WriterTells
<1>2. due <=> c.state = FinishedState(e)
  OBVIOUS
<1> HIDE DEF due
<1>3. /\ v.mode = "flight" /\ v.key = c.tout /\ v.due = due
      /\ v.info = <<c.own>> /\ v.sum = c.sum /\ v.dh = c.dh /\ v.master = MasterOf(c)
  BY <1>1, ViewIs
<1> QED BY <1>2, <1>3

\* A message of the handshake can only come where it is due.
LEMMA HopFlight ==
  ASSUME NEW known, NEW cert, NEW e, NEW v, NEW r, NEW u, Hop(known, cert, e, v, r, u),
         v.mode = "flight", ~ Harmless(r.body)
  PROVE  IF v.due THEN FinishedHop(e, v, r, u) ELSE MessageHop(known, cert, e, v, r, u)
BY DEF Hop, HarmlessHop, HelloHop, MessageHop, FinishedHop

\* Nothing but a ClientHello comes between handshakes.
LEMMA HopCalm ==
  ASSUME NEW known, NEW cert, NEW e, NEW v, NEW r, NEW u, Hop(known, cert, e, v, r, u),
         v.mode = "calm"
  PROVE  HarmlessHop(v, r, u) \/ HelloHop(known, e, v, r, u)
BY DEF Hop, MessageHop, FinishedHop

\* No Finished is due.
LEMMA NotDue ==
  ASSUME NEW mode, NEW key, NEW info, NEW sum, NEW dh, NEW master, NEW v,
         v = View(mode, key, FALSE, info, sum, dh, master)
  PROVE  ~ v.due
BY DEF View

\* No Finished is due of an end that leaves.
LEMMA LeavesDies ==
  ASSUME NEW e \in End, NEW c, c.out = None, c.state \in Named, c.state # FinishedState(e),
         NEW d, NEW why, Leaves(e, c, d, why),
         why \notin {"no", "mac", "signature", "finished", "renegotiation"}
  PROVE  Dies(e, c, d)
<1>1. ~ Tells(e, c).due
  <2>1. CASE Idle(e, c)
    <3>1. PICK info : Tells(e, c) = View("calm", c.tout, FALSE, info, <<>>, None, None)
      BY <2>1, IdleViews DEF Calm
    <3> QED BY <3>1, NotDue
  <2>2. CASE Reading(e, c)
    <3>1. Tells(e, c) = View("done", c.tout, FALSE, <<>>, c.sum, c.dh, MasterOf(c))
      BY <2>2, ReaderViews DEF Turned
    <3> QED BY <3>1, NotDue
  <2>3. CASE c.state \in TurnsOf(e)
    BY <2>3, WriterFields
  <2>4. CASE Called(e, c)
    <3>1. Tells(e, c) = View("flight", c.tout, FALSE, <<c.own>>, <<c.msg>>, c.dh, None)
      BY <2>4, CalledTells
    <3> QED BY <3>1, NotDue
  <2> QED BY <2>1, <2>2, <2>3, <2>4, TurnsApart
<1> QED BY <1>1 DEF Dies, Leaves

\* An end that goes on with its turn, and says m.
LEMMA UttersOn ==
  ASSUME NEW e \in End, NEW c, c.state \in TurnsOf(e), c.out = None, NEW d, d.state \in TurnsOf(e),
         NEW m, NEW F, Utters(e, c, d, m, F), F \cap {"tin", "tout", "own"} = {},
         \A key, body : [key |-> key, body |-> body] # None,
         Hop(origin, Certs, Other(e), Tells(e, c), d.out,
             View("flight", c.tout, d.state = FinishedState(e), <<c.own>>, With(c.sum, m), d.dh,
                  MasterOf(d)))
  PROVE  Acts(e, c, d)
<1>1. d.tin = c.tin /\ d.tout = c.tout /\ d.own = c.own /\ Becomes(e, d)
  BY DEF Utters, Same, Fields
<1>2. Tells(e, d) = View("flight", c.tout, d.state = FinishedState(e), <<c.own>>, With(c.sum, m),
                         d.dh, MasterOf(d))
  <2>1. d.sum = With(c.sum, m)
    BY DEF Utters
  <2> QED BY <1>1, <2>1, WriterTells
<1>3. d.out # None
  BY DEF Utters
<1>4. Writing(e, c) /\ ~ Reading(e, d)
  BY TurnsApart
<1> QED BY <1>1, <1>2, <1>3, <1>4 DEF Acts, Works

\* An end that goes on with its turn, and says nothing.
LEMMA PassesOn ==
  ASSUME NEW e \in End, NEW c, c.state \in TurnsOf(e), NEW d, d.state \in TurnsOf(e),
         NEW F, Passes(e, c, d, F), F \subseteq {"verify"},
         c.state \in Keyed <=> d.state \in Keyed,
         c.state # FinishedState(e), d.state # FinishedState(e)
  PROVE  Acts(e, c, d)
<1>1. /\ d.tin = c.tin /\ d.tout = c.tout /\ d.own = c.own /\ d.sum = c.sum /\ d.dh = c.dh
      /\ d.neg = c.neg /\ d.out = c.out /\ Becomes(e, d)
  BY DEF Passes, Same, Fields
<1>2. MasterOf(d) = MasterOf(c)
  BY <1>1 DEF MasterOf
<1>3. Tells(e, d) = Tells(e, c)
  <2> DEFINE V(due) == View("flight", c.tout, due, <<c.own>>, c.sum, c.dh, MasterOf(c))
  <2>1. Tells(e, c) = V(c.state = FinishedState(e))
    BY WriterTells
  <2>2. Tells(e, d) = V(d.state = FinishedState(e))
    BY <1>1, <1>2, WriterTells
  <2>3. (c.state = FinishedState(e)) = (d.state = FinishedState(e))
    OBVIOUS
  <2> HIDE DEF V
  <2> QED BY <2>1, <2>2, <2>3, Zenon
<1>4. Writing(e, c) /\ ~ Reading(e, d)
  BY TurnsApart
<1> QED BY <1>1, <1>3, <1>4 DEF Acts, Works

\* An end that reads on.
LEMMA HeedsOn ==
  ASSUME NEW e \in End, NEW c, Reading(e, c), NEW d, Reading(e, d),
         ~ (d.state = "SERVER_HELLO_DONE" /\ d.msg.msg = "ServerHelloDone"),
         NEW m, NEW F, Heeds(e, c, d, m, F), F \cap {"tin", "tout", "own", "peer", "out"} = {},
         ~ Harmless(m), NEW u,
         u = View("flight", c.tin, d.state = FinishedState(Other(e)), <<c.peer>>, With(c.sum, m),
                  d.dh, MasterOf(d))
  PROVE  Learns(e, c, u, d)
<1>1. /\ d.tin = c.tin /\ d.tout = c.tout /\ d.own = c.own /\ d.peer = c.peer /\ d.out = c.out
      /\ d.sum = With(c.sum, m)
  BY DEF Heeds, Same, Fields
<1>2. Sees(e, d) = u
  BY <1>1, ReaderViews
<1>3. ~ Writing(e, c) /\ ~ Writing(e, d)
  BY TurnsApart
<1>4. Takes(e, c, u, d)
  BY <1>1, <1>2, <1>3 DEF Takes, Hushed
<1> QED BY <1>3, <1>4 DEF Learns, Heeds

\* An end whose turn it is now.
LEMMA HeedsTurned ==
  ASSUME NEW e \in End, NEW c, Reading(e, c), NEW d, d.state \in TurnsOf(e),
         d.state # FinishedState(e),
         NEW m, NEW F, Heeds(e, c, d, m, F), F \cap {"tin", "tout", "own", "out"} = {},
         ~ Harmless(m), NEW u, u = Turned(c.tin, With(c.sum, m), d.dh, MasterOf(d))
  PROVE  Learns(e, c, u, d)
<1>1. /\ d.tin = c.tin /\ d.tout = c.tout /\ d.own = c.own /\ d.out = c.out
      /\ d.sum = With(c.sum, m)
  BY DEF Heeds, Same, Fields
<1>2. ~ Writing(e, c) /\ Writing(e, d) /\ SumOf(e, d) = d.sum
  BY TurnsApart DEF SumOf
<1>3. Takes(e, c, u, d)
  BY <1>1, <1>2 DEF Takes, Hushed
<1> QED BY <1>2, <1>3 DEF Learns, Heeds

\* The hellos are in the transcript.
LEMMA HellosIn ==
  ASSUME AgreeInv, NEW e \in End, NEW c, c = ctx[e], c.end = "no"
  PROVE  /\ Context(c) /\ c.state \in Named /\ HelloSecond(c) /\ ResumesShort(c) /\ Sequence(c.sum)
         /\ c.state \in Turns => /\ Len(c.sum) >= 2 /\ c.state \notin {"HANDSHAKE_OVER"} \cup Early
                                 /\ c.sum[2].id = c.neg.id /\ c.sum[2].suite = c.neg.suite
<1>1. HelloSecond(c) /\ ResumesShort(c)
  BY ShortWay DEF AgreeInv
<1>2. Context(c) /\ c.state \in Named
  BY TypedAt DEF AgreeInv, ContextOK
<1>3. Sequence(c.sum)
  BY DEF AgreeInv, IInv, EndOK, Shape
<1>4. c.state \in Turns => c.state \notin {"HANDSHAKE_OVER"} \cup Early
  BY DEF Turns, TurnsOf, Early
<1> QED BY <1>1, <1>2, <1>3, <1>4 DEF HelloSecond, Early

\* They stay there.
LEMMA HellosKept ==
  ASSUME AgreeInv, NEW e \in End, NEW c, c = ctx[e], c.end = "no", c.state \in Turns,
         NEW s, s = c.sum \/ \E m : s = With(c.sum, m)
  PROVE  s[1] = c.sum[1] /\ s[2] = c.sum[2]
<1>1. Sequence(c.sum) /\ Len(c.sum) >= 2
  BY HellosIn
<1>2. Len(c.sum) \in Nat
  BY <1>1, AppendTo
<1> QED BY <1>1, <1>2, WithKeeps

\* A turn between the hellos and the end of a handshake.
LEMMA TouchOn ==
  ASSUME AgreeInv, NEW e \in End, NEW c, c = ctx[e], c.end = "no", c.state \in Turns, Touch(e, c),
         NEW d, d.state \in Turns, d.resume = c.resume, d.max = c.max, d.minor = c.minor,
         d.neg.id = c.neg.id, Blank(d), d.sum = c.sum \/ \E m : d.sum = With(c.sum, m),
         KeysMatch(d), PeerMatches(e, d), HalfMatches(e, d)
  PROVE  Touch(e, d)
<1>1. d.sum[1] = c.sum[1] /\ d.sum[2] = c.sum[2]
  BY HellosKept
<1>2. Ready(e, d) /\ Greets(e, d)
  BY DEF Ready, Greets, Waking, Turns, TurnsOf
<1>3. Matching(e, d)
  BY <1>1 DEF Touch, Matching, Resumed
<1> QED BY <1>2, <1>3 DEF Touch

\* The keys stay what they are.
LEMMA KeysOn ==
  ASSUME AgreeInv, NEW e \in End, NEW c, c = ctx[e], c.end = "no", c.state \in Turns, Touch(e, c),
         NEW d, d.sum = c.sum \/ \E m : d.sum = With(c.sum, m),
         d.state \in Keyed <=> c.state \in Keyed, d.neg.master = c.neg.master,
         d.tneg = c.tneg, d.rc = c.rc, d.rs = c.rs
  PROVE  KeysMatch(d) /\ MasterOf(d) = MasterOf(c)
<1>1. d.sum[1] = c.sum[1] /\ d.sum[2] = c.sum[2]
  BY HellosKept
<1>2. KeysMatch(c)
  BY DEF Touch, Matching
<1> QED BY <1>1, <1>2 DEF KeysMatch, MasterOf

\* What a turn of Passes, Utters or Heeds leaves of that.
LEMMA TurnOn ==
  ASSUME AgreeInv, NEW e \in End, NEW c, c = ctx[e], c.end = "no", c.state \in Turns, Touch(e, c),
         NEW d, NEW F, F \cap {"resume", "max", "minor", "tneg", "rc", "rs", "tin", "tout", "own",
                               "peer", "end", "sum"} = {},
         NEW m, Passes(e, c, d, F) \/ Utters(e, c, d, m, F) \/ Heeds(e, c, d, m, F),
         "neg" \notin F \/ (d.neg.id = c.neg.id /\ d.neg.master = c.neg.master),
         d.state \in Turns, d.state \in Keyed <=> c.state \in Keyed,
         PeerMatches(e, d), HalfMatches(e, d)
  PROVE  Touch(e, d) /\ d.end = "no" /\ MasterOf(d) = MasterOf(c)
<1>1. /\ d.resume = c.resume /\ d.max = c.max /\ d.minor = c.minor /\ d.tneg = c.tneg
      /\ d.rc = c.rc /\ d.rs = c.rs /\ d.tin = c.tin /\ d.tout = c.tout /\ d.own = c.own
      /\ d.peer = c.peer /\ d.end = c.end
  <2> DEFINE G == {"resume", "max", "minor", "tneg", "rc", "rs", "tin", "tout", "own", "peer", "end"}
  <2>1. G \subseteq Fields \ ({"state", "sum", "out", "msg"} \cup F)
    BY DEF Fields
  <2>2. \A f \in G : d[f] = c[f]
    BY <2>1 DEF Passes, Utters, Heeds, Same
  <2> QED BY <2>2
<1>2. d.neg.id = c.neg.id /\ d.neg.master = c.neg.master
  <2>1. "neg" \notin F => d.neg = c.neg
    BY DEF Passes, Utters, Heeds, Same, Fields
  <2> QED BY <2>1
<1>3. d.sum = c.sum \/ \E x : d.sum = With(c.sum, x)
  <2>1. Passes(e, c, d, F) => d.sum = c.sum
    BY DEF Passes, Same, Fields
  <2> QED BY <2>1 DEF Utters, Heeds
<1>4. KeysMatch(d) /\ MasterOf(d) = MasterOf(c)
  BY <1>1, <1>2, <1>3, KeysOn
<1>5. Blank(d)
  BY <1>1 DEF Touch, Blank
<1> QED BY <1>1, <1>2, <1>3, <1>4, <1>5, TouchOn

-----------------------------------------------------------------------------
(* The turns that write                                                      *)

\* What is known of the end that moves.
Poised(e, c) == /\ NullIsNull /\ AgreeInv /\ PeerInv /\ Identified /\ Typed'
                /\ c = ctx[e] /\ Touch(e, c)

\* What is known of an end in its turn.
LEMMA PoisedAt ==
  ASSUME NEW e \in End, NEW c, Poised(e, c), NEW s, At(e, s)
  PROVE  /\ Typed /\ Typed' /\ c = ctx[e] /\ c.state = s /\ c.end = "no" /\ c.out = None
         /\ AgreeInv /\ Touch(e, c) /\ Context(c) /\ c.state \in Named
         /\ \A key, body : [key |-> key, body |-> body] # None
<1>1. AgreeInv /\ c = ctx[e] /\ c.state = s /\ c.end = "no" /\ c.out = None
  BY DEF Poised, At
<1> QED BY <1>1, HellosIn DEF Poised, AgreeInv, NullIsNull

\* A message that its peer expects.
LEMMA UtterActs ==
  ASSUME \A key, body : [key |-> key, body |-> body] # None,
         NEW e \in End, NEW c, c.state \in TurnsOf(e), c.out = None, c.state # FinishedState(e),
         NEW d, d.state \in TurnsOf(e), d.state # FinishedState(e), NEW m, NEW F,
         Utters(e, c, d, m, F), F \cap {"tin", "tout", "own"} = {},
         NEW v, v = Tells(e, c), Continues(origin, Certs, Other(e), v, m, d.dh, MasterOf(d))
  PROVE  Acts(e, c, d)
<1> DEFINE u == View("flight", c.tout, FALSE, <<c.own>>, With(c.sum, m), d.dh, MasterOf(d))
<1>1. v.mode = "flight" /\ v.key = c.tout /\ ~ v.due /\ v.info = <<c.own>> /\ v.sum = c.sum
  BY WriterFields
<1>2. d.out.key = c.tout /\ d.out.body = m
  BY DEF Utters
<1>3. MessageHop(origin, Certs, Other(e), v, d.out, u)
  BY <1>1, <1>2 DEF MessageHop
<1>4. Hop(origin, Certs, Other(e), Tells(e, c), d.out, u)
  BY <1>3 DEF Hop
<1>5. (d.state = FinishedState(e)) = FALSE
  OBVIOUS
<1>6. Hop(origin, Certs, Other(e), Tells(e, c), d.out,
          View("flight", c.tout, d.state = FinishedState(e), <<c.own>>, With(c.sum, m), d.dh,
               MasterOf(d)))
  BY <1>4, <1>5
<1> QED BY <1>6, UttersOn

\* The certificate of an end.
LEMMA CertsAre == Certs["client"] = Own("client") /\ Certs["server"] = Own("server")
                    /\ Own("server") = conf.scert
BY DEF Certs, End, Own

\* ssl_write_certificate.
LEMMA WriteCertificateFares ==
  ASSUME NEW e \in End, NEW c, Poised(e, c), NEW u, WriteCertificate(e)
  PROVE  \E d : Fares(e, c, u, d)
<1>1. At(e, CertificateState(e)) /\ nonce' = nonce /\ UNCHANGED <<conf, who, origin>>
  BY DEF WriteCertificate, envVars
<1>2. /\ Typed /\ Typed' /\ c = ctx[e] /\ c.state = CertificateState(e) /\ c.end = "no"
      /\ c.out = None /\ AgreeInv /\ Touch(e, c) /\ c.state \in Named
      /\ \A key, body : [key |-> key, body |-> body] # None
  BY <1>1, PoisedAt
<1>3. PICK d : \/ e = "client" /\ Passes(e, c, d, {})
               \/ Leaves(e, c, d, "nocert")
               \/ \E m : /\ Utters(e, c, d, m, {})
                         /\ \/ /\ m.msg = "Certificate" /\ m.cert = Own(e)
                               /\ e = "server" => m.cert # None
                            \/ m.msg = "NoCertificate" /\ e = "client"
  BY <1>2, CertificateWritten
<1>4. /\ c.state \in TurnsOf(e) /\ c.state \in Turns /\ c.state # FinishedState(e)
      /\ c.state \notin Keyed /\ Following(c.state) \notin Keyed
      /\ Following(c.state) \in TurnsOf(e) \cap Turns /\ Following(c.state) # FinishedState(e)
  BY <1>2, ServerStates DEF End, CertificateState, TurnsOf, Turns, FinishedState, Keyed
<1>5. ASSUME NEW m, Passes(e, c, d, {}) \/ Utters(e, c, d, m, {})
      PROVE  Touch(e, d) /\ d.end = "no" /\ MasterOf(d) = MasterOf(c) /\ d.dh = c.dh
             /\ d.state = Following(c.state)
  <2>1. d.neg = c.neg /\ d.dh = c.dh /\ d.state = Following(c.state)
    BY <1>5 DEF Passes, Utters, Same, Fields
  <2>2. PeerMatches(e, c) /\ HalfMatches(e, c)
    BY <1>2, <1>4 DEF Touch, Matching
  <2>3. PeerMatches(e, d)
    BY <2>1, <2>2, <1>2, ServerStates DEF PeerMatches, CertificateState, Informed
  <2>4. HalfMatches(e, d)
    BY <2>1, <2>2, <1>2, ServerStates DEF HalfMatches, CertificateState, End
  <2> QED BY <1>5, <2>1, <2>3, <2>4, <1>2, <1>4, TurnOn
<1>6. CASE Passes(e, c, d, {})
  <2>1. Acts(e, c, d)
    BY <1>6, <1>5, <1>4, PassesOn
  <2> QED BY <2>1, <1>5, <1>6, <1>1, <1>2, FaresOn DEF Goes
<1>7. CASE Leaves(e, c, d, "nocert")
  <2>1. Dies(e, c, d)
    BY <1>7, <1>2, <1>4, LeavesDies
  <2> QED BY <2>1 DEF Fares
<1>8. ASSUME NEW m, Utters(e, c, d, m, {}),
             \/ m.msg = "Certificate" /\ m.cert = Own(e) /\ (e = "server" => m.cert # None)
             \/ m.msg = "NoCertificate" /\ e = "client"
      PROVE  Fares(e, c, u, d)
  <2> DEFINE v == Tells(e, c)
  <2>1. v.dh = c.dh /\ v.master = MasterOf(c)
    BY <1>4, WriterFields
  <2>2. Certs[Other(Other(e))] = Own(e) /\ (Other(e) = "client" <=> e = "server")
        /\ (Other(e) = "server" <=> e = "client")
    BY CertsAre DEF Other, End
  <2>3. Continues(origin, Certs, Other(e), v, m, d.dh, MasterOf(d))
    BY <2>1, <2>2, <1>5, <1>8 DEF Continues
  <2>4. Acts(e, c, d)
    BY <2>3, <1>8, <1>5, <1>4, <1>2, UtterActs
  <2> QED BY <2>4, <1>5, <1>8, <1>1, <1>2, FaresOn DEF Goes
<1> QED BY <1>3, <1>6, <1>7, <1>8

\* What neither session nor certificate nor DHE half has changed by goes on to match.
LEMMA MatchesOn ==
  ASSUME NEW e \in End, NEW c, Touch(e, c), c.state \in Turns, NEW d, d.neg = c.neg, d.dh = c.dh,
         e = "client" => (d.state \in Informed => c.state \in Informed),
         e = "server" => (d.state \in Informed \cup {"SERVER_CERTIFICATE", "CERTIFICATE_VERIFY"}
                       => c.state \in Informed \cup {"SERVER_CERTIFICATE", "CERTIFICATE_VERIFY"}),
         d.state \notin {"SERVER_CERTIFICATE", "SERVER_KEY_EXCHANGE"},
         e = "client" => d.state # "CERTIFICATE_REQUEST"
  PROVE  PeerMatches(e, d) /\ HalfMatches(e, d)
BY DEF Touch, Matching, PeerMatches, HalfMatches

\* ssl_write_server_key_exchange.
LEMMA WriteServerKeyExchangeFares ==
  ASSUME NEW c, Poised("server", c), NEW u, WriteServerKeyExchange
  PROVE  \E d : Fares("server", c, u, d)
<1>1. /\ At("server", "SERVER_KEY_EXCHANGE") /\ (nonce' = nonce + 1 \/ nonce' = nonce + 0)
      /\ UNCHANGED <<conf, who, origin>> /\ "server" \in End
  BY DEF WriteServerKeyExchange, envVars, Draws, End
<1>2. /\ Typed /\ Typed' /\ c = ctx["server"] /\ c.state = "SERVER_KEY_EXCHANGE" /\ c.end = "no"
      /\ c.out = None /\ AgreeInv /\ Touch("server", c) /\ c.state \in Named
      /\ \A key, body : [key |-> key, body |-> body] # None
  BY <1>1, PoisedAt
<1>3. PICK d : \/ c.neg.suite \notin DHE /\ Passes("server", c, d, {})
               \/ /\ c.neg.suite \in DHE /\ d.dh = nonce
                  /\ \E m : /\ Utters("server", c, d, m, {"dh"})
                            /\ m.msg = "ServerKeyExchange" /\ m.dh = nonce /\ m.by = conf.scert
                            /\ m.signed = <<c.rc, c.rs, nonce>>
  BY <1>2, ServerKeyExchangeWritten
<1>4. /\ c.state \in TurnsOf("server") /\ c.state \in Turns /\ c.state # FinishedState("server")
      /\ c.state \notin Keyed /\ Following(c.state) \notin Keyed
      /\ Following(c.state) = "CERTIFICATE_REQUEST"
      /\ Following(c.state) \in TurnsOf("server") \cap Turns
      /\ Following(c.state) # FinishedState("server")
  BY <1>2, ServerStates DEF TurnsOf, Turns, FinishedState, Keyed
<1>5. ASSUME NEW m, Passes("server", c, d, {}) \/ Utters("server", c, d, m, {"dh"})
      PROVE  Touch("server", d) /\ d.end = "no" /\ MasterOf(d) = MasterOf(c)
             /\ d.state = Following(c.state)
  <2>1. d.neg = c.neg /\ d.state = Following(c.state)
    BY <1>5 DEF Passes, Utters, Same, Fields
  <2>2. PeerMatches("server", c)
    BY <1>2, <1>4 DEF Touch, Matching
  <2>3. PeerMatches("server", d)
    BY <2>1, <2>2, <1>2, <1>4 DEF PeerMatches, Informed
  <2>4. HalfMatches("server", d)
    BY <2>1, <1>4 DEF HalfMatches
  <2>5. CASE Passes("server", c, d, {})
    BY <2>5, <2>1, <2>3, <2>4, <1>1, <1>2, <1>4, TurnOn
  <2>6. CASE Utters("server", c, d, m, {"dh"})
    BY <2>6, <2>1, <2>3, <2>4, <1>1, <1>2, <1>4, TurnOn
  <2> QED BY <1>5, <2>5, <2>6
<1>6. nonce \in Nat /\ nonce # None /\ (nonce' = nonce \/ nonce' = nonce + 1)
  BY <1>1, <1>2 DEF Typed, Poised, NullIsNull, NullIsNothing
<1>7. CASE Passes("server", c, d, {})
  <2>1. Acts("server", c, d)
    BY <1>7, <1>5, <1>4, <1>1, PassesOn
  <2> QED BY <2>1, <1>5, <1>7, <1>6, <1>1, <1>2, FaresOn DEF Goes
<1>8. ASSUME NEW m, Utters("server", c, d, m, {"dh"}), c.neg.suite \in DHE, d.dh = nonce,
             m.msg = "ServerKeyExchange", m.dh = nonce, m.by = conf.scert,
             m.signed = <<c.rc, c.rs, nonce>>
      PROVE  Fares("server", c, u, d)
  <2> DEFINE v == Tells("server", c)
  <2>1. v.dh = c.dh /\ v.master = MasterOf(c) /\ v.sum = c.sum
    BY <1>4, <1>1, WriterFields
  <2>2. c.sum[2].suite = c.neg.suite
    BY <1>1, <1>2, <1>4, HellosIn
  <2>3. c.dh = None /\ c.rc = c.sum[1].random /\ c.rs = c.sum[2].random
    BY <1>2, <1>4 DEF Touch, Matching, HalfMatches, KeysMatch
  <2>4. Signs(Certs, v, m)
    BY <2>1, <2>2, <2>3, <1>8, <1>6, CertsAre DEF Signs
  <2>5. Continues(origin, Certs, Other("server"), v, m, d.dh, MasterOf(d))
    BY <2>1, <2>4, <1>5, <1>8 DEF Continues, Other
  <2>6. Acts("server", c, d)
    BY <2>5, <1>8, <1>5, <1>4, <1>2, <1>1, UtterActs
  <2> QED BY <2>6, <1>5, <1>8, <1>6, <1>1, <1>2, FaresOn DEF Goes
<1> QED BY <1>3, <1>7, <1>8

\* ssl_write_certificate_request.
LEMMA WriteCertificateRequestFares ==
  ASSUME NEW c, Poised("server", c), NEW u, WriteCertificateRequest
  PROVE  \E d : Fares("server", c, u, d)
<1>1. /\ At("server", "CERTIFICATE_REQUEST") /\ nonce' = nonce
      /\ UNCHANGED <<conf, who, origin>> /\ "server" \in End
  BY DEF WriteCertificateRequest, envVars, End
<1>2. /\ Typed /\ Typed' /\ c = ctx["server"] /\ c.state = "CERTIFICATE_REQUEST" /\ c.end = "no"
      /\ c.out = None /\ AgreeInv /\ Touch("server", c) /\ c.state \in Named
      /\ \A key, body : [key |-> key, body |-> body] # None
  BY <1>1, PoisedAt
<1>3. PICK d : \/ Passes("server", c, d, {})
               \/ \E m : Utters("server", c, d, m, {}) /\ m.msg = "CertificateRequest"
  BY <1>2, CertificateRequestWritten
<1>4. /\ c.state \in TurnsOf("server") /\ c.state \in Turns /\ c.state # FinishedState("server")
      /\ c.state \notin Keyed /\ Following(c.state) \notin Keyed
      /\ Following(c.state) = "SERVER_HELLO_DONE"
      /\ Following(c.state) \in TurnsOf("server") \cap Turns
      /\ Following(c.state) # FinishedState("server")
  BY <1>2, ServerStates DEF TurnsOf, Turns, FinishedState, Keyed
<1>5. ASSUME NEW m, Passes("server", c, d, {}) \/ Utters("server", c, d, m, {})
      PROVE  Touch("server", d) /\ d.end = "no" /\ MasterOf(d) = MasterOf(c) /\ d.dh = c.dh
             /\ d.state = Following(c.state)
  <2>1. d.neg = c.neg /\ d.state = Following(c.state) /\ d.dh = c.dh
    BY <1>5 DEF Passes, Utters, Same, Fields
  <2>2. PeerMatches("server", d) /\ HalfMatches("server", d)
    BY <2>1, <1>1, <1>2, <1>4, MatchesOn DEF Informed
  <2> QED BY <1>5, <2>1, <2>2, <1>1, <1>2, <1>4, TurnOn
<1>6. CASE Passes("server", c, d, {})
  <2>1. Acts("server", c, d)
    BY <1>6, <1>5, <1>4, <1>1, PassesOn
  <2> QED BY <2>1, <1>5, <1>6, <1>1, <1>2, FaresOn DEF Goes
<1>7. ASSUME NEW m, Utters("server", c, d, m, {}), m.msg = "CertificateRequest"
      PROVE  Fares("server", c, u, d)
  <2> DEFINE v == Tells("server", c)
  <2>1. v.dh = c.dh /\ v.master = MasterOf(c)
    BY <1>4, <1>1, WriterFields
  <2>2. Continues(origin, Certs, Other("server"), v, m, d.dh, MasterOf(d))
    BY <2>1, <1>5, <1>7 DEF Continues, Other
  <2>3. Acts("server", c, d)
    BY <2>2, <1>7, <1>5, <1>4, <1>2, <1>1, UtterActs
  <2> QED BY <2>3, <1>5, <1>7, <1>1, <1>2, FaresOn DEF Goes
<1> QED BY <1>3, <1>6, <1>7

\* ssl_write_certificate_verify.
LEMMA WriteCertificateVerifyFares ==
  ASSUME NEW c, Poised("client", c), NEW u, WriteCertificateVerify
  PROVE  \E d : Fares("client", c, u, d)
<1>1. /\ At("client", "CERTIFICATE_VERIFY") /\ nonce' = nonce
      /\ UNCHANGED <<conf, who, origin>> /\ "client" \in End
  BY DEF WriteCertificateVerify, envVars, End
<1>2. /\ Typed /\ Typed' /\ c = ctx["client"] /\ c.state = "CERTIFICATE_VERIFY" /\ c.end = "no"
      /\ c.out = None /\ AgreeInv /\ Touch("client", c) /\ c.state \in Named
      /\ \A key, body : [key |-> key, body |-> body] # None
  BY <1>1, PoisedAt
<1>3. PICK d : \/ Passes("client", c, d, {})
               \/ \E m : /\ Utters("client", c, d, m, {})
                         /\ m.msg = "CertificateVerify" /\ m.signed = c.sum /\ m.by = Own("client")
  BY <1>2, CertificateVerifyWritten
<1>4. /\ c.state \in TurnsOf("client") /\ c.state \in Turns /\ c.state # FinishedState("client")
      /\ c.state \in Keyed /\ Following(c.state) \in Keyed
      /\ Following(c.state) = "CLIENT_CHANGE_CIPHER_SPEC"
      /\ Following(c.state) \in TurnsOf("client") \cap Turns
      /\ Following(c.state) # FinishedState("client")
  BY <1>2, ServerStates DEF TurnsOf, Turns, FinishedState, Keyed
<1>5. ASSUME NEW m, Passes("client", c, d, {}) \/ Utters("client", c, d, m, {})
      PROVE  Touch("client", d) /\ d.end = "no" /\ MasterOf(d) = MasterOf(c) /\ d.dh = c.dh
             /\ d.state = Following(c.state)
  <2>1. d.neg = c.neg /\ d.state = Following(c.state) /\ d.dh = c.dh
    BY <1>5 DEF Passes, Utters, Same, Fields
  <2>2. PeerMatches("client", d) /\ HalfMatches("client", d)
    BY <2>1, <1>1, <1>2, <1>4, MatchesOn DEF Informed
  <2> QED BY <1>5, <2>1, <2>2, <1>1, <1>2, <1>4, TurnOn
<1>6. CASE Passes("client", c, d, {})
  <2>1. Acts("client", c, d)
    BY <1>6, <1>5, <1>4, <1>1, PassesOn
  <2> QED BY <2>1, <1>5, <1>6, <1>1, <1>2, FaresOn DEF Goes
<1>7. ASSUME NEW m, Utters("client", c, d, m, {}), m.msg = "CertificateVerify",
             m.signed = c.sum, m.by = Own("client")
      PROVE  Fares("client", c, u, d)
  <2> DEFINE v == Tells("client", c)
  <2>1. v.dh = c.dh /\ v.master = MasterOf(c) /\ v.sum = c.sum
    BY <1>4, <1>1, WriterFields
  <2>2. Continues(origin, Certs, Other("client"), v, m, d.dh, MasterOf(d))
    BY <2>1, <1>5, <1>7, CertsAre DEF Continues, Other
  <2>3. Acts("client", c, d)
    BY <2>2, <1>7, <1>5, <1>4, <1>2, <1>1, UtterActs
  <2> QED BY <2>3, <1>5, <1>7, <1>1, <1>2, FaresOn DEF Goes
<1> QED BY <1>3, <1>6, <1>7

\* ssl_write_server_hello_done.
LEMMA WriteServerHelloDoneFares ==
  ASSUME NEW c, Poised("server", c), NEW u, WriteServerHelloDone
  PROVE  \E d : Fares("server", c, u, d)
<1>1. /\ At("server", "SERVER_HELLO_DONE") /\ nonce' = nonce
      /\ UNCHANGED <<conf, who, origin>> /\ "server" \in End
  BY DEF WriteServerHelloDone, envVars, End
<1>2. /\ Typed /\ Typed' /\ c = ctx["server"] /\ c.state = "SERVER_HELLO_DONE" /\ c.end = "no"
      /\ c.out = None /\ AgreeInv /\ Touch("server", c) /\ c.state \in Named
      /\ \A key, body : [key |-> key, body |-> body] # None
  BY <1>1, PoisedAt
<1>3. PICK d, m : Utters("server", c, d, m, {}) /\ m.msg = "ServerHelloDone"
  BY <1>2, ServerHelloDoneWritten
<1>4. /\ c.state \in TurnsOf("server") /\ c.state \in Turns /\ c.state # FinishedState("server")
      /\ c.state \notin Keyed /\ Following(c.state) \notin Keyed
      /\ Following(c.state) = "CLIENT_CERTIFICATE" /\ Following(c.state) \in Turns
      /\ Following(c.state) \in WaitsOf("server") /\ Following(c.state) \in TurnsOf("client")
  BY <1>2, ServerStates DEF TurnsOf, WaitsOf, Turns, FinishedState, Keyed
<1>5. /\ d.neg = c.neg /\ d.state = Following(c.state) /\ d.dh = c.dh /\ d.tin = c.tin
      /\ d.tout = c.tout /\ d.sum = With(c.sum, m) /\ d.out = [key |-> c.tout, body |-> m]
      /\ Becomes("server", d)
  BY <1>3 DEF Utters, Same, Fields
<1>6. PeerMatches("server", d) /\ HalfMatches("server", d)
  BY <1>5, <1>1, <1>2, <1>4, MatchesOn DEF Informed
<1>7. Touch("server", d) /\ d.end = "no" /\ MasterOf(d) = MasterOf(c)
  BY <1>3, <1>5, <1>6, <1>1, <1>2, <1>4, TurnOn
<1> DEFINE v == Tells("server", c)
<1>8. v.mode = "flight" /\ ~ v.due /\ v.key = c.tout /\ v.dh = c.dh /\ v.master = MasterOf(c)
      /\ v.sum = c.sum
  BY <1>4, <1>1, WriterFields
<1>9. Reading("server", d) /\ Writing("server", c)
  BY <1>4, <1>5, <1>1, TurnsApart DEF Reading, Other
<1>10. Tells("server", d) = Turned(c.tout, With(c.sum, m), c.dh, MasterOf(c))
  BY <1>9, <1>5, <1>7, <1>1, ReaderViews
<1>11. MessageHop(origin, Certs, "client", v, d.out, Tells("server", d))
  <2>1. d.out.key = c.tout /\ d.out.body = m
    BY <1>5
  <2> HIDE DEF v
  <2> QED BY <2>1, <1>8, <1>10, <1>3 DEF MessageHop
<1>12. Hop(origin, Certs, Other("server"), Tells("server", c), d.out, Tells("server", d))
  BY <1>11 DEF Hop, Other
<1>13. d.out # None
  BY <1>5, <1>2
<1>14. Acts("server", c, d)
  BY <1>12, <1>13, <1>9, <1>5, <1>4, <1>2 DEF Acts, Works
<1> QED BY <1>14, <1>7, <1>1, <1>2, FaresOn DEF Goes

\* ssl_write_change_cipher_spec.
LEMMA WriteChangeCipherSpecFares ==
  ASSUME NEW e \in End, NEW c, Poised(e, c), NEW u, WriteChangeCipherSpec(e)
  PROVE  \E d : Fares(e, c, u, d)
<1>1. /\ At(e, SpecState(e)) /\ nonce' = nonce /\ UNCHANGED <<conf, who, origin>>
  BY DEF WriteChangeCipherSpec, envVars
<1>2. /\ Typed /\ Typed' /\ c = ctx[e] /\ c.state = SpecState(e) /\ c.end = "no"
      /\ c.out = None /\ AgreeInv /\ Touch(e, c) /\ c.state \in Named
      /\ \A key, body : [key |-> key, body |-> body] # None
  BY <1>1, PoisedAt
<1>3. PICK d, m : Utters(e, c, d, m, {}) /\ m.msg = "ChangeCipherSpec"
  BY <1>1, <1>2, ChangeCipherSpecTurns
<1>4. /\ c.state \in TurnsOf(e) /\ c.state \in Turns /\ c.state # FinishedState(e)
      /\ c.state \in Keyed /\ Following(c.state) \in Keyed
      /\ Following(c.state) = FinishedState(e)
      /\ Following(c.state) \in TurnsOf(e) \cap Turns
      /\ Following(c.state) \notin Informed \cup {"SERVER_CERTIFICATE", "CERTIFICATE_VERIFY"}
  BY <1>2, ServerStates DEF End, SpecState, TurnsOf, Turns, FinishedState, Keyed, Informed
<1>5. /\ d.neg = c.neg /\ d.state = Following(c.state) /\ d.dh = c.dh /\ d.out = [key |-> c.tout, body |-> m]
  BY <1>3 DEF Utters, Same, Fields
<1>6. PeerMatches(e, d) /\ HalfMatches(e, d)
  BY <1>5, <1>4 DEF PeerMatches, HalfMatches, Informed
<1>7. Touch(e, d) /\ d.end = "no" /\ MasterOf(d) = MasterOf(c)
  BY <1>3, <1>5, <1>6, <1>1, <1>2, <1>4, TurnOn
<1> DEFINE v == Tells(e, c)
           x == View("flight", c.tout, TRUE, <<c.own>>, c.sum, c.dh, MasterOf(c))
<1>8. /\ v.mode = "flight" /\ ~ v.due /\ v.key = c.tout /\ v.dh = c.dh /\ v.master = MasterOf(c)
      /\ v.sum = c.sum /\ v.info = <<c.own>>
  BY <1>4, <1>1, WriterFields
<1>9. With(c.sum, m) = c.sum
  BY <1>3 DEF With, HandshakeMessages
<1>10. MessageHop(origin, Certs, Other(e), v, d.out, x)
  <2>1. d.out.key = c.tout /\ d.out.body = m
    BY <1>5
  <2> HIDE DEF v
  <2> QED BY <2>1, <1>8, <1>3 DEF MessageHop
<1>11. Hop(origin, Certs, Other(e), Tells(e, c), d.out, x)
  BY <1>10 DEF Hop
<1>12. x = View("flight", c.tout, d.state = FinishedState(e), <<c.own>>, With(c.sum, m), d.dh,
                MasterOf(d))
  <2>1. (d.state = FinishedState(e)) = TRUE
    BY <1>4, <1>5
  <2> QED BY <2>1, <1>9, <1>5, <1>7
<1>13. Acts(e, c, d)
  <2> HIDE DEF x
  <2> QED BY <1>11, <1>12, <1>3, <1>4, <1>5, <1>2, UttersOn
<1> QED BY <1>13, <1>7, <1>1, <1>2, FaresOn DEF Goes

\* The keys that both ends make of a secret.
LEMMA KeysMade ==
  ASSUME NEW e \in End, NEW c, Poised(e, c), c.end = "no", c.state = "CLIENT_KEY_EXCHANGE",
         NEW d, d.state = "CERTIFICATE_VERIFY", NEW m, d.sum = With(c.sum, m),
         d.resume = c.resume, d.max = c.max, d.minor = c.minor, Blank(d), NEW s, KeysFrom(c, d, s)
  PROVE  /\ MasterOf(d) = PRF(s, "master", <<c.sum[1].random, c.sum[2].random>>)
         /\ d.neg.peer = c.neg.peer /\ Touch(e, d)
<1>1. c = ctx[e] /\ AgreeInv /\ Touch(e, c)
  BY DEF Poised
<1>2. c.state \in Turns /\ d.state \in Turns /\ d.state \in Keyed /\ c.state \notin Keyed
      /\ c.state \in Informed /\ d.state \notin Informed
  BY DEF Turns, TurnsOf, Keyed, Informed
<1>3. ~ c.resume /\ c.sum[2].suite = c.neg.suite /\ DOMAIN c.neg = SessionFields
  <2>1. ResumesShort(c) /\ c.sum[2].suite = c.neg.suite /\ Context(c)
    BY <1>1, <1>2, HellosIn
  <2> QED BY <2>1 DEF ResumesShort, ResumedStates, Early, Context
<1>4. /\ c.rc = c.sum[1].random /\ c.rs = c.sum[2].random /\ c.sum[2].minor = c.minor
      /\ PeerMatches(e, c)
  BY <1>1, <1>2 DEF Touch, Matching, KeysMatch
<1>5. PICK master : /\ d.neg = [c.neg EXCEPT !.master = master]
                    /\ d.tneg = KeysOf(master, c.rc, c.rs, c.neg.suite, c.minor)
                    /\ master = PRF(s, "master", <<c.rc, c.rs>>)
  BY <1>3 DEF KeysFrom
<1>6. d.neg.master = master /\ d.neg.id = c.neg.id /\ d.neg.peer = c.neg.peer
  BY <1>5, <1>3 DEF SessionFields
<1>7. MasterOf(d) = master
  BY <1>2, <1>6 DEF MasterOf
<1>8. d.sum[1] = c.sum[1] /\ d.sum[2] = c.sum[2]
  BY <1>1, <1>2, HellosKept
<1>9. KeysMatch(d)
  BY <1>2, <1>3, <1>4, <1>5, <1>6, <1>8 DEF KeysMatch
<1>10. PeerMatches(e, d) /\ HalfMatches(e, d)
  BY <1>2, <1>4, <1>6 DEF PeerMatches, HalfMatches
<1>11. Touch(e, d)
  BY <1>1, <1>2, <1>6, <1>9, <1>10, TouchOn
<1> QED BY <1>4, <1>5, <1>6, <1>7, <1>11

\* ssl_write_client_key_exchange.
LEMMA WriteClientKeyExchangeFares ==
  ASSUME NEW c, Poised("client", c), NEW u, WriteClientKeyExchange
  PROVE  \E d : Fares("client", c, u, d)
<1>1. /\ At("client", "CLIENT_KEY_EXCHANGE") /\ nonce' = nonce + 1
      /\ UNCHANGED <<conf, who, origin>> /\ "client" \in End
  BY DEF WriteClientKeyExchange, envVars, Draws, End
<1>2. /\ Typed /\ Typed' /\ c = ctx["client"] /\ c.state = "CLIENT_KEY_EXCHANGE" /\ c.end = "no"
      /\ c.out = None /\ AgreeInv /\ Touch("client", c) /\ c.state \in Named
      /\ \A key, body : [key |-> key, body |-> body] # None
  BY <1>1, PoisedAt
<1>3. PICK d, m, s : /\ Utters("client", c, d, m, Secrets) /\ m.msg = "ClientKeyExchange"
                     /\ KeysFrom(c, d, s)
                     /\ IF c.neg.suite \in DHE THEN s = <<c.dh, m.half>>
                        ELSE m.sealed = <<c.neg.peer, s>> /\ s[1] = c.max
  BY <1>2, ClientKeyExchangeWritten
<1>4. /\ c.state \in TurnsOf("client") /\ c.state \in Turns /\ c.state # FinishedState("client")
      /\ Following(c.state) = "CERTIFICATE_VERIFY" /\ Following(c.state) \in TurnsOf("client")
      /\ Following(c.state) # FinishedState("client") /\ c.state \in Informed
  BY <1>2, ServerStates DEF TurnsOf, Turns, FinishedState, Informed
<1>5. /\ d.state = "CERTIFICATE_VERIFY" /\ d.dh = c.dh /\ d.sum = With(c.sum, m) /\ d.end = "no"
      /\ d.resume = c.resume /\ d.max = c.max /\ d.minor = c.minor
      /\ d.tin = c.tin /\ d.tout = c.tout /\ d.own = c.own /\ d.peer = c.peer
  BY <1>2, <1>3, <1>4 DEF Utters, Same, Fields, Secrets
<1>6. Blank(d)
  BY <1>2, <1>5 DEF Touch, Blank
<1>7. /\ MasterOf(d) = PRF(s, "master", <<c.sum[1].random, c.sum[2].random>>)
      /\ Touch("client", d)
  BY <1>1, <1>2, <1>3, <1>5, <1>6, KeysMade
<1>8. c.sum[2].suite = c.neg.suite /\ c.neg.peer = Own("server") /\ c.sum[1].max = c.max
  <2>1. c.sum[2].suite = c.neg.suite
    BY <1>1, <1>2, <1>4, HellosIn
  <2> QED BY <2>1, <1>2, <1>4 DEF Touch, Matching, PeerMatches
<1> DEFINE v == Tells("client", c)
<1>9. v.dh = c.dh /\ v.sum = c.sum
  BY <1>4, <1>1, WriterFields
<1>10. Seals(Certs, v, m, MasterOf(d))
  <2> HIDE DEF v
  <2>1. CASE c.neg.suite \in DHE
    BY <2>1, <1>3, <1>7, <1>8, <1>9 DEF Seals
  <2>2. CASE c.neg.suite \notin DHE
    <3>1. m.sealed = <<c.neg.peer, s>> /\ s[1] = c.max
      BY <2>2, <1>3
    <3>2. m.sealed # None
      BY <3>1 DEF Poised, NullIsNull
    <3>3. m.sealed[1] = c.neg.peer /\ m.sealed[2] = s
      BY <3>1
    <3> QED BY <2>2, <3>1, <3>2, <3>3, <1>7, <1>8, <1>9, CertsAre DEF Seals
  <2> QED BY <2>1, <2>2
<1>11. Continues(origin, Certs, Other("client"), v, m, d.dh, MasterOf(d))
  <2> HIDE DEF v
  <2> QED BY <1>3, <1>5, <1>9, <1>10 DEF Continues, Other
<1>12. Acts("client", c, d)
  BY <1>11, <1>3, <1>5, <1>4, <1>2, <1>1, UtterActs DEF Secrets
<1> QED BY <1>12, <1>7, <1>5, <1>1, <1>2, FaresOn DEF Goes

\* The keys that both ends expect of the Finished.
LEMMA KeyIs ==
  ASSUME NEW e \in End, NEW c, Touch(e, c), c.state \in {"CLIENT_FINISHED", "SERVER_FINISHED"},
         NEW v, v.sum = c.sum, v.master = MasterOf(c)
  PROVE  KeyOf(v) = c.tneg /\ v.master = c.neg.master /\ (c.resume <=> Resumed(v.sum))
<1>1. c.state \in Keyed /\ c.state \in Turns
  BY DEF Keyed, Turns, TurnsOf
<1>2. KeysMatch(c) /\ (c.resume <=> Resumed(c.sum))
  BY <1>1 DEF Touch, Matching
<1> QED BY <1>1, <1>2 DEF KeysMatch, KeyOf, MasterOf

\* What a Finished leaves of an end.
LEMMA FinishedTouch ==
  ASSUME NEW e \in End, NEW c, Poised(e, c), c.end = "no",
         c.state \in {"CLIENT_FINISHED", "SERVER_FINISHED"}, NEW d,
         Same(c, d, {"own", "tout", "state", "sum", "out", "msg", "tin", "peer"}),
         Blank(d), NEW m, d.sum = With(c.sum, m),
         d.state \in {"SERVER_CHANGE_CIPHER_SPEC", "CLIENT_CHANGE_CIPHER_SPEC", "FLUSH_BUFFERS",
                      "HANDSHAKE_WRAPUP"}
  PROVE  Touch(e, d) /\ MasterOf(d) = c.neg.master /\ d.dh = c.dh
<1>1. c = ctx[e] /\ AgreeInv /\ Touch(e, c)
  BY DEF Poised
<1>2. /\ d.resume = c.resume /\ d.max = c.max /\ d.minor = c.minor /\ d.neg = c.neg
      /\ d.tneg = c.tneg /\ d.rc = c.rc /\ d.rs = c.rs /\ d.dh = c.dh
  BY DEF Same, Fields
<1>3. c.state \in Turns /\ c.state \in Keyed /\ d.state \in Keyed
  BY DEF Turns, TurnsOf, Keyed
<1>4. KeysMatch(d) /\ MasterOf(d) = MasterOf(c)
  BY <1>1, <1>2, <1>3, KeysOn
<1>5. PeerMatches(e, d) /\ HalfMatches(e, d)
  BY DEF PeerMatches, HalfMatches, Informed
<1>6. Touch(e, d)
  <2>1. CASE d.state \in Turns
    <3>1. d.sum = c.sum \/ \E x : d.sum = With(c.sum, x)
      OBVIOUS
    <3>2. d.neg.id = c.neg.id
      BY <1>2
    <3> QED BY <1>1, <1>2, <1>3, <1>4, <1>5, <2>1, <3>1, <3>2, TouchOn
  <2>2. CASE d.state \notin Turns
    <3>1. ~ Waking(d) /\ d.state # "SERVER_HELLO"
      BY DEF Waking
    <3> QED BY <2>2, <3>1 DEF Touch, Ready, Greets, Matching
  <2> QED BY <2>1, <2>2
<1>7. MasterOf(d) = c.neg.master
  BY <1>2, <1>3 DEF MasterOf
<1> QED BY <1>6, <1>7, <1>2

\* ssl_write_finished.
LEMMA WriteFinishedFares ==
  ASSUME NEW e \in End, NEW c, Poised(e, c), NEW u, WriteFinished(e)
  PROVE  \E d : Fares(e, c, u, d)
<1>1. /\ At(e, FinishedState(e)) /\ nonce' = nonce /\ UNCHANGED <<conf, who>>
  BY DEF WriteFinished
<1>2. /\ Typed /\ Typed' /\ c = ctx[e] /\ c.state = FinishedState(e) /\ c.end = "no"
      /\ c.out = None /\ AgreeInv /\ Touch(e, c) /\ c.state \in Named
      /\ \A key, body : [key |-> key, body |-> body] # None
  BY <1>1, PoisedAt
<1>3. PICK d, m : /\ Becomes(e, d) /\ Same(c, d, {"own", "tout", "state", "sum", "out"})
                  /\ d.state = AfterWriting(e, c) /\ d.own = FinishedBy(e, c)
                  /\ d.tout = OutKey(e, c) /\ d.out = [key |-> OutKey(e, c), body |-> m]
                  /\ d.sum = Append(c.sum, m) /\ m.msg = "Finished" /\ m.hash = FinishedBy(e, c)
                  /\ origin' = IF e = "server" /\ ~c.resume THEN origin \cup {c.neg} ELSE origin
  <2>1. WriteFinished(e) /\ Typed /\ c = ctx[e]
    BY <1>2
  <2> QED BY <2>1, FinishedWritten
<1>4. d.tin = c.tin /\ d.peer = c.peer /\ d.end = "no" /\ d.reneg = c.reneg
  BY <1>2, <1>3 DEF Same, Fields
<1>5. Blank(d) /\ d.tout = <<e, c.tneg>> /\ d.own = PRF(c.neg.master, e, c.sum)
  BY <1>2, <1>3, <1>4 DEF Touch, Blank, OutKey, FinishedBy, Transcript, Poised, NullIsNull
<1>6. With(c.sum, m) = d.sum
  BY <1>3 DEF With, HandshakeMessages
<1>7. /\ c.state \in {"CLIENT_FINISHED", "SERVER_FINISHED"} /\ c.state \in TurnsOf(e)
      /\ e = "client" => d.state = IF c.resume THEN "HANDSHAKE_WRAPUP" ELSE "SERVER_CHANGE_CIPHER_SPEC"
      /\ e = "server" => d.state = IF c.resume THEN "CLIENT_CHANGE_CIPHER_SPEC" ELSE "FLUSH_BUFFERS"
  BY <1>2, <1>3, ServerStates DEF FinishedState, TurnsOf, AfterWriting, End
<1>8. Touch(e, d) /\ MasterOf(d) = c.neg.master /\ d.dh = c.dh
  <2>1. Same(c, d, {"own", "tout", "state", "sum", "out", "msg", "tin", "peer"})
    BY <1>3 DEF Same
  <2>2. d.state \in {"SERVER_CHANGE_CIPHER_SPEC", "CLIENT_CHANGE_CIPHER_SPEC", "FLUSH_BUFFERS",
                      "HANDSHAKE_WRAPUP"}
    BY <1>7 DEF End
  <2>3. d.sum = With(c.sum, m)
    BY <1>6
  <2> QED BY <2>1, <2>2, <2>3, <1>2, <1>5, <1>7, FinishedTouch
<1> DEFINE v == Tells(e, c)
           f == Other(e)
<1>9. /\ v.mode = "flight" /\ v.due /\ v.sum = c.sum /\ v.dh = c.dh /\ v.master = MasterOf(c)
  BY <1>2, <1>7, WriterFields
<1>10. KeyOf(v) = c.tneg /\ v.master = c.neg.master /\ (c.resume <=> Resumed(v.sum))
  <2> HIDE DEF v
  <2> QED BY <1>2, <1>7, <1>9, KeyIs
<1>11. f \in End /\ Other(f) = e /\ (f = "client" <=> e = "server")
  BY DEF Other, End
<1>12. /\ d.out.key = d.tout /\ d.out.body = m /\ m.hash = d.own /\ d.out # None
  BY <1>3, <1>2
<1>13. Tells(e, d) = Ending(f, v, d.out, m.hash)
  <2> HIDE DEF v, f
  <2>1. CASE (f = "client") = Resumed(v.sum)
    <3>1. Reading(e, d)
      BY <2>1, <1>7, <1>10, <1>11 DEF Reading, TurnsOf, Other, End
    <3>2. Tells(e, d) = Turned(d.tout, d.sum, d.dh, MasterOf(d))
      BY <3>1, ReaderViews
    <3>3. Ending(f, v, d.out, m.hash) = Turned(d.out.key, With(v.sum, d.out.body), v.dh, v.master)
      BY <2>1 DEF Ending
    <3> QED BY <3>2, <3>3, <1>6, <1>8, <1>9, <1>10, <1>12
  <2>2. CASE (f = "client") # Resumed(v.sum)
    <3>1. Idle(e, d) /\ ~ Unmet(d)
      <4>1. f = "client" <=> ~ Resumed(v.sum)
        BY <2>2 DEF Resumed
      <4>2. e = "client" => d.state = "HANDSHAKE_WRAPUP"
        BY <4>1, <1>7, <1>10, <1>11
      <4>3. e = "server" => d.state = "FLUSH_BUFFERS"
        BY <4>1, <1>7, <1>10, <1>11
      <4> QED BY <4>2, <4>3 DEF Idle, Unmet, Waking, End
    <3>2. Tells(e, d) = Calm(d.tout, <<d.own>>)
      BY <3>1, IdleViews
    <3>3. Ending(f, v, d.out, m.hash) = Calm(d.out.key, <<m.hash>>)
      BY <2>2 DEF Ending
    <3> QED BY <3>2, <3>3, <1>12
  <2> QED BY <2>1, <2>2
<1>14. FinishedHop(f, v, d.out, Tells(e, d))
  <2>1. d.out.key = <<Other(f), KeyOf(v)>> /\ d.out.body.hash = PRF(v.master, Other(f), v.sum)
    <3> HIDE DEF v, f
    <3> QED BY <1>5, <1>9, <1>10, <1>11, <1>12
  <2> HIDE DEF v, f
  <2> QED BY <2>1, <1>3, <1>9, <1>12, <1>13 DEF FinishedHop
<1>15. Hop(origin, Certs, Other(e), Tells(e, c), d.out, Tells(e, d))
  BY <1>14 DEF Hop
<1>16. Reading(e, d) => d.state \in WaitsOf(e)
  BY <1>7 DEF Reading, TurnsOf, Other, WaitsOf, End
<1>17. Acts(e, c, d)
  BY <1>15, <1>16, <1>12, <1>4, <1>2, <1>3, <1>7, TurnsApart DEF Acts, Works
<1>18. Touch(e, d)'
  <2>1. origin \subseteq origin' /\ (e = "client" \/ origin' = origin \/ d.state \notin Turns)
    BY <1>3, <1>7 DEF End, Turns, TurnsOf
  <2>2. nonce \in Nat /\ nonce' \in Nat /\ nonce <= nonce'
    BY <1>1, <1>2 DEF Typed
  <2> QED BY <2>1, <2>2, <1>1, <1>8, TouchLater
<1> QED BY <1>17, <1>18, <1>4 DEF Fares, Goes

-----------------------------------------------------------------------------
(* The turns that read                                                       *)

\* A message of the handshake that is read in the peer's turn.
LEMMA Arrives ==
  ASSUME NEW e \in End, NEW c, c = ctx[e], Reading(e, c),
         ~ (c.state = "SERVER_HELLO_DONE" /\ c.msg.msg = "ServerHelloDone"),
         NEW u, HopDue(e, u), net[e] # <<>>, ~ Harmless(Incoming(e)), NEW v, v = Sees(e, c),
         NEW r, r = Head(net[e])
  PROVE  IF c.state = FinishedState(Other(e)) THEN FinishedHop(e, v, r, u)
         ELSE MessageHop(origin, Certs, e, v, r, u)
<1>1. ~ Writing(e, c)
  BY TurnsApart
<1>2. Hop(origin, Certs, e, v, r, u)
  BY <1>1 DEF HopDue
<1>3. v.mode = "flight" /\ (v.due <=> c.state = FinishedState(Other(e)))
  BY ReaderFields
<1>4. ~ Harmless(r.body)
  BY DEF Incoming
<1>5. IF v.due THEN FinishedHop(e, v, r, u) ELSE MessageHop(origin, Certs, e, v, r, u)
  BY <1>2, <1>3, <1>4, HopFlight
<1> QED BY <1>3, <1>5

\* ssl_parse_finished.
LEMMA ParseFinishedFares ==
  ASSUME NEW e \in End, NEW c, Poised(e, c), NEW u, HopDue(e, u), ParseFinished(e)
  PROVE  \E d : Fares(e, c, u, d)
<1>1. /\ At(e, FinishedState(Other(e))) /\ nonce' = nonce /\ UNCHANGED <<conf, who, origin>>
  BY DEF ParseFinished, Gets, envVars
<1>2. /\ Typed /\ Typed' /\ c = ctx[e] /\ c.state = FinishedState(Other(e)) /\ c.end = "no"
      /\ c.out = None /\ AgreeInv /\ Touch(e, c) /\ c.state \in Named
  BY <1>1, PoisedAt
<1>3. PICK d, m :
        /\ net[e] # <<>> /\ m = Incoming(e) /\ m.msg = "Finished" /\ Consumes(e, d)
        /\ \/ Leaves(e, c, d, "finished") /\ m.hash # FinishedBy(Other(e), c)
           \/ /\ Same(c, d, {"sum", "msg", "tin", "peer", "state"})
              /\ d.tin = InKey(e, c) /\ d.peer = m.hash /\ d.state = AfterReading(e, c)
              /\ d.sum = Append(c.sum, m) /\ m.hash = FinishedBy(Other(e), c)
  <2>1. ParseFinished(e) /\ Typed /\ c = ctx[e]
    BY <1>2
  <2> QED BY <2>1, FinishedParsed
<1>4. Other(e) \in End /\ Other(Other(e)) = e
  BY DEF Other, End
<1>5. Reading(e, c) /\ c.state \in {"CLIENT_FINISHED", "SERVER_FINISHED"}
  BY <1>2 DEF Reading, TurnsOf, FinishedState, Other, End
<1>6. ~ (c.state = "SERVER_HELLO_DONE" /\ c.msg.msg = "ServerHelloDone") /\ ~ Harmless(Incoming(e))
  BY <1>3, <1>5 DEF Harmless
<1> DEFINE v == Sees(e, c)
           r == Head(net[e])
<1>7. FinishedHop(e, v, r, u)
  BY <1>2, <1>3, <1>5, <1>6, Arrives
<1>8. v.sum = c.sum /\ v.master = MasterOf(c) /\ v.dh = c.dh
  BY <1>5, <1>6, ReaderFields
<1>9. KeyOf(v) = c.tneg /\ v.master = c.neg.master /\ (c.resume <=> Resumed(v.sum))
  <2> HIDE DEF v
  <2> QED BY <1>2, <1>5, <1>8, KeyIs
<1>10. /\ r.key = <<Other(e), c.tneg>> /\ m.hash = PRF(c.neg.master, Other(e), c.sum)
       /\ u = Ending(e, v, r, m.hash) /\ r.body = m
  <2>1. r.body = m
    BY <1>3 DEF Incoming
  <2> HIDE DEF v, r
  <2> QED BY <2>1, <1>7, <1>8, <1>9 DEF FinishedHop
<1>11. /\ Same(c, d, {"sum", "msg", "tin", "peer", "state"})
       /\ d.tin = InKey(e, c) /\ d.peer = m.hash /\ d.state = AfterReading(e, c)
       /\ d.sum = Append(c.sum, m)
  BY <1>3, <1>10 DEF FinishedBy, Transcript
<1>12. d.tin = r.key /\ d.tin = <<Other(e), c.tneg>> /\ With(c.sum, m) = d.sum
  BY <1>3, <1>10, <1>11 DEF InKey, With, HandshakeMessages
<1>13. /\ d.tout = c.tout /\ d.own = c.own /\ d.end = "no" /\ d.out = c.out
  BY <1>2, <1>11 DEF Same, Fields
<1>14. Blank(d)
  BY <1>2, <1>12, <1>13 DEF Touch, Blank, Poised, NullIsNull
<1>15. /\ e = "client" => d.state = IF c.resume THEN "CLIENT_CHANGE_CIPHER_SPEC" ELSE "FLUSH_BUFFERS"
       /\ e = "server" => d.state = IF c.resume THEN "HANDSHAKE_WRAPUP" ELSE "SERVER_CHANGE_CIPHER_SPEC"
  BY <1>2, <1>11, ServerStates DEF FinishedState, AfterReading, Other
<1>16. Touch(e, d) /\ MasterOf(d) = c.neg.master /\ d.dh = c.dh
  <2>1. Same(c, d, {"own", "tout", "state", "sum", "out", "msg", "tin", "peer"})
    BY <1>11 DEF Same
  <2>2. d.state \in {"SERVER_CHANGE_CIPHER_SPEC", "CLIENT_CHANGE_CIPHER_SPEC", "FLUSH_BUFFERS",
                      "HANDSHAKE_WRAPUP"}
    BY <1>15 DEF End
  <2>3. d.sum = With(c.sum, m)
    BY <1>12
  <2> QED BY <2>1, <2>2, <2>3, <1>2, <1>14, <1>5, FinishedTouch
<1>17. ~ Writing(e, c)
  BY <1>5, TurnsApart
<1>18. Takes(e, c, u, d)
  <2> HIDE DEF v, r
  <2>1. Hushed(c, d)
    BY <1>13 DEF Hushed
  <2>2. CASE (e = "client") = Resumed(v.sum)
    <3>1. e = "client" <=> Resumed(v.sum)
      BY <2>2 DEF Resumed
    <3>2. /\ e = "client" => d.state = "CLIENT_CHANGE_CIPHER_SPEC"
          /\ e = "server" => d.state = "SERVER_CHANGE_CIPHER_SPEC"
      BY <3>1, <1>9, <1>15
    <3>3. d.state \in TurnsOf(e) /\ d.state # FinishedState(e)
      BY <3>2 DEF TurnsOf, FinishedState, End
    <3>4. Writing(e, d) /\ SumOf(e, d) = d.sum
      BY <3>3, TurnsApart DEF SumOf
    <3>5. u = Turned(r.key, With(v.sum, r.body), v.dh, v.master)
      BY <2>2, <1>10 DEF Ending
    <3>6. u = Turned(d.tin, SumOf(e, d), d.dh, MasterOf(d))
      BY <3>4, <3>5, <1>8, <1>9, <1>10, <1>12, <1>16
    <3> QED BY <2>1, <3>3, <3>4, <3>6 DEF Takes
  <2>3. CASE ~ ((e = "client") = Resumed(v.sum))
    <3>1. e = "client" <=> ~ Resumed(v.sum)
      BY <2>3 DEF Resumed
    <3>2. /\ e = "client" => d.state = "FLUSH_BUFFERS"
          /\ e = "server" => d.state = "HANDSHAKE_WRAPUP"
      BY <3>1, <1>9, <1>15
    <3>3. Idle(e, d) /\ ~ Unmet(d)
      BY <3>2 DEF Idle, Unmet, Waking, End
    <3>4. Sees(e, d) = Calm(d.tin, <<d.peer>>)
      BY <3>3, IdleViews
    <3>5. u = Calm(r.key, <<m.hash>>)
      BY <2>3, <1>10 DEF Ending
    <3>6. ~ Writing(e, d)
      BY <3>3, TurnsApart
    <3> QED BY <2>1, <3>4, <3>5, <3>6, <1>11, <1>12 DEF Takes
  <2> QED BY <2>2, <2>3
<1>19. Learns(e, c, u, d)
  BY <1>3, <1>6, <1>17, <1>18 DEF Learns
<1> QED BY <1>19, <1>16, <1>13, <1>1, <1>2, FaresOn DEF Goes

\* A reader in its peer's turn to whom no Finished is due.
Flight(key, info, sum, dh, master) == View("flight", key, FALSE, info, sum, dh, master)

\* A message that goes into the transcript.
LEMMA Continued ==
  ASSUME NEW e \in End, NEW c, c = ctx[e], Reading(e, c),
         ~ (c.state = "SERVER_HELLO_DONE" /\ c.msg.msg = "ServerHelloDone"),
         c.state # FinishedState(Other(e)),
         NEW u, HopDue(e, u), net[e] # <<>>, NEW m, m = Incoming(e), NEW v, v = Sees(e, c),
         m.msg \in HandshakeMessages \cup {"NoCertificate"}, m.msg # "ServerHelloDone"
  PROVE  \E dh, master :
           /\ Continues(origin, Certs, e, v, m, dh, master)
           /\ u = Flight(c.tin, <<c.peer>>, With(c.sum, m), dh, master)
<1> DEFINE r == Head(net[e])
<1>1. ~ Harmless(Incoming(e)) /\ m.msg # "ChangeCipherSpec" /\ r.body = m
  BY DEF Harmless, HandshakeMessages, Incoming
<1>2. MessageHop(origin, Certs, e, v, r, u)
  BY <1>1, Arrives
<1>3. v.key = c.tin /\ v.info = <<c.peer>> /\ v.sum = c.sum
  BY ReaderFields
<1> HIDE DEF r
<1> QED BY <1>1, <1>2, <1>3 DEF MessageHop, Flight

\* A turn of reading that goes on with the peer's turn.
LEMMA ReadsOn ==
  ASSUME NEW e \in End, NEW c, Poised(e, c), NEW u, NEW d, NEW m, NEW F, Heeds(e, c, d, m, F),
         F \cap {"tin", "tout", "own", "peer", "out"} = {}, ~ Harmless(m),
         Reading(e, c), Reading(e, d), d.state # FinishedState(Other(e)),
         ~ (d.state = "SERVER_HELLO_DONE" /\ d.msg.msg = "ServerHelloDone"),
         u = Flight(c.tin, <<c.peer>>, With(c.sum, m), d.dh, MasterOf(d)),
         d.end = "no", Touch(e, d), nonce' = nonce \/ nonce' = nonce + 1,
         UNCHANGED <<conf, who, origin>>
  PROVE  Fares(e, c, u, d)
<1>1. (d.state = FinishedState(Other(e))) = FALSE
  OBVIOUS
<1>2. u = View("flight", c.tin, d.state = FinishedState(Other(e)), <<c.peer>>, With(c.sum, m),
               d.dh, MasterOf(d))
  BY <1>1 DEF Flight
<1>3. Learns(e, c, u, d)
  BY <1>2, HeedsOn
<1>4. Typed /\ Typed'
  BY DEF Poised, AgreeInv
<1> QED BY <1>3, <1>4, FaresOn DEF Goes

\* ssl_parse_certificate.
LEMMA ParseCertificateFares ==
  ASSUME NEW e \in End, NEW c, Poised(e, c), NEW u, HopDue(e, u), ParseCertificate(e)
  PROVE  \E d : Fares(e, c, u, d)
<1>1. /\ At(e, CertificateState(Other(e))) /\ nonce' = nonce /\ UNCHANGED <<conf, who, origin>>
  BY DEF ParseCertificate, Gets, envVars
<1>2. /\ Typed /\ Typed' /\ c = ctx[e] /\ c.state = CertificateState(Other(e)) /\ c.end = "no"
      /\ c.out = None /\ AgreeInv /\ Touch(e, c) /\ Context(c) /\ c.state \in Named
  BY <1>1, PoisedAt
<1>3. PICK d, m :
        \/ Leaves(e, c, d, "badcert")
        \/ /\ Heeds(e, c, d, m, {"verify", "neg"})
           /\ m.msg \in {"Certificate", "NoCertificate"}
           /\ d.neg = [c.neg EXCEPT !.peer =
                         IF m.msg = "NoCertificate" \/ m.cert = None THEN c.neg.peer ELSE m.cert]
  <2>1. ParseCertificate(e) /\ Typed /\ c = ctx[e]
    BY <1>2
  <2> QED BY <2>1, CertificateParsed
<1>4. /\ e = "client" => c.state = "SERVER_CERTIFICATE" /\ Following(c.state) = "SERVER_KEY_EXCHANGE"
      /\ e = "server" => c.state = "CLIENT_CERTIFICATE" /\ Following(c.state) = "CLIENT_KEY_EXCHANGE"
  BY <1>2, ServerStates DEF CertificateState, Other
<1>5. /\ Reading(e, c) /\ c.state \in Turns /\ c.state \notin Keyed \cup {FinishedState(e)}
      /\ c.state \notin {"SERVER_HELLO_DONE", FinishedState(Other(e))}
  BY <1>4 DEF End, Reading, TurnsOf, Turns, Keyed, FinishedState, Other
<1>6. CASE Leaves(e, c, d, "badcert")
  BY <1>6, <1>2, <1>5, LeavesDies DEF Fares
<1>7. CASE /\ Heeds(e, c, d, m, {"verify", "neg"})
           /\ m.msg \in {"Certificate", "NoCertificate"}
           /\ d.neg = [c.neg EXCEPT !.peer =
                         IF m.msg = "NoCertificate" \/ m.cert = None THEN c.neg.peer ELSE m.cert]
  <2>1. /\ net[e] # <<>> /\ m = Incoming(e) /\ d.state = Following(c.state) /\ d.dh = c.dh
    BY <1>7 DEF Heeds, Same, Fields
  <2>2. /\ Reading(e, d) /\ d.state \in Turns /\ d.state \notin Keyed /\ d.state \in Informed
        /\ d.state \notin {"SERVER_HELLO_DONE", FinishedState(Other(e))}
    BY <1>4, <2>1 DEF End, Reading, TurnsOf, Turns, Keyed, FinishedState, Other, Informed
  <2> DEFINE v == Sees(e, c)
  <2>3. PICK dh, master :
          /\ Continues(origin, Certs, e, v, m, dh, master)
          /\ u = Flight(c.tin, <<c.peer>>, With(c.sum, m), dh, master)
    <3>1. m.msg \in HandshakeMessages \cup {"NoCertificate"} /\ m.msg # "ServerHelloDone"
      BY <1>7 DEF HandshakeMessages
    <3>2. v = Sees(e, c) /\ ~ (c.state = "SERVER_HELLO_DONE" /\ c.msg.msg = "ServerHelloDone")
          /\ c.state # FinishedState(Other(e))
      BY <1>5
    <3> HIDE DEF v
    <3> QED BY <3>1, <3>2, <1>2, <1>5, <2>1, Continued
  <2>4. v.dh = c.dh /\ v.master = MasterOf(c)
    BY <1>5, ReaderFields
  <2>5. /\ dh = c.dh /\ master = MasterOf(c)
        /\ \/ m.msg = "Certificate" /\ m.cert = Certs[Other(e)] /\ (e = "client" => m.cert # None)
           \/ m.msg = "NoCertificate" /\ e = "server"
    <3> HIDE DEF v
    <3> QED BY <1>7, <2>3, <2>4 DEF Continues
  <2>6. /\ d.neg.peer = IF m.msg = "NoCertificate" \/ m.cert = None THEN c.neg.peer ELSE m.cert
        /\ d.neg.id = c.neg.id /\ d.neg.master = c.neg.master
    BY <1>7, <1>2 DEF Context, SessionFields
  <2>7. PeerMatches(e, c) /\ HalfMatches(e, c)
    BY <1>2, <1>5 DEF Touch, Matching
  <2>8. PeerMatches(e, d)
    <3>1. e = "client" => d.neg.peer = Own("server")
      BY <2>5, <2>6, CertsAre DEF Other
    <3>2. e = "server" => d.neg.peer \in {None, Own("client")}
      BY <2>5, <2>6, <2>7, <1>4, CertsAre DEF Other, PeerMatches, Informed
    <3> QED BY <3>1, <3>2 DEF PeerMatches
  <2>9. HalfMatches(e, d)
    BY <1>4, <2>1, <2>7 DEF HalfMatches, End
  <2>10. Touch(e, d) /\ d.end = "no" /\ MasterOf(d) = MasterOf(c)
    <3> DEFINE F == {"verify", "neg"}
    <3>1. F \cap {"resume", "max", "minor", "tneg", "rc", "rs", "tin", "tout", "own",
                               "peer", "end", "sum"} = {}
      OBVIOUS
    <3>2. Heeds(e, c, d, m, F)
      BY <1>7
    <3> HIDE DEF F
    <3> QED BY <3>1, <3>2, <1>2, <1>5, <2>2, <2>6, <2>8, <2>9, TurnOn
  <2>11. ~ Harmless(m)
    BY <1>7 DEF Harmless
  <2>12. u = Flight(c.tin, <<c.peer>>, With(c.sum, m), d.dh, MasterOf(d))
    BY <2>1, <2>3, <2>5, <2>10
  <2> HIDE DEF v
  <2>13. Fares(e, c, u, d)
    <3> DEFINE F == {"verify", "neg"}
    <3>1. F \cap {"tin", "tout", "own", "peer", "out"} = {}
      OBVIOUS
    <3>2. Heeds(e, c, d, m, F)
      BY <1>7
    <3> HIDE DEF F
    <3> QED BY <3>1, <3>2, <1>1, <1>5, <2>2, <2>10, <2>11, <2>12, ReadsOn
  <2> QED BY <2>13
<1> QED BY <1>3, <1>6, <1>7

\* A turn of the reader that reads nothing.
LEMMA RestsOn ==
  ASSUME NEW e \in End, NEW c, Poised(e, c), NEW u, NEW d, NEW F, Passes(e, c, d, F),
         F \cap {"tin", "tout", "own", "peer", "out", "dh", "sum"} = {},
         Reading(e, c), Reading(e, d),
         c.state \notin {"SERVER_HELLO", "SERVER_HELLO_DONE", FinishedState(Other(e))},
         d.state \notin {"SERVER_HELLO_DONE", FinishedState(Other(e))},
         c.state \in WaitsOf(e) => d.state \in WaitsOf(e),
         d.end = "no", Touch(e, d), MasterOf(d) = MasterOf(c), nonce' = nonce,
         UNCHANGED <<conf, who, origin>>
  PROVE  Fares(e, c, u, d)
<1>1. /\ d.tin = c.tin /\ d.tout = c.tout /\ d.own = c.own /\ d.peer = c.peer /\ d.out = c.out
      /\ d.sum = c.sum /\ d.dh = c.dh
  BY DEF Passes, Same, Fields
<1>2. Sees(e, d) = Sees(e, c)
  <2> DEFINE V(due) == View("flight", c.tin, due, <<c.peer>>, c.sum, c.dh, MasterOf(c))
  <2>1. Sees(e, c) = V(c.state = FinishedState(Other(e)))
    BY ReaderViews
  <2>2. Sees(e, d) = V(d.state = FinishedState(Other(e)))
    BY <1>1, ReaderViews
  <2>3. (c.state = FinishedState(Other(e))) = (d.state = FinishedState(Other(e)))
    OBVIOUS
  <2> HIDE DEF V
  <2> QED BY <2>1, <2>2, <2>3, Zenon
<1>3. Tells(e, d) = Tells(e, c)
  BY <1>1, ReaderViews
<1>4. ~ Writing(e, c) /\ ~ Writing(e, d)
  BY TurnsApart
<1>5. Takes(e, c, Sees(e, c), d)
  BY <1>1, <1>2, <1>4 DEF Takes, Hushed
<1>6. c.state # "HANDSHAKE_OVER"
  BY DEF Reading, TurnsOf
<1>7. Rests(e, c, d)
  BY <1>1, <1>3, <1>4, <1>5, <1>6 DEF Rests, Works, Passes
<1>8. Typed /\ Typed'
  BY DEF Poised, AgreeInv
<1> QED BY <1>7, <1>8, FaresOn DEF Goes

\* ssl_parse_server_key_exchange.
LEMMA ParseServerKeyExchangeFares ==
  ASSUME NEW c, Poised("client", c), NEW u, HopDue("client", u), ParseServerKeyExchange
  PROVE  \E d : Fares("client", c, u, d)
<1> DEFINE e == "client"
<1>1. /\ At(e, "SERVER_KEY_EXCHANGE") /\ nonce' = nonce /\ UNCHANGED <<conf, who, origin>>
      /\ e \in End /\ Other(e) = "server"
  BY DEF ParseServerKeyExchange, Gets, envVars, End, Other
<1> HIDE DEF e
<1>2. /\ Typed /\ Typed' /\ c = ctx[e] /\ c.state = "SERVER_KEY_EXCHANGE" /\ c.end = "no"
      /\ c.out = None /\ AgreeInv /\ Touch(e, c) /\ Context(c) /\ c.state \in Named
      /\ Poised(e, c) /\ HopDue(e, u)
  BY <1>1, PoisedAt DEF e
<1>3. PICK d, m : \/ c.neg.suite \notin DHE /\ Passes(e, c, d, {})
                  \/ /\ ~ (m.signed = <<c.rc, c.rs, m.dh>> /\ m.by = c.neg.peer)
                     /\ Leaves(e, c, d, "signature")
                     /\ net[e] # <<>> /\ m = Incoming(e) /\ m.msg = "ServerKeyExchange"
                  \/ /\ d.dh = m.dh /\ m.msg = "ServerKeyExchange" /\ c.neg.suite \in DHE
                     /\ Heeds(e, c, d, m, {"dh"})
  <2>1. ParseServerKeyExchange /\ Typed /\ c = ctx["client"]
    BY <1>2 DEF e
  <2> QED BY <2>1, ServerKeyExchangeParsed DEF e
<1>4. /\ Reading(e, c) /\ c.state \in Turns /\ c.state \notin Keyed /\ c.state \in Informed
      /\ c.state \notin {"SERVER_HELLO", "SERVER_HELLO_DONE", FinishedState(Other(e))}
      /\ c.state \notin WaitsOf(e)
  BY <1>2, <1>1 DEF e, Reading, TurnsOf, Turns, Keyed, FinishedState, Informed, WaitsOf
<1>5. Following(c.state) = "CERTIFICATE_REQUEST"
  BY <1>2, ServerStates
<1>6. /\ PeerMatches(e, c) /\ KeysMatch(c) /\ c.neg.peer = Own("server")
      /\ c.sum[2].suite = c.neg.suite /\ c.rc = c.sum[1].random /\ c.rs = c.sum[2].random
  <2>1. PeerMatches(e, c) /\ KeysMatch(c) /\ c.sum[2].suite = c.neg.suite
    BY <1>1, <1>2, <1>4, HellosIn DEF Touch, Matching
  <2> QED BY <2>1, <1>4 DEF KeysMatch, PeerMatches, e
<1>7. ASSUME d.state = "CERTIFICATE_REQUEST"
      PROVE  /\ Reading(e, d) /\ d.state \in Turns /\ d.state \notin Keyed
             /\ d.state \notin {"SERVER_HELLO", "SERVER_HELLO_DONE", FinishedState(Other(e))}
             /\ d.state \in Informed
  BY <1>7, <1>1 DEF e, Reading, TurnsOf, Turns, Keyed, FinishedState, Informed
<1>8. CASE c.neg.suite \notin DHE /\ Passes(e, c, d, {})
  <2>1. d.state = "CERTIFICATE_REQUEST" /\ d.neg = c.neg /\ d.sum = c.sum
    BY <1>5, <1>8 DEF Passes, Same, Fields
  <2>2. PeerMatches(e, d) /\ HalfMatches(e, d)
    BY <2>1, <1>8, <1>6 DEF PeerMatches, HalfMatches, e
  <2>3. Touch(e, d) /\ d.end = "no" /\ MasterOf(d) = MasterOf(c)
    BY <2>1, <2>2, <1>1, <1>2, <1>4, <1>7, <1>8, TurnOn
  <2> QED BY <2>1, <2>3, <1>1, <1>2, <1>4, <1>7, <1>8, RestsOn DEF e
<1> DEFINE v == Sees(e, c)
<1>9. ASSUME net[e] # <<>>, m = Incoming(e), m.msg = "ServerKeyExchange"
      PROVE  /\ u = Flight(c.tin, <<c.peer>>, With(c.sum, m), m.dh, MasterOf(c))
             /\ m.signed = <<c.rc, c.rs, m.dh>> /\ m.by = c.neg.peer /\ m.dh # None
  <2>1. v.sum = c.sum /\ v.dh = c.dh /\ v.master = MasterOf(c)
    BY <1>1, <1>4, ReaderFields
  <2>2. PICK dh, master :
          /\ Continues(origin, Certs, e, v, m, dh, master)
          /\ u = Flight(c.tin, <<c.peer>>, With(c.sum, m), dh, master)
    <3>1. m.msg \in HandshakeMessages \cup {"NoCertificate"} /\ m.msg # "ServerHelloDone"
      BY <1>9 DEF HandshakeMessages
    <3>2. v = Sees(e, c) /\ ~ (c.state = "SERVER_HELLO_DONE" /\ c.msg.msg = "ServerHelloDone")
          /\ c.state # FinishedState(Other(e))
      BY <1>4
    <3> HIDE DEF v
    <3> QED BY <3>1, <3>2, <1>1, <1>2, <1>4, <1>9, Continued
  <2> HIDE DEF v
  <2>3. Signs(Certs, v, m) /\ dh = m.dh /\ master = v.master
    BY <1>9, <2>2 DEF Continues
  <2> QED BY <2>1, <2>2, <2>3, <1>6, CertsAre DEF Signs
<1>10. CASE /\ ~ (m.signed = <<c.rc, c.rs, m.dh>> /\ m.by = c.neg.peer)
            /\ Leaves(e, c, d, "signature")
            /\ net[e] # <<>> /\ m = Incoming(e) /\ m.msg = "ServerKeyExchange"
  BY <1>9, <1>10
<1>11. CASE /\ d.dh = m.dh /\ m.msg = "ServerKeyExchange" /\ c.neg.suite \in DHE
            /\ Heeds(e, c, d, m, {"dh"})
  <2>1. d.state = "CERTIFICATE_REQUEST" /\ d.neg = c.neg /\ net[e] # <<>> /\ m = Incoming(e)
    BY <1>5, <1>11 DEF Heeds, Same, Fields
  <2>2. /\ u = Flight(c.tin, <<c.peer>>, With(c.sum, m), m.dh, MasterOf(c)) /\ m.dh # None
    BY <2>1, <1>9, <1>11
  <2>3. PeerMatches(e, d) /\ HalfMatches(e, d)
    BY <2>1, <2>2, <1>11, <1>6 DEF PeerMatches, HalfMatches, e
  <2> DEFINE F == {"dh"}
  <2>4. /\ Heeds(e, c, d, m, F) /\ "neg" \notin F
        /\ F \cap {"resume", "max", "minor", "tneg", "rc", "rs", "tin", "tout", "own", "peer",
                   "end", "sum"} = {}
        /\ F \cap {"tin", "tout", "own", "peer", "out"} = {}
    BY <1>11
  <2> HIDE DEF F
  <2>5. Touch(e, d) /\ d.end = "no" /\ MasterOf(d) = MasterOf(c)
    BY <2>1, <2>3, <2>4, <1>1, <1>2, <1>4, <1>7, TurnOn
  <2>6. ~ Harmless(m)
    BY <1>11 DEF Harmless
  <2>7. u = Flight(c.tin, <<c.peer>>, With(c.sum, m), d.dh, MasterOf(d))
    BY <2>2, <2>5, <1>11
  <2>8. Fares(e, c, u, d)
    BY <2>1, <2>4, <2>5, <2>6, <2>7, <1>1, <1>2, <1>4, <1>7, ReadsOn
  <2> QED BY <2>8 DEF e
<1> QED BY <1>3, <1>8, <1>10, <1>11

\* ssl_parse_certificate_request, which takes any message of the handshake.
LEMMA ParseCertificateRequestFares ==
  ASSUME NEW c, Poised("client", c), NEW u, HopDue("client", u), ParseCertificateRequest
  PROVE  \E d : Fares("client", c, u, d)
<1> DEFINE e == "client"
<1>1. /\ At(e, "CERTIFICATE_REQUEST") /\ nonce' = nonce /\ UNCHANGED <<conf, who, origin>>
      /\ e \in End /\ Other(e) = "server"
  BY DEF ParseCertificateRequest, Gets, envVars, End, Other
<1> HIDE DEF e
<1>2. /\ Typed /\ Typed' /\ c = ctx[e] /\ c.state = "CERTIFICATE_REQUEST" /\ c.end = "no"
      /\ c.out = None /\ AgreeInv /\ Touch(e, c) /\ Context(c) /\ c.state \in Named
      /\ Poised(e, c) /\ HopDue(e, u)
  BY <1>1, PoisedAt DEF e
<1>3. PICK d, m : Heeds(e, c, d, m, {"auth"}) /\ m.msg \in HandshakeMessages
  <2>1. ParseCertificateRequest /\ Typed /\ c = ctx["client"]
    BY <1>2 DEF e
  <2> QED BY <2>1, CertificateRequestParsed DEF e
<1>4. /\ Reading(e, c) /\ c.state \in Turns /\ c.state \notin Keyed /\ c.state \in Informed
      /\ c.state \notin {"SERVER_HELLO", "SERVER_HELLO_DONE", FinishedState(Other(e))}
  BY <1>2, <1>1 DEF e, Reading, TurnsOf, Turns, Keyed, FinishedState, Informed
<1>5. /\ d.state = "SERVER_HELLO_DONE" /\ d.neg = c.neg /\ net[e] # <<>> /\ m = Incoming(e)
      /\ d.dh = c.dh /\ d.sum = With(c.sum, m) /\ d.msg = m /\ d.tin = c.tin /\ d.tout = c.tout
      /\ d.own = c.own /\ d.out = c.out
  <2>1. Following(c.state) = "SERVER_HELLO_DONE"
    BY <1>2, ServerStates
  <2> QED BY <2>1, <1>3 DEF Heeds, Same, Fields
<1>6. /\ Reading(e, d) /\ d.state \in Turns /\ d.state \notin Keyed /\ d.state \in Informed
      /\ d.state # FinishedState(Other(e))
  BY <1>5, <1>1 DEF e, Reading, TurnsOf, Turns, Keyed, FinishedState, Informed
<1>7. PeerMatches(e, c) /\ HalfMatches(e, c) /\ Len(c.sum) >= 2
  BY <1>1, <1>2, <1>4, HellosIn DEF Touch, Matching
<1>8. PeerMatches(e, d) /\ HalfMatches(e, d)
  BY <1>5, <1>2, <1>4, <1>7 DEF PeerMatches, HalfMatches, e
<1> DEFINE F == {"auth"}
<1>9. /\ Heeds(e, c, d, m, F) /\ "neg" \notin F
      /\ F \cap {"resume", "max", "minor", "tneg", "rc", "rs", "tin", "tout", "own", "peer",
                 "end", "sum"} = {}
      /\ F \cap {"tin", "tout", "own", "peer", "out"} = {}
  BY <1>3
<1> HIDE DEF F
<1>10. Touch(e, d) /\ d.end = "no" /\ MasterOf(d) = MasterOf(c)
  BY <1>1, <1>2, <1>4, <1>6, <1>8, <1>9, TurnOn
<1>11. ~ Harmless(m) /\ m.msg # "ChangeCipherSpec" /\ m.msg # "NoCertificate"
  BY <1>3 DEF Harmless, HandshakeMessages
<1> DEFINE v == Sees(e, c)
           r == Head(net[e])
<1>12. /\ v.mode = "flight" /\ v.key = c.tin /\ v.info = <<c.peer>> /\ v.sum = c.sum
       /\ v.dh = c.dh /\ v.master = MasterOf(c)
  BY <1>1, <1>4, ReaderFields
<1>13. CASE m.msg = "ServerHelloDone"
  <2>1. MessageHop(origin, Certs, e, v, r, u) /\ r.body = m
    BY <1>1, <1>2, <1>4, <1>5, <1>11, Arrives DEF Incoming
  <2>2. u = Turned(v.key, With(v.sum, m), v.dh, v.master)
    <3> HIDE DEF v, r
    <3> QED BY <2>1, <1>13 DEF MessageHop, Continues
  <2>3. Sees(e, d) = Turned(d.tin, d.sum, d.dh, MasterOf(d))
    BY <1>1, <1>5, <1>6, <1>13, ReaderViews
  <2>4. Sees(e, d) = u
    <3> HIDE DEF v
    <3> QED BY <2>2, <2>3, <1>5, <1>10, <1>12
  <2>5. ~ Writing(e, c) /\ ~ Writing(e, d)
    BY <1>1, <1>4, <1>6, TurnsApart
  <2>6. Takes(e, c, u, d)
    BY <2>4, <2>5, <1>5 DEF Takes, Hushed
  <2>7. Learns(e, c, u, d)
    BY <2>5, <2>6, <1>5, <1>9, <1>11 DEF Learns, Heeds
  <2>8. Fares(e, c, u, d)
    BY <2>7, <1>10, <1>1, <1>2, FaresOn DEF Goes
  <2> QED BY <2>8 DEF e
<1>14. CASE m.msg # "ServerHelloDone"
  <2>1. PICK dh, master :
          /\ Continues(origin, Certs, e, v, m, dh, master)
          /\ u = Flight(c.tin, <<c.peer>>, With(c.sum, m), dh, master)
    <3>1. m.msg \in HandshakeMessages \cup {"NoCertificate"} /\ m.msg # "ServerHelloDone"
      BY <1>3, <1>14
    <3>2. v = Sees(e, c) /\ ~ (c.state = "SERVER_HELLO_DONE" /\ c.msg.msg = "ServerHelloDone")
          /\ c.state # FinishedState(Other(e))
      BY <1>4
    <3> HIDE DEF v
    <3> QED BY <3>1, <3>2, <1>1, <1>2, <1>4, <1>5, Continued
  <2>2. ~ (m.msg = "ServerHello" /\ Answers(origin, v, m, master))
    <3> HIDE DEF v
    <3>1. Answers(origin, v, m, master) => Len(v.sum) = 1
      BY DEF Answers
    <3>2. Len(c.sum) # 1
      <4>1. ASSUME Len(c.sum) = 1 PROVE FALSE
        <5>1. 1 >= 2
          BY <4>1, <1>7
        <5> QED BY <5>1
      <4> QED BY <4>1
    <3>3. v.sum = c.sum
      BY <1>12
    <3> QED BY <3>1, <3>2, <3>3
  <2>3. ~ Signs(Certs, v, m)
    <3>1. c.sum[2].suite \in DHE => c.dh # None
      BY <1>7, <1>2 DEF HalfMatches, e
    <3> HIDE DEF v
    <3> QED BY <3>1, <1>12 DEF Signs
  <2>4. dh = c.dh /\ master = MasterOf(c)
    <3>1. e # "server"
      BY DEF e
    <3> HIDE DEF v
    <3> QED BY <3>1, <2>1, <2>2, <2>3, <1>12 DEF Continues
  <2>5. u = Flight(c.tin, <<c.peer>>, With(c.sum, m), d.dh, MasterOf(d))
    BY <2>1, <2>4, <1>5, <1>10
  <2>6. ~ (d.state = "SERVER_HELLO_DONE" /\ d.msg.msg = "ServerHelloDone")
    BY <1>5, <1>14
  <2>7. Fares(e, c, u, d)
    BY <2>5, <2>6, <1>1, <1>2, <1>4, <1>6, <1>9, <1>10, <1>11, ReadsOn
  <2> QED BY <2>7 DEF e
<1> QED BY <1>13, <1>14

\* ssl_parse_server_hello_done.
LEMMA ParseServerHelloDoneFares ==
  ASSUME NEW c, Poised("client", c), NEW u, HopDue("client", u), ParseServerHelloDone
  PROVE  \E d : Fares("client", c, u, d)
<1> DEFINE e == "client"
<1>1. /\ At(e, "SERVER_HELLO_DONE") /\ nonce' = nonce /\ UNCHANGED <<conf, who, origin>>
      /\ e \in End /\ Other(e) = "server"
  BY DEF ParseServerHelloDone, Gets, envVars, End, Other
<1> HIDE DEF e
<1>2. /\ Typed /\ Typed' /\ c = ctx[e] /\ c.state = "SERVER_HELLO_DONE" /\ c.end = "no"
      /\ c.out = None /\ AgreeInv /\ Touch(e, c) /\ Context(c) /\ c.state \in Named
      /\ Poised(e, c) /\ HopDue(e, u)
  BY <1>1, PoisedAt DEF e
<1>3. PICK d, m : \/ Heeds(e, c, d, m, {}) /\ m.msg = "ServerHelloDone"
                  \/ Passes(e, c, d, {}) /\ c.msg.msg = "ServerHelloDone"
                  \/ Leaves(e, c, d, "unexpected")
  <2>1. ParseServerHelloDone /\ Typed /\ c = ctx["client"]
    BY <1>2 DEF e
  <2> QED BY <2>1, ServerHelloDoneParsed DEF e
<1>4. /\ Reading(e, c) /\ c.state \in Turns /\ c.state \notin Keyed /\ c.state \in Informed
      /\ c.state \notin {"SERVER_HELLO", FinishedState(e), FinishedState(Other(e))}
      /\ ~ Writing(e, c) /\ c.state # "HANDSHAKE_OVER" /\ c.state \notin WaitsOf(e)
  <2>1. Reading(e, c)
    BY <1>2, <1>1 DEF e, Reading, TurnsOf
  <2> QED BY <2>1, <1>1, <1>2, TurnsApart DEF e, Turns, TurnsOf, Keyed, FinishedState, Informed, WaitsOf
<1>5. Following(c.state) = "CLIENT_CERTIFICATE"
  BY <1>2, ServerStates
<1>6. ASSUME d.state = "CLIENT_CERTIFICATE", d.neg = c.neg
      PROVE  /\ d.state \in TurnsOf(e) /\ d.state \in Turns /\ d.state \notin Keyed
             /\ d.state # FinishedState(e) /\ PeerMatches(e, d) /\ HalfMatches(e, d)
             /\ Writing(e, d) /\ SumOf(e, d) = d.sum
  <2>1. /\ d.state \in TurnsOf(e) /\ d.state \in Turns /\ d.state \notin Keyed
        /\ d.state # FinishedState(e)
    BY <1>6 DEF e, Turns, TurnsOf, Keyed, FinishedState
  <2>2. PeerMatches(e, c)
    BY <1>2, <1>4 DEF Touch, Matching
  <2>3. PeerMatches(e, d) /\ HalfMatches(e, d)
    BY <1>6, <1>4, <2>2 DEF PeerMatches, HalfMatches, e
  <2>4. Writing(e, d) /\ SumOf(e, d) = d.sum
    BY <2>1, <1>1, TurnsApart DEF SumOf
  <2> QED BY <2>1, <2>3, <2>4
<1>7. CASE Leaves(e, c, d, "unexpected")
  <2>1. Dies(e, c, d)
    BY <1>7, <1>1, <1>2, <1>4, LeavesDies
  <2> QED BY <2>1 DEF Fares, e
<1>8. CASE Passes(e, c, d, {}) /\ c.msg.msg = "ServerHelloDone"
  <2>1. /\ d.state = "CLIENT_CERTIFICATE" /\ d.neg = c.neg /\ d.sum = c.sum /\ d.tin = c.tin
        /\ d.tout = c.tout /\ d.own = c.own /\ d.out = c.out /\ d.dh = c.dh /\ Becomes(e, d)
    BY <1>5, <1>8 DEF Passes, Same, Fields
  <2>2. Touch(e, d) /\ d.end = "no" /\ MasterOf(d) = MasterOf(c)
    BY <2>1, <1>1, <1>2, <1>4, <1>6, <1>8, TurnOn
  <2>3. Sees(e, c) = Turned(c.tin, c.sum, c.dh, MasterOf(c))
    BY <1>1, <1>2, <1>4, <1>8, ReaderViews
  <2>4. Sees(e, c) = Turned(d.tin, SumOf(e, d), d.dh, MasterOf(d))
    BY <2>1, <2>2, <2>3, <1>6
  <2>5. Takes(e, c, Sees(e, c), d)
    BY <2>1, <2>4, <1>6 DEF Takes, Hushed
  <2>6. Rests(e, c, d)
    BY <2>1, <2>5, <1>4 DEF Rests
  <2>7. Fares(e, c, u, d)
    BY <2>6, <2>2, <1>1, <1>2, FaresOn DEF Goes
  <2> QED BY <2>7 DEF e
<1>9. CASE Heeds(e, c, d, m, {}) /\ m.msg = "ServerHelloDone"
  <2>1. /\ d.state = "CLIENT_CERTIFICATE" /\ d.neg = c.neg /\ d.sum = With(c.sum, m) /\ d.dh = c.dh
        /\ net[e] # <<>> /\ m = Incoming(e)
    BY <1>5, <1>9 DEF Heeds, Same, Fields
  <2>2. Touch(e, d) /\ d.end = "no" /\ MasterOf(d) = MasterOf(c)
    BY <2>1, <1>1, <1>2, <1>4, <1>6, <1>9, TurnOn
  <2> DEFINE v == Sees(e, c)
             r == Head(net[e])
  <2>3. ~ Harmless(m) /\ r.body = m
    BY <1>9, <2>1 DEF Harmless, Incoming
  <2>4. c.msg.msg # "ServerHelloDone"
    <3>1. SUFFICES ASSUME c.msg.msg = "ServerHelloDone" PROVE FALSE
      OBVIOUS
    <3>2. v = Turned(c.tin, c.sum, c.dh, MasterOf(c))
      BY <3>1, <1>1, <1>2, <1>4, ReaderViews
    <3>3. v.mode = "done"
      BY <3>2 DEF Turned, View
    <3>4. Hop(origin, Certs, e, v, r, u)
      BY <2>1, <1>2, <1>4 DEF HopDue
    <3> HIDE DEF v, r
    <3>5. Stays(e, v, u)
      BY <3>4, <1>1, HopStays
    <3>6. u = v
      BY <3>3, <3>5 DEF Stays
    <3> QED BY <3>3, <3>4, <3>6, <2>3, <1>1, HopStays
  <2>5. MessageHop(origin, Certs, e, v, r, u)
    BY <2>1, <2>3, <2>4, <1>1, <1>2, <1>4, Arrives
  <2>6. v.key = c.tin /\ v.sum = c.sum /\ v.dh = c.dh /\ v.master = MasterOf(c)
    BY <2>4, <1>1, <1>4, ReaderFields
  <2>7. u = Turned(v.key, With(v.sum, m), v.dh, v.master)
    <3> HIDE DEF v, r
    <3> QED BY <2>3, <2>5, <1>9 DEF MessageHop, Continues
  <2>8. u = Turned(c.tin, With(c.sum, m), d.dh, MasterOf(d))
    <3> HIDE DEF v
    <3> QED BY <2>1, <2>2, <2>6, <2>7
  <2>9. Learns(e, c, u, d)
    BY <2>3, <2>8, <2>1, <1>1, <1>4, <1>6, <1>9, HeedsTurned
  <2>10. Fares(e, c, u, d)
    BY <2>9, <2>2, <1>1, <1>2, FaresOn DEF Goes
  <2> QED BY <2>10 DEF e
<1> QED BY <1>3, <1>7, <1>8, <1>9

\* ssl_parse_client_key_exchange.
LEMMA ParseClientKeyExchangeFares ==
  ASSUME NEW c, Poised("server", c), NEW u, HopDue("server", u), ParseClientKeyExchange
  PROVE  \E d : Fares("server", c, u, d)
<1> DEFINE e == "server"
<1>1. /\ At(e, "CLIENT_KEY_EXCHANGE") /\ UNCHANGED <<conf, who, origin>>
      /\ e \in End /\ Other(e) = "client"
  BY DEF ParseClientKeyExchange, Gets, envVars, End, Other
<1>0. nonce' = nonce \/ nonce' = nonce + 1
  <2>1. nonce' = nonce + 0 \/ nonce' = nonce + 1
    BY DEF ParseClientKeyExchange, Draws
  <2>2. nonce \in Nat
    BY DEF Poised, AgreeInv, Typed
  <2> QED BY <2>1, <2>2
<1> HIDE DEF e
<1>2. /\ Typed /\ Typed' /\ c = ctx[e] /\ c.state = "CLIENT_KEY_EXCHANGE" /\ c.end = "no"
      /\ c.out = None /\ AgreeInv /\ Touch(e, c) /\ Context(c) /\ c.state \in Named
      /\ Poised(e, c) /\ HopDue(e, u)
  BY <1>1, PoisedAt DEF e
<1>3. PICK d, m, s : /\ Heeds(e, c, d, m, Secrets) /\ m.msg = "ClientKeyExchange"
                     /\ KeysFrom(c, d, s)
                     /\ IF c.neg.suite \in DHE THEN s = <<c.dh, m.half>>
                        ELSE m.sealed # None /\ m.sealed[1] = conf.scert /\ m.sealed[2][1] = c.max
                               => s = m.sealed[2]
  <2>1. ParseClientKeyExchange /\ Typed /\ c = ctx["server"]
    BY <1>2 DEF e
  <2> QED BY <2>1, ClientKeyExchangeParsed DEF e
<1>4. /\ Reading(e, c) /\ c.state \in Turns
      /\ c.state \notin {"SERVER_HELLO_DONE", FinishedState(Other(e))}
  BY <1>2, <1>1 DEF e, Reading, TurnsOf, Turns, FinishedState
<1>5. /\ d.state = "CERTIFICATE_VERIFY" /\ net[e] # <<>> /\ m = Incoming(e)
      /\ d.dh = c.dh /\ d.sum = With(c.sum, m) /\ d.tin = c.tin /\ d.tout = c.tout
      /\ d.own = c.own /\ d.peer = c.peer /\ d.out = c.out /\ d.resume = c.resume /\ d.max = c.max
      /\ d.minor = c.minor /\ d.end = c.end
  <2>1. Following(c.state) = "CERTIFICATE_VERIFY"
    BY <1>2, ServerStates
  <2> QED BY <2>1, <1>3 DEF Heeds, Same, Fields, Secrets
<1>6. Reading(e, d) /\ d.state # FinishedState(Other(e)) /\ d.state # "SERVER_HELLO_DONE"
  BY <1>5, <1>1 DEF e, Reading, TurnsOf, FinishedState
<1>7. Blank(d)
  BY <1>2, <1>5 DEF Touch, Blank
<1>8. /\ MasterOf(d) = PRF(s, "master", <<c.sum[1].random, c.sum[2].random>>)
      /\ Touch(e, d)
  <2>1. KeysFrom(c, d, s) /\ d.sum = With(c.sum, m) /\ d.state = "CERTIFICATE_VERIFY"
        /\ d.resume = c.resume /\ d.max = c.max /\ d.minor = c.minor
    BY <1>3, <1>5
  <2>2. e \in End /\ Poised(e, c) /\ c.end = "no" /\ c.state = "CLIENT_KEY_EXCHANGE"
    BY <1>1, <1>2
  <2> QED BY <2>1, <2>2, <1>7, KeysMade
<1>9. c.sum[2].suite = c.neg.suite /\ c.sum[1].max = c.max
  BY <1>1, <1>2, <1>4, HellosIn DEF Touch, Matching
<1> DEFINE v == Sees(e, c)
<1>10. v.dh = c.dh /\ v.sum = c.sum
  BY <1>1, <1>4, ReaderFields
<1>11. PICK dh, master :
         /\ Continues(origin, Certs, e, v, m, dh, master)
         /\ u = Flight(c.tin, <<c.peer>>, With(c.sum, m), dh, master)
  <2>1. m.msg \in HandshakeMessages \cup {"NoCertificate"} /\ m.msg # "ServerHelloDone"
    BY <1>3 DEF HandshakeMessages
  <2>2. v = Sees(e, c) /\ ~ (c.state = "SERVER_HELLO_DONE" /\ c.msg.msg = "ServerHelloDone")
        /\ c.state # FinishedState(Other(e))
    BY <1>4
  <2> HIDE DEF v
  <2> QED BY <2>1, <2>2, <1>1, <1>2, <1>4, <1>5, Continued
<1> HIDE DEF v
<1>12. Seals(Certs, v, m, master) /\ dh = v.dh
  BY <1>3, <1>11 DEF Continues
<1>13. PICK secret :
         /\ IF v.sum[2].suite \in DHE THEN secret = <<v.dh, m.half>>
            ELSE m.sealed # None /\ m.sealed[1] = Certs["server"] /\ m.sealed[2] = secret
                 /\ secret[1] = v.sum[1].max
         /\ master = PRF(secret, "master", <<v.sum[1].random, v.sum[2].random>>)
  BY <1>12 DEF Seals
<1>14. s = secret
  <2>1. CASE c.neg.suite \in DHE
    BY <2>1, <1>3, <1>9, <1>10, <1>13
  <2>2. CASE c.neg.suite \notin DHE
    <3>1. m.sealed # None /\ m.sealed[1] = conf.scert /\ m.sealed[2] = secret /\ secret[1] = c.max
      BY <2>2, <1>9, <1>10, <1>13, CertsAre
    <3>2. m.sealed[2][1] = c.max
      BY <3>1
    <3>3. m.sealed # None /\ m.sealed[1] = conf.scert /\ m.sealed[2][1] = c.max => s = m.sealed[2]
      BY <2>2, <1>3
    <3> QED BY <3>1, <3>2, <3>3
  <2> QED BY <2>1, <2>2
<1>15. u = Flight(c.tin, <<c.peer>>, With(c.sum, m), d.dh, MasterOf(d))
  BY <1>5, <1>8, <1>10, <1>11, <1>12, <1>13, <1>14
<1>16. ~ Harmless(m) /\ Secrets \cap {"tin", "tout", "own", "peer", "out"} = {}
  BY <1>3 DEF Harmless, Secrets
<1>17. Fares(e, c, u, d)
  <2>1. Heeds(e, c, d, m, Secrets)
    BY <1>3
  <2> QED BY <2>1, <1>0, <1>1, <1>2, <1>4, <1>5, <1>6, <1>8, <1>15, <1>16, ReadsOn
<1> QED BY <1>17 DEF e

\* ssl_parse_certificate_verify.
LEMMA ParseCertificateVerifyFares ==
  ASSUME NEW c, Poised("server", c), NEW u, HopDue("server", u), ParseCertificateVerify
  PROVE  \E d : Fares("server", c, u, d)
<1> DEFINE e == "server"
<1>1. /\ At(e, "CERTIFICATE_VERIFY") /\ nonce' = nonce /\ UNCHANGED <<conf, who, origin>>
      /\ e \in End /\ Other(e) = "client"
  BY DEF ParseCertificateVerify, Gets, envVars, End, Other
<1> HIDE DEF e
<1>2. /\ Typed /\ Typed' /\ c = ctx[e] /\ c.state = "CERTIFICATE_VERIFY" /\ c.end = "no"
      /\ c.out = None /\ AgreeInv /\ Touch(e, c) /\ Context(c) /\ c.state \in Named
      /\ Poised(e, c) /\ HopDue(e, u)
  BY <1>1, PoisedAt DEF e
<1>3. PICK d, m : \/ Passes(e, c, d, {})
                  \/ /\ c.neg.peer # None /\ net[e] # <<>> /\ m = Incoming(e)
                     /\ m.msg = "CertificateVerify"
                     /\ \/ Heeds(e, c, d, m, {})
                        \/ /\ ~ (m.signed = c.sum /\ m.by = c.neg.peer)
                           /\ Leaves(e, c, d, "signature")
  <2>1. ParseCertificateVerify /\ Typed /\ c = ctx["server"]
    BY <1>2 DEF e
  <2> QED BY <2>1, CertificateVerifyParsed DEF e
<1>4. /\ Reading(e, c) /\ c.state \in Turns /\ c.state \in Keyed /\ c.state \notin WaitsOf(e)
      /\ c.state \notin {"SERVER_HELLO", "SERVER_HELLO_DONE", FinishedState(Other(e))}
  BY <1>2, <1>1 DEF e, Reading, TurnsOf, Turns, FinishedState, Keyed, WaitsOf
<1>5. Following(c.state) = "CLIENT_CHANGE_CIPHER_SPEC"
  BY <1>2, ServerStates
<1>6. ASSUME d.state = "CLIENT_CHANGE_CIPHER_SPEC"
      PROVE  /\ Reading(e, d) /\ d.state \in Turns /\ d.state \in Keyed
             /\ d.state \notin {"SERVER_HELLO", "SERVER_HELLO_DONE", FinishedState(Other(e))}
             /\ PeerMatches(e, d) /\ HalfMatches(e, d)
  BY <1>6, <1>1 DEF e, Reading, TurnsOf, Turns, FinishedState, Keyed, PeerMatches, HalfMatches,
     Informed
<1>7. c.neg.peer \in {None, Own("client")}
  BY <1>2, <1>4 DEF Touch, Matching, PeerMatches, e
<1>8. CASE Passes(e, c, d, {})
  <2>1. d.state = "CLIENT_CHANGE_CIPHER_SPEC"
    BY <1>5, <1>8 DEF Passes
  <2>2. Touch(e, d) /\ d.end = "no" /\ MasterOf(d) = MasterOf(c)
    BY <2>1, <1>1, <1>2, <1>4, <1>6, <1>8, TurnOn
  <2> QED BY <2>1, <2>2, <1>1, <1>2, <1>4, <1>6, <1>8, RestsOn DEF e
<1> DEFINE v == Sees(e, c)
<1>9. ASSUME c.neg.peer # None, net[e] # <<>>, m = Incoming(e), m.msg = "CertificateVerify"
      PROVE  /\ u = Flight(c.tin, <<c.peer>>, With(c.sum, m), c.dh, MasterOf(c))
             /\ m.signed = c.sum /\ m.by = c.neg.peer
  <2>1. v.sum = c.sum /\ v.dh = c.dh /\ v.master = MasterOf(c)
    BY <1>1, <1>4, ReaderFields
  <2>2. PICK dh, master :
          /\ Continues(origin, Certs, e, v, m, dh, master)
          /\ u = Flight(c.tin, <<c.peer>>, With(c.sum, m), dh, master)
    <3>1. m.msg \in HandshakeMessages \cup {"NoCertificate"} /\ m.msg # "ServerHelloDone"
      BY <1>9 DEF HandshakeMessages
    <3>2. v = Sees(e, c) /\ ~ (c.state = "SERVER_HELLO_DONE" /\ c.msg.msg = "ServerHelloDone")
          /\ c.state # FinishedState(Other(e))
      BY <1>4
    <3> HIDE DEF v
    <3> QED BY <3>1, <3>2, <1>1, <1>2, <1>4, <1>9, Continued
  <2> HIDE DEF v
  <2>3. dh = v.dh /\ master = v.master /\ m.signed = v.sum /\ m.by = Certs["client"]
    BY <1>9, <2>2 DEF Continues
  <2> QED BY <2>1, <2>2, <2>3, <1>7, <1>9, CertsAre
<1>10. CASE /\ c.neg.peer # None /\ net[e] # <<>> /\ m = Incoming(e)
            /\ m.msg = "CertificateVerify"
            /\ \/ Heeds(e, c, d, m, {})
               \/ /\ ~ (m.signed = c.sum /\ m.by = c.neg.peer)
                  /\ Leaves(e, c, d, "signature")
  <2>1. Heeds(e, c, d, m, {}) /\ u = Flight(c.tin, <<c.peer>>, With(c.sum, m), c.dh, MasterOf(c))
    BY <1>9, <1>10
  <2>2. d.state = "CLIENT_CHANGE_CIPHER_SPEC" /\ d.dh = c.dh
    BY <1>5, <2>1 DEF Heeds, Same, Fields
  <2>3. Touch(e, d) /\ d.end = "no" /\ MasterOf(d) = MasterOf(c)
    BY <2>1, <2>2, <1>1, <1>2, <1>4, <1>6, TurnOn
  <2>4. ~ Harmless(m)
    BY <1>10 DEF Harmless
  <2>5. u = Flight(c.tin, <<c.peer>>, With(c.sum, m), d.dh, MasterOf(d))
    BY <2>1, <2>2, <2>3
  <2> QED BY <2>1, <2>2, <2>3, <2>4, <2>5, <1>1, <1>2, <1>4, <1>6, ReadsOn DEF e
<1> QED BY <1>3, <1>8, <1>10

\* ssl_parse_certificate at a server that asks for none.
LEMMA SkipCertificateFares ==
  ASSUME NEW c, Poised("server", c), NEW u, SkipCertificate
  PROVE  \E d : Fares("server", c, u, d)
<1> DEFINE e == "server"
<1>1. /\ At(e, "CLIENT_CERTIFICATE") /\ nonce' = nonce /\ UNCHANGED <<conf, who, origin>>
      /\ e \in End /\ Other(e) = "client"
  BY DEF SkipCertificate, envVars, End, Other
<1> HIDE DEF e
<1>2. /\ Typed /\ c = ctx[e] /\ c.state = "CLIENT_CERTIFICATE" /\ c.end = "no"
      /\ AgreeInv /\ Touch(e, c) /\ Poised(e, c)
  BY <1>1, PoisedAt DEF e
<1>3. PICK d : Passes(e, c, d, {"verify"})
  <2>1. SkipCertificate /\ Typed /\ c = ctx["server"]
    BY <1>2 DEF e
  <2> QED BY <2>1, CertificateSkipped DEF e
<1>4. /\ d.state = "CLIENT_KEY_EXCHANGE" /\ d.neg = c.neg
  <2>1. Following(c.state) = "CLIENT_KEY_EXCHANGE"
    BY <1>2, ServerStates
  <2> QED BY <2>1, <1>3 DEF Passes, Same, Fields
<1>5. /\ Reading(e, c) /\ c.state \in Turns /\ c.state \notin Keyed
      /\ c.state \notin {"SERVER_HELLO", "SERVER_HELLO_DONE", FinishedState(Other(e))}
      /\ Reading(e, d) /\ d.state \in Turns /\ d.state \notin Keyed /\ d.state \in WaitsOf(e)
      /\ d.state \notin {"SERVER_HELLO", "SERVER_HELLO_DONE", FinishedState(Other(e))}
  BY <1>1, <1>2, <1>4 DEF e, Reading, TurnsOf, Turns, FinishedState, Keyed, WaitsOf
<1>6. PeerMatches(e, c)
  BY <1>2, <1>5 DEF Touch, Matching
<1>7. PeerMatches(e, d) /\ HalfMatches(e, d)
  BY <1>2, <1>4, <1>6 DEF PeerMatches, HalfMatches, Informed, e
<1> DEFINE F == {"verify"}
<1>8. /\ Passes(e, c, d, F) /\ "neg" \notin F
      /\ F \cap {"resume", "max", "minor", "tneg", "rc", "rs", "tin", "tout", "own", "peer",
                 "end", "sum"} = {}
      /\ F \cap {"tin", "tout", "own", "peer", "out", "dh", "sum"} = {}
  BY <1>3
<1> HIDE DEF F
<1>9. Touch(e, d) /\ d.end = "no" /\ MasterOf(d) = MasterOf(c)
  BY <1>1, <1>2, <1>5, <1>7, <1>8, TurnOn
<1>10. Fares(e, c, u, d)
  BY <1>1, <1>2, <1>5, <1>8, <1>9, RestsOn
<1> QED BY <1>10 DEF e

\* ssl_parse_change_cipher_spec.
LEMMA ParseChangeCipherSpecFares ==
  ASSUME NEW e \in End, NEW c, Poised(e, c), NEW u, HopDue(e, u), ParseChangeCipherSpec(e)
  PROVE  \E d : Fares(e, c, u, d)
<1>1. /\ At(e, SpecState(Other(e))) /\ nonce' = nonce /\ UNCHANGED <<conf, who, origin>>
  BY DEF ParseChangeCipherSpec, Gets, envVars
<1>2. /\ Typed /\ Typed' /\ c = ctx[e] /\ c.state = SpecState(Other(e)) /\ c.end = "no"
      /\ c.out = None /\ AgreeInv /\ Touch(e, c) /\ Context(c) /\ c.state \in Named
  BY <1>1, PoisedAt
<1>3. PICK d, m : Heeds(e, c, d, m, {}) /\ m.msg = "ChangeCipherSpec"
  <2>1. ParseChangeCipherSpec(e) /\ Typed /\ c = ctx[e]
    BY <1>2
  <2> QED BY <2>1, ChangeCipherSpecTurns
<1>4. /\ e = "client" => c.state = "SERVER_CHANGE_CIPHER_SPEC"
      /\ e = "server" => c.state = "CLIENT_CHANGE_CIPHER_SPEC"
      /\ d.state = Following(c.state)
  BY <1>2, <1>3 DEF SpecState, Other, Heeds
<1>5. /\ e = "client" => d.state = "SERVER_FINISHED"
      /\ e = "server" => d.state = "CLIENT_FINISHED"
  BY <1>4, ServerStates
<1>6. /\ Reading(e, c) /\ c.state \in Turns /\ c.state \in Keyed
      /\ c.state \notin {"SERVER_HELLO_DONE", FinishedState(Other(e))}
      /\ Reading(e, d) /\ d.state \in Turns /\ d.state \in Keyed
      /\ d.state # "SERVER_HELLO_DONE" /\ d.state = FinishedState(Other(e))
      /\ d.state \notin Informed \cup {"SERVER_CERTIFICATE", "CERTIFICATE_VERIFY"}
  BY <1>4, <1>5 DEF End, Reading, TurnsOf, Turns, Keyed, FinishedState, Other, Informed
<1>7. PeerMatches(e, d) /\ HalfMatches(e, d)
  BY <1>5, <1>6 DEF PeerMatches, HalfMatches, Informed, End
<1>8. Touch(e, d) /\ d.end = "no" /\ MasterOf(d) = MasterOf(c)
  BY <1>2, <1>3, <1>6, <1>7, TurnOn
<1>9. /\ net[e] # <<>> /\ m = Incoming(e) /\ d.dh = c.dh /\ d.sum = With(c.sum, m)
  BY <1>3 DEF Heeds, Same, Fields
<1>10. ~ Harmless(m) /\ With(c.sum, m) = c.sum
  BY <1>3 DEF Harmless, With, HandshakeMessages
<1> DEFINE v == Sees(e, c)
           r == Head(net[e])
<1>11. MessageHop(origin, Certs, e, v, r, u) /\ r.body = m
  BY <1>2, <1>6, <1>9, <1>10, Arrives DEF Incoming
<1>12. /\ v.key = c.tin /\ v.info = <<c.peer>> /\ v.sum = c.sum /\ v.dh = c.dh
       /\ v.master = MasterOf(c)
  BY <1>6, ReaderFields
<1>13. u = View("flight", v.key, TRUE, v.info, v.sum, v.dh, v.master)
  <2> HIDE DEF v, r
  <2> QED BY <1>3, <1>11 DEF MessageHop, Continues
<1>14. (d.state = FinishedState(Other(e))) = TRUE
  BY <1>6
<1>15. u = View("flight", c.tin, d.state = FinishedState(Other(e)), <<c.peer>>, With(c.sum, m), d.dh,
                MasterOf(d))
  <2> HIDE DEF v
  <2> QED BY <1>8, <1>9, <1>10, <1>12, <1>13, <1>14
<1>16. Learns(e, c, u, d)
  BY <1>3, <1>6, <1>10, <1>15, HeedsOn
<1> QED BY <1>16, <1>8, <1>1, <1>2, FaresOn DEF Goes

-----------------------------------------------------------------------------
(* The turns between handshakes                                              *)

\* Behind a handshake nothing is left of it.
LEMMA TouchOver ==
  ASSUME NEW e, NEW d, d.state \in {"FLUSH_BUFFERS", "HANDSHAKE_WRAPUP", "HANDSHAKE_OVER"}, Blank(d)
  PROVE  Touch(e, d)
<1>1. d.state \notin Turns
  BY DEF Turns, TurnsOf
<1> QED BY <1>1 DEF Touch, Ready, Greets, Matching, Waking

\* An end between handshakes that stays there.
LEMMA IdleOn ==
  ASSUME NEW e \in End, NEW c, Idle(e, c), NEW d, Idle(e, d), Unmet(c) <=> Unmet(d),
         d.tin = c.tin, d.tout = c.tout, d.own = c.own, d.peer = c.peer
  PROVE  /\ Sees(e, d) = Sees(e, c) /\ Tells(e, d) = Tells(e, c) /\ Sees(e, c).mode = "calm"
         /\ ~ Tells(e, c).due /\ Tells(e, c).key = c.tout
         /\ ~ Writing(e, c) /\ ~ Writing(e, d) /\ ~ Reading(e, c) /\ ~ Reading(e, d)
<1>1. /\ Tells(e, c) = Calm(c.tout, IF Unmet(c) THEN <<>> ELSE <<c.own>>)
      /\ Sees(e, c) = Calm(c.tin, IF Unmet(c) THEN <<>> ELSE <<c.peer>>)
  BY IdleViews
<1>2. /\ Tells(e, d) = Calm(d.tout, IF Unmet(d) THEN <<>> ELSE <<d.own>>)
      /\ Sees(e, d) = Calm(d.tin, IF Unmet(d) THEN <<>> ELSE <<d.peer>>)
  BY IdleViews
<1>3. Sees(e, d) = Sees(e, c) /\ Tells(e, d) = Tells(e, c)
  BY <1>1, <1>2
<1>4. \A k, i : Calm(k, i).mode = "calm" /\ ~ Calm(k, i).due /\ Calm(k, i).key = k
  BY DEF Calm, View
<1> QED BY <1>1, <1>3, <1>4, TurnsApart

\* ... and says nothing.
LEMMA IdleRests ==
  ASSUME NEW e \in End, NEW c, Poised(e, c), NEW u, Idle(e, c), NEW d, Idle(e, d),
         Unmet(c) <=> Unmet(d), d.tin = c.tin, d.tout = c.tout, d.own = c.own, d.peer = c.peer,
         d.out = c.out, Becomes(e, d), c.state = "HANDSHAKE_OVER" => d.state = "HANDSHAKE_OVER",
         d.end = "no", Touch(e, d), nonce' = nonce, UNCHANGED <<conf, who, origin>>
  PROVE  Fares(e, c, u, d)
<1>1. /\ Sees(e, d) = Sees(e, c) /\ Tells(e, d) = Tells(e, c)
      /\ ~ Writing(e, c) /\ ~ Writing(e, d) /\ ~ Reading(e, d)
  BY IdleOn
<1>2. Takes(e, c, Sees(e, c), d)
  BY <1>1 DEF Takes, Hushed
<1>3. c.state # "SERVER_HELLO"
  BY DEF Idle, Waking
<1>4. Rests(e, c, d)
  BY <1>1, <1>2, <1>3 DEF Rests, Works
<1>5. Typed /\ Typed'
  BY DEF Poised, AgreeInv
<1> QED BY <1>4, <1>5, FaresOn DEF Goes

\* SSL_FLUSH_BUFFERS.
LEMMA FlushBuffersFares ==
  ASSUME NEW e \in End, NEW c, Poised(e, c), NEW u, FlushBuffers(e)
  PROVE  \E d : Fares(e, c, u, d)
<1>1. /\ At(e, "FLUSH_BUFFERS") /\ nonce' = nonce /\ UNCHANGED <<conf, who, origin>>
  BY DEF FlushBuffers, envVars
<1>2. /\ Typed /\ c = ctx[e] /\ c.state = "FLUSH_BUFFERS" /\ c.end = "no" /\ Touch(e, c)
  BY <1>1, PoisedAt
<1>3. PICK d : Passes(e, c, d, {})
  <2>1. FlushBuffers(e) /\ Typed /\ c = ctx[e]
    BY <1>2
  <2> QED BY <2>1, ChangeCipherSpecTurns
<1>4. /\ d.state = "HANDSHAKE_WRAPUP" /\ d.tin = c.tin /\ d.tout = c.tout /\ d.own = c.own
      /\ d.peer = c.peer /\ d.out = c.out /\ d.end = c.end /\ Becomes(e, d)
  BY <1>2, <1>3, ServerStates DEF Passes, Same, Fields
<1>5. Touch(e, d)
  BY <1>2, <1>4, TouchOver DEF Touch, Blank
<1>6. Idle(e, c) /\ Idle(e, d) /\ ~ Unmet(c) /\ ~ Unmet(d)
  BY <1>2, <1>4 DEF Idle, Unmet, Waking
<1> QED BY <1>1, <1>2, <1>4, <1>5, <1>6, IdleRests

\* ssl_handshake_wrapup.
LEMMA WrapupFares ==
  ASSUME NEW e \in End, NEW c, Poised(e, c), NEW u, Wrapup(e)
  PROVE  \E d : Fares(e, c, u, d)
<1>1. Typed /\ c = ctx[e] /\ Touch(e, c)
  BY DEF Poised, AgreeInv
<1>2. PICK d : Wraps(e, c, d)
  BY <1>1, WrapupIs
<1>3. /\ c.state = "HANDSHAKE_WRAPUP" /\ c.end = "no" /\ nonce' = nonce
      /\ UNCHANGED <<conf, who, origin>>
      /\ d.state = "HANDSHAKE_OVER" /\ d.tin = c.tin /\ d.tout = c.tout /\ d.own = c.own
      /\ d.peer = c.peer /\ d.out = c.out /\ d.end = c.end /\ Becomes(e, d)
  BY <1>1, <1>2 DEF Wraps, At, Same, Fields
<1>4. Touch(e, d)
  BY <1>1, <1>3, TouchOver DEF Touch, Blank
<1>5. Idle(e, c) /\ Idle(e, d) /\ ~ Unmet(c) /\ ~ Unmet(d)
  BY <1>3 DEF Idle, Unmet, Waking
<1> QED BY <1>3, <1>4, <1>5, IdleRests

\* SSL_HELLO_REQUEST.
LEMMA StartFares ==
  ASSUME NEW e \in End, NEW c, Poised(e, c), NEW u, Start(e)
  PROVE  \E d : Fares(e, c, u, d)
<1>1. Typed /\ Typed' /\ c = ctx[e] /\ Touch(e, c) /\ nonce' = nonce /\ UNCHANGED <<conf, who, origin>>
  BY DEF Poised, AgreeInv, Start, envVars
<1>2. PICK d : /\ At(e, "HELLO_REQUEST") /\ Becomes(e, d)
               /\ Same(c, d, {"state"}) /\ d.state = "CLIENT_HELLO"
  BY <1>1, StartIs
<1>3. /\ c.state = "HELLO_REQUEST" /\ c.end = "no"
      /\ d.tin = c.tin /\ d.tout = c.tout /\ d.own = c.own
      /\ d.peer = c.peer /\ d.out = c.out /\ d.end = c.end /\ d.reneg = c.reneg /\ d.resume = c.resume
      /\ d.neg = c.neg /\ d.msg = c.msg /\ d.dh = c.dh
  BY <1>1, <1>2 DEF At, Same, Fields
<1>4. Waking(c) /\ Waking(d) /\ (Called(e, c) <=> Called(e, d)) /\ (Unmet(c) <=> Unmet(d))
      /\ d.state \notin Turns /\ d.state # "SERVER_HELLO"
  BY <1>2, <1>3 DEF Waking, Called, Unmet, Turns, TurnsOf
<1>5. Touch(e, d)
  <2>1. Ready(e, d)
    BY <1>1, <1>3, <1>4 DEF Touch, Ready
  <2> QED BY <2>1, <1>1, <1>3, <1>4 DEF Touch, Greets, Matching, Blank
<1>6. CASE Called(e, c)
  <2>1. Tells(e, d) = Tells(e, c)
    BY <1>3, <1>4, <1>6, CalledTells
  <2>2. Writing(e, c) /\ ~ Reading(e, d)
    BY <1>4, <1>6, TurnsApart
  <2>3. Acts(e, c, d)
    BY <2>1, <2>2, <1>2, <1>3 DEF Acts, Works
  <2> QED BY <2>3, <1>1, <1>3, <1>5, FaresOn DEF Goes
<1>7. CASE ~ Called(e, c)
  <2>1. Idle(e, c) /\ Idle(e, d)
    BY <1>4, <1>7 DEF Idle
  <2> QED BY <2>1, <1>1, <1>2, <1>3, <1>4, <1>5, IdleRests
<1> QED BY <1>6, <1>7

\* ssl_write.
LEMMA WriteDataFares ==
  ASSUME NEW e \in End, NEW c, Poised(e, c), NEW u, WriteData(e)
  PROVE  \E d : Fares(e, c, u, d)
<1>1. Typed /\ Typed' /\ c = ctx[e] /\ Touch(e, c) /\ nonce' = nonce /\ UNCHANGED <<conf, who, origin>>
  BY DEF Poised, AgreeInv, WriteData
<1>2. PICK d, m : /\ At(e, "HANDSHAKE_OVER") /\ Becomes(e, d) /\ Same(c, d, {"sum", "out"})
                  /\ d.out = [key |-> c.tout, body |-> m] /\ m.msg = "Data"
  BY <1>1, DataWritten
<1>3. /\ c.state = "HANDSHAKE_OVER" /\ c.end = "no" /\ c.out = None
      /\ d.state = "HANDSHAKE_OVER" /\ d.tin = c.tin /\ d.tout = c.tout /\ d.own = c.own
      /\ d.peer = c.peer /\ d.end = c.end
  BY <1>1, <1>2 DEF At, Same, Fields
<1>4. d.out # None /\ d.out.key = c.tout /\ Harmless(d.out.body)
  BY <1>2 DEF Poised, NullIsNull, Harmless
<1>5. Touch(e, d)
  BY <1>1, <1>3, TouchOver DEF Touch, Blank
<1>6. Idle(e, c) /\ Idle(e, d) /\ ~ Unmet(c) /\ ~ Unmet(d)
  BY <1>3 DEF Idle, Unmet, Waking
<1>7. /\ Sees(e, d) = Sees(e, c) /\ Tells(e, d) = Tells(e, c)
      /\ ~ Tells(e, c).due /\ Tells(e, c).key = c.tout
      /\ ~ Writing(e, c) /\ ~ Writing(e, d) /\ ~ Reading(e, d)
  BY <1>3, <1>6, IdleOn
<1>8. Hop(origin, Certs, Other(e), Tells(e, c), d.out, Tells(e, d))
  BY <1>4, <1>7 DEF Hop, HarmlessHop
<1>9. Takes(e, c, Sees(e, c), d)
  BY <1>3, <1>4, <1>7 DEF Takes, Hushed
<1>10. Rests(e, c, d)
  BY <1>2, <1>3, <1>4, <1>7, <1>8, <1>9 DEF Rests, Works
<1> QED BY <1>10, <1>1, <1>3, <1>5, FaresOn DEF Goes

\* ssl_read.
LEMMA ReadDataFares ==
  ASSUME NEW e \in End, NEW c, Poised(e, c), NEW u, HopDue(e, u), ReadData(e)
  PROVE  \E d : Fares(e, c, u, d)
<1>1. Typed /\ Typed' /\ c = ctx[e] /\ Touch(e, c) /\ nonce' = nonce /\ UNCHANGED <<conf, who, origin>>
  BY DEF Poised, AgreeInv, ReadData, envVars
<1>2. PICK d : /\ At(e, "HANDSHAKE_OVER") /\ net[e] # <<>> /\ Incoming(e).msg = "Data"
               /\ Consumes(e, d) /\ Same(c, d, {"sum", "msg"})
  BY <1>1, DataRead
<1>3. /\ c.state = "HANDSHAKE_OVER" /\ c.end = "no" /\ d.out = c.out
      /\ d.state = "HANDSHAKE_OVER" /\ d.tin = c.tin /\ d.tout = c.tout /\ d.own = c.own
      /\ d.peer = c.peer /\ d.end = c.end
  BY <1>1, <1>2 DEF At, Same, Fields
<1>4. Touch(e, d)
  BY <1>1, <1>3, TouchOver DEF Touch, Blank
<1>5. Idle(e, c) /\ Idle(e, d) /\ ~ Unmet(c) /\ ~ Unmet(d)
  BY <1>3 DEF Idle, Unmet, Waking
<1>6. Sees(e, d) = Sees(e, c) /\ Sees(e, c).mode = "calm" /\ ~ Writing(e, c) /\ ~ Writing(e, d)
  BY <1>3, <1>5, IdleOn
<1> DEFINE v == Sees(e, c)
           r == Head(net[e])
<1>7. Hop(origin, Certs, e, v, r, u) /\ r.body.msg = "Data"
  BY <1>1, <1>2, <1>6 DEF HopDue, Incoming
<1>8. u = v
  <2>1. v.mode = "calm"
    BY <1>6
  <2> HIDE DEF v, r
  <2>2. HarmlessHop(v, r, u) \/ HelloHop(origin, e, v, r, u)
    BY <2>1, <1>7, HopCalm
  <2> QED BY <2>2, <1>7 DEF HarmlessHop, HelloHop
<1>9. Takes(e, c, u, d)
  BY <1>3, <1>6, <1>8 DEF Takes, Hushed
<1>10. Learns(e, c, u, d)
  BY <1>2, <1>3, <1>6, <1>9 DEF Learns
<1> QED BY <1>10, <1>1, <1>3, <1>4, FaresOn DEF Goes

\* The connection ends.
LEMMA ConnectionEndsFares ==
  ASSUME NEW e \in End, NEW c, Poised(e, c), NEW u, Eof(e) \/ Lose(e) \/ Close(e)
  PROVE  \E d : Fares(e, c, u, d)
<1>1. Typed /\ c = ctx[e]
  BY DEF Poised, AgreeInv
<1>2. PICK d : /\ Took(e, d) /\ d.out = c.out /\ d.end \in {"eof", "lost", "closed"}
  BY <1>1, ConnectionEnds
<1> QED BY <1>2 DEF Fares, Dies

\* An end that reads is not in its turn, and waits for a Finished in two states only.
LEMMA AwaitsApart ==
  ASSUME NEW e \in End, NEW c, c = ctx[e], Awaits(e) # {}
  PROVE  /\ ~ Writing(e, c) /\ c.state # FinishedState(e)
         /\ Awaits(e) = {"Finished"} <=> c.state = FinishedState(Other(e))
<1>1. CASE e = "client"
  <2>1. c.state \notin {"CLIENT_CERTIFICATE", "CLIENT_KEY_EXCHANGE", "CERTIFICATE_VERIFY",
                        "CLIENT_CHANGE_CIPHER_SPEC", "CLIENT_FINISHED"}
    BY <1>1 DEF Awaits
  <2>2. c.state = "SERVER_FINISHED" => Awaits(e) = {"Finished"}
    BY <1>1 DEF Awaits
  <2>3. Awaits(e) = {"Finished"} => c.state = "SERVER_FINISHED"
    <3>1. {"ServerHello"} # {"Finished"} /\ {"Certificate"} # {"Finished"}
          /\ {"ServerKeyExchange"} # {"Finished"} /\ {} # {"Finished"}
          /\ HandshakeMessages # {"Finished"} /\ {"ServerHelloDone"} # {"Finished"}
          /\ {"ChangeCipherSpec"} # {"Finished"} /\ {"Data"} # {"Finished"}
      BY DEF HandshakeMessages
    <3> QED BY <3>1, <1>1 DEF Awaits
  <2> QED BY <2>1, <2>2, <2>3, <1>1 DEF Writing, TurnsOf, Called, FinishedState, Other
<1>2. CASE e = "server"
  <2>1. c.state \notin {"SERVER_HELLO", "SERVER_CERTIFICATE", "SERVER_KEY_EXCHANGE",
                        "CERTIFICATE_REQUEST", "SERVER_HELLO_DONE", "SERVER_CHANGE_CIPHER_SPEC",
                        "SERVER_FINISHED", "HELLO_REQUEST"}
    BY <1>2 DEF Awaits
  <2>2. c.state = "CLIENT_FINISHED" => Awaits(e) = {"Finished"}
    BY <1>2 DEF Awaits
  <2>3. Awaits(e) = {"Finished"} => c.state = "CLIENT_FINISHED"
    <3>1. {"ClientHello"} # {"Finished"} /\ {"Certificate"} # {"Finished"}
          /\ {"Certificate", "NoCertificate"} # {"Finished"} /\ {} # {"Finished"}
          /\ {"ClientKeyExchange"} # {"Finished"} /\ {"CertificateVerify"} # {"Finished"}
          /\ {"ChangeCipherSpec"} # {"Finished"} /\ {"Data", "ClientHello"} # {"Finished"}
      OBVIOUS
    <3> QED BY <3>1, <1>2 DEF Awaits
  <2>4. ~ (c.state = "CLIENT_HELLO" /\ c.reneg)
    BY <1>2 DEF Awaits
  <2> QED BY <2>1, <2>2, <2>3, <2>4, <1>2 DEF Writing, TurnsOf, Called, Waking, FinishedState, Other
<1> QED BY <1>1, <1>2 DEF End

\* The key of the record that is due.
LEMMA DueKey ==
  ASSUME NEW e \in End, NEW c, Poised(e, c), c.end = "no", Awaits(e) # {}, net[e] # <<>>,
         NEW u, HopDue(e, u)
  PROVE  Head(net[e]).key = ReadKey(e)
<1>1. /\ c = ctx[e] /\ AgreeInv /\ Touch(e, c) /\ c.state \in Named
  <2>1. c = ctx[e] /\ AgreeInv /\ Touch(e, c)
    BY DEF Poised
  <2> QED BY <2>1, HellosIn
<1>2. /\ ~ Writing(e, c)
      /\ Awaits(e) = {"Finished"} <=> c.state = FinishedState(Other(e))
  BY <1>1, AwaitsApart
<1> DEFINE v == Sees(e, c)
           r == Head(net[e])
<1>3. Hop(origin, Certs, e, v, r, u)
  BY <1>1, <1>2 DEF HopDue
<1>4. CASE c.state = FinishedState(Other(e))
  <2>1. Reading(e, c) /\ c.state \in {"CLIENT_FINISHED", "SERVER_FINISHED"} /\ c.state # "SERVER_HELLO_DONE"
    BY <1>4 DEF Reading, TurnsOf, FinishedState, Other, End
  <2>2. v.mode = "flight" /\ v.due /\ v.sum = c.sum /\ v.master = MasterOf(c)
    BY <2>1, <1>4, ReaderFields
  <2> HIDE DEF v, r
  <2>3. KeyOf(v) = c.tneg
    BY <2>1, <2>2, <1>1, KeyIs
  <2>4. FinishedHop(e, v, r, u)
    BY <1>3, <2>2 DEF Hop, HarmlessHop, HelloHop, MessageHop
  <2>5. r.key = <<Other(e), c.tneg>>
    BY <2>3, <2>4 DEF FinishedHop
  <2> QED BY <2>5, <1>1, <1>2, <1>4 DEF r, ReadKey, InKey
<1>5. CASE c.state # FinishedState(Other(e))
  <2>1. v.key = c.tin /\ ~ v.due
    <3>1. CASE Idle(e, c)
      <4>1. PICK info : v = View("calm", c.tin, FALSE, info, <<>>, None, None)
        BY <3>1, IdleViews DEF Calm
      <4> HIDE DEF v
      <4> QED BY <4>1, NotDue DEF View
    <3>2. CASE Reading(e, c) /\ c.state = "SERVER_HELLO_DONE" /\ c.msg.msg = "ServerHelloDone"
      <4>1. v = View("done", c.tin, FALSE, <<>>, c.sum, c.dh, MasterOf(c))
        BY <3>2, ReaderViews DEF Turned
      <4> HIDE DEF v
      <4> QED BY <4>1, NotDue DEF View
    <3>3. CASE Reading(e, c) /\ ~ (c.state = "SERVER_HELLO_DONE" /\ c.msg.msg = "ServerHelloDone")
      BY <3>3, <1>5, ReaderFields
    <3> QED BY <3>1, <3>2, <3>3, <1>1, <1>2, TurnsApart
  <2> HIDE DEF v, r
  <2>2. r.key = v.key
    BY <1>3, <2>1 DEF Hop, HarmlessHop, HelloHop, MessageHop, FinishedHop
  <2> QED BY <2>1, <2>2, <1>1, <1>2, <1>5 DEF r, ReadKey
<1> QED BY <1>4, <1>5

\* ssl_read_record, when it turns a record down.
LEMMA RefuseRecordFares ==
  ASSUME NEW e \in End, NEW c, Poised(e, c), NEW u, HopDue(e, u), RefuseRecord(e)
  PROVE  \E d : Fares(e, c, u, d)
<1>1. Typed /\ c = ctx[e]
  BY DEF Poised, AgreeInv
<1>2. PICK d, why :
        /\ At(e, c.state) /\ Awaits(e) # {} /\ net[e] # <<>> /\ Leaves(e, c, d, why)
        /\ \/ why \in {"alert", "unexpected"}
           \/ why = "mac" /\ Head(net[e]).key # ReadKey(e)
  BY <1>1, RecordRefused
<1>3. c.end = "no" /\ c.out = None /\ c.state \in Named
  BY <1>2, PoisedAt
<1>4. Head(net[e]).key = ReadKey(e)
  BY <1>2, <1>3, DueKey
<1>5. c.state # FinishedState(e)
  BY <1>1, <1>2, AwaitsApart
<1>6. Dies(e, c, d)
  BY <1>2, <1>3, <1>4, <1>5, LeavesDies
<1> QED BY <1>6 DEF Fares

-----------------------------------------------------------------------------
(* The hellos                                                                *)

\* A transcript of one message.
LEMMA FirstOf ==
  ASSUME NEW s, s = <<>>, NEW m
  PROVE  Append(s, m) = <<m>> /\ Len(Append(s, m)) = 1 /\ Append(s, m)[1] = m
OBVIOUS

\* The ClientHello that may come.
Meets(c, u, h, info) ==
  h.info = info /\ h.id \in IdsOf(origin) /\ u = Turned(c.tin, <<h>>, None, None)

\* Between handshakes a ClientHello comes, or what does not matter.
LEMMA CalmArrives ==
  ASSUME NEW e \in End, NEW c, c = ctx[e], Idle(e, c), net[e] # <<>>, NEW u, HopDue(e, u),
         NEW h, h = Incoming(e), h.msg = "ClientHello", NEW info,
         Sees(e, c) = Calm(c.tin, info)
  PROVE  Meets(c, u, h, info)
<1> DEFINE v == Sees(e, c)
           r == Head(net[e])
<1>1. ~ Writing(e, c)
  BY TurnsApart
<1>2. Hop(origin, Certs, e, v, r, u) /\ r.body = h
  BY <1>1 DEF HopDue, Incoming
<1>3. v.mode = "calm" /\ v.key = c.tin /\ v.info = info
  BY DEF Calm, View
<1> HIDE DEF v, r
<1>4. HelloHop(origin, e, v, r, u)
  <2>1. HarmlessHop(v, r, u) \/ HelloHop(origin, e, v, r, u)
    BY <1>2, <1>3, HopCalm
  <2> QED BY <2>1, <1>2 DEF HarmlessHop, Harmless
<1> QED BY <1>2, <1>3, <1>4 DEF HelloHop, Meets

\* ssl_write_client_hello.
LEMMA WriteClientHelloFares ==
  ASSUME NEW c, Poised("client", c), NEW u, WriteClientHello
  PROVE  \E d : Fares("client", c, u, d)
<1> DEFINE e == "client"
<1>1. /\ UNCHANGED <<conf, who, origin>> /\ e \in End /\ Other(e) = "server"
  BY DEF WriteClientHello, envVars, End, Other
<1> HIDE DEF e
<1>2. Typed /\ Typed' /\ c = ctx[e] /\ Poised(e, c) /\ AgreeInv /\ Touch(e, c)
  BY DEF Poised, AgreeInv, e
<1> DEFINE h == ClientHello(c)
<1>3. PICK d : /\ At(e, "CLIENT_HELLO") /\ Becomes(e, d)
               /\ Same(c, d, {"state", "minor", "rc", "sum", "out"})
               /\ d.state = "SERVER_HELLO" /\ d.rc = nonce
               /\ d.sum = Append(c.sum, h) /\ d.out = [key |-> c.tout, body |-> h]
               /\ nonce' = nonce + 1
  <2>1. WriteClientHello /\ Typed /\ c = ctx["client"]
    BY <1>2 DEF e
  <2> QED BY <2>1, WriteClientHelloIs DEF e
<1>4. /\ c.state = "CLIENT_HELLO" /\ c.end = "no" /\ c.out = None
      /\ d.tin = c.tin /\ d.tout = c.tout /\ d.own = c.own /\ d.peer = c.peer /\ d.end = c.end
      /\ d.reneg = c.reneg /\ d.resume = c.resume /\ d.neg = c.neg /\ d.dh = c.dh /\ d.max = c.max
  BY <1>2, <1>3 DEF At, Same, Fields
<1>5. c.sum = <<>>
  BY <1>1, <1>2, <1>4, HellosIn DEF HelloSecond
<1>6. d.sum = <<h>> /\ d.sum[1] = h
  BY <1>3, <1>5, FirstOf
<1>7. /\ h.msg = "ClientHello" /\ h.max = c.max /\ h.random = nonce
      /\ h.id = (IF c.reneg \/ ~c.resume THEN None ELSE c.neg.id)
      /\ h.info = (IF c.reneg THEN <<c.own>> ELSE <<>>)
  BY DEF ClientHello
<1> HIDE DEF h
<1>8. Idle(e, c) /\ (Unmet(c) <=> ~ c.reneg) /\ Waking(c)
  BY <1>4 DEF Idle, Unmet, Waking, Called, e
<1>9. c.dh = None /\ (c.resume => ~ c.reneg /\ Negotiated(c.neg))
  BY <1>2, <1>8 DEF Touch, Ready, e
<1>10. h.id \in IdsOf(origin)
  BY <1>7, <1>9 DEF IdsOf, Negotiated
<1>11. Reading(e, d) /\ d.state \in WaitsOf(e) /\ d.state \notin Turns \cup Keyed /\ ~ Waking(d)
  BY <1>1, <1>3 DEF Reading, TurnsOf, WaitsOf, Turns, Keyed, Waking, e
<1>12. Touch(e, d)
  <2>1. Greets(e, d)
    BY <1>3, <1>4, <1>6, <1>7, <1>9, <1>10 DEF Greets, e
  <2> QED BY <2>1, <1>2, <1>4, <1>11 DEF Touch, Ready, Matching, Blank
<1> DEFINE v == Tells(e, c)
<1>13. v.mode = "calm" /\ v.key = c.tout /\ v.info = h.info
  <2>1. v = Calm(c.tout, IF Unmet(c) THEN <<>> ELSE <<c.own>>)
    BY <1>1, <1>8, IdleViews
  <2> QED BY <2>1, <1>7, <1>8 DEF Calm, View
<1>14. Tells(e, d) = Turned(c.tout, <<h>>, None, None)
  <2>1. Tells(e, d) = Turned(d.tout, d.sum, d.dh, MasterOf(d))
    BY <1>1, <1>11, ReaderViews
  <2>2. MasterOf(d) = None
    BY <1>11 DEF MasterOf
  <2> QED BY <2>1, <2>2, <1>4, <1>6, <1>9
<1>15. Hop(origin, Certs, Other(e), v, d.out, Tells(e, d))
  <2> HIDE DEF v
  <2>1. d.out.key = c.tout /\ d.out.body = h
    BY <1>3
  <2>2. HelloHop(origin, Other(e), v, d.out, Tells(e, d))
    BY <2>1, <1>1, <1>7, <1>10, <1>13, <1>14 DEF HelloHop
  <2> QED BY <2>2 DEF Hop
<1>16. d.out # None
  BY <1>2, <1>3 DEF Poised, NullIsNull
<1>17. Acts(e, c, d)
  BY <1>3, <1>4, <1>8, <1>11, <1>15, <1>16 DEF Acts, Works, e
<1>18. Fares(e, c, u, d)
  BY <1>17, <1>12, <1>1, <1>2, <1>3, <1>4, FaresOn DEF Goes
<1> QED BY <1>18 DEF e

\* ssl_renegotiate.
LEMMA RenegotiateFares ==
  ASSUME NEW c, Poised("client", c), NEW u, Renegotiate
  PROVE  \E d : Fares("client", c, u, d)
<1> DEFINE e == "client"
<1>1. /\ UNCHANGED <<conf, who, origin>> /\ e \in End /\ Other(e) = "server" /\ nonce' = nonce
      /\ net' = net
  BY DEF Renegotiate, Becomes, envVars, End, Other
<1> HIDE DEF e
<1>2. Typed /\ Typed' /\ c = ctx[e] /\ Poised(e, c) /\ AgreeInv /\ Touch(e, c)
  BY DEF Poised, AgreeInv, e
<1>3. PICK d : Restarts(e, c, d)
  <2>1. Renegotiate /\ Typed /\ c = ctx["client"]
    BY <1>2 DEF e
  <2> QED BY <2>1, RestartIs DEF e, End
<1>4. /\ c.state = "HANDSHAKE_OVER" /\ c.end = "no" /\ c.out = None
      /\ d.tin = c.tin /\ d.tout = c.tout /\ d.own = c.own /\ d.peer = c.peer /\ d.end = c.end
      /\ d.out = c.out
      /\ d.state = "HELLO_REQUEST" /\ d.reneg = TRUE /\ d.resume = FALSE /\ d.dh = None
  BY <1>2, <1>3 DEF Restarts, At, Same, Fields
<1>5. Becomes(e, d)
  BY <1>1, <1>3 DEF Restarts, Took, Becomes, Consumes
<1>6. Idle(e, c) /\ Idle(e, d) /\ ~ Unmet(c) /\ ~ Unmet(d) /\ ~ Called(e, d)
      /\ d.state \notin Turns /\ d.state # "SERVER_HELLO"
  BY <1>4 DEF Idle, Unmet, Waking, Called, e, Turns, TurnsOf
<1>7. Tells(e, d) = Tells(e, c) /\ ~ Reading(e, d)
  BY <1>1, <1>4, <1>6, IdleOn
<1>8. Touch(e, d)
  BY <1>2, <1>4, <1>6 DEF Touch, Ready, Greets, Matching, Blank, e
<1>9. Acts(e, c, d)
  BY <1>4, <1>5, <1>6, <1>7 DEF Acts, Works, e
<1>10. Fares(e, c, u, d)
  BY <1>9, <1>8, <1>1, <1>2, <1>4, FaresOn DEF Goes
<1> QED BY <1>10 DEF e

\* ssl_read at a server that gets a ClientHello.
LEMMA ReadHelloFares ==
  ASSUME NEW c, Poised("server", c), NEW u, HopDue("server", u), ReadHello
  PROVE  \E d : Fares("server", c, u, d)
<1> DEFINE e == "server"
<1>1. /\ UNCHANGED <<conf, who, origin>> /\ e \in End /\ Other(e) = "client" /\ nonce' = nonce
  BY DEF ReadHello, envVars, End, Other
<1> HIDE DEF e
<1>2. /\ Typed /\ Typed' /\ c = ctx[e] /\ Poised(e, c) /\ AgreeInv /\ Touch(e, c)
      /\ HopDue(e, u)
  BY DEF Poised, AgreeInv, e
<1>3. ASSUME c.state = "HANDSHAKE_OVER"
      PROVE  Idle(e, c) /\ ~ Unmet(c) /\ Sees(e, c) = Calm(c.tin, <<c.peer>>) /\ ~ Writing(e, c)
  <2>1. Idle(e, c) /\ ~ Unmet(c)
    BY <1>3 DEF Idle, Unmet, Waking
  <2> QED BY <2>1, <1>1, IdleViews, TurnsApart
<1>4. CASE conf.renegotiates
  <2>1. PICK d : Restarts(e, c, d)
    <3>1. ReadHello /\ Typed /\ c = ctx["server"]
      BY <1>2 DEF e
    <3> QED BY <3>1, <1>4, RestartIs DEF e, End
  <2>2. /\ c.state = "HANDSHAKE_OVER" /\ c.end = "no" /\ c.out = None
        /\ d.tin = c.tin /\ d.tout = c.tout /\ d.own = c.own /\ d.peer = c.peer /\ d.end = c.end
        /\ d.out = c.out /\ d.neg = NewSession
        /\ d.state = "HELLO_REQUEST" /\ d.reneg = TRUE /\ d.resume = FALSE /\ d.dh = None
        /\ net[e] # <<>> /\ Consumes(e, d) /\ d.msg = Incoming(e) /\ d.msg.msg = "ClientHello"
    BY <1>2, <2>1 DEF Restarts, At, Same, Fields, e
  <2>3. /\ d.msg.info = <<c.peer>> /\ d.msg.id \in IdsOf(origin)
        /\ u = Turned(c.tin, <<d.msg>>, None, None)
    <3>1. PICK info, h : info = <<c.peer>> /\ h = Incoming(e)
      OBVIOUS
    <3>2. Sees(e, c) = Calm(c.tin, info) /\ Idle(e, c) /\ h.msg = "ClientHello" /\ net[e] # <<>>
      BY <1>3, <2>2, <3>1
    <3>3. Meets(c, u, h, info)
      BY <1>1, <1>2, <3>1, <3>2, CalmArrives
    <3> QED BY <2>2, <3>1, <3>3 DEF Meets
  <2>4. Called(e, d) /\ Waking(d) /\ d.state \notin Turns \cup Keyed /\ d.state # "SERVER_HELLO"
        /\ d.state # FinishedState(e)
    BY <2>2 DEF Called, Waking, Turns, TurnsOf, Keyed, FinishedState, e
  <2>5. Touch(e, d)
    <3>1. Ready(e, d)
      BY <2>2, <2>3, <2>4 DEF Ready, NewSession, e
    <3> QED BY <3>1, <1>2, <2>2, <2>4 DEF Touch, Greets, Matching, Blank
  <2>6. /\ Writing(e, d) /\ u = Turned(d.tin, SumOf(e, d), d.dh, MasterOf(d))
    BY <1>1, <2>2, <2>3, <2>4, TurnsApart DEF SumOf, MasterOf
  <2>7. Takes(e, c, u, d)
    BY <2>2, <2>4, <2>6 DEF Takes, Hushed
  <2>8. Learns(e, c, u, d)
    BY <2>2, <2>7, <1>3 DEF Learns, Harmless
  <2>9. Fares(e, c, u, d)
    BY <2>8, <2>5, <1>1, <1>2, <2>2, FaresOn DEF Goes
  <2> QED BY <2>9 DEF e
<1>5. CASE ~ conf.renegotiates
  <2>1. PICK d, m : /\ At(e, "HANDSHAKE_OVER") /\ net[e] # <<>>
                    /\ Incoming(e).msg = "ClientHello" /\ Consumes(e, d)
                    /\ Same(c, d, {"sum", "msg", "out"})
                    /\ d.out = [key |-> c.tout, body |-> m] /\ m.msg = "NoRenegotiation"
    <3>1. ReadHello /\ Typed /\ c = ctx["server"]
      BY <1>2 DEF e
    <3> QED BY <3>1, <1>5, HelloRefused DEF e
  <2>2. /\ c.state = "HANDSHAKE_OVER" /\ c.end = "no" /\ c.out = None
        /\ d.tin = c.tin /\ d.tout = c.tout /\ d.own = c.own /\ d.peer = c.peer /\ d.end = c.end
        /\ d.state = "HANDSHAKE_OVER"
    BY <1>2, <2>1 DEF At, Same, Fields
  <2>3. d.out # None /\ d.out.key = c.tout /\ Harmless(d.out.body)
    BY <1>2, <2>1 DEF Poised, NullIsNull, Harmless
  <2> DEFINE h == Incoming(e)
  <2>4. u = Turned(c.tin, <<h>>, None, None)
    <3>1. PICK info : info = <<c.peer>>
      OBVIOUS
    <3>2. Sees(e, c) = Calm(c.tin, info) /\ Idle(e, c) /\ h.msg = "ClientHello" /\ net[e] # <<>>
          /\ h = Incoming(e)
      BY <1>3, <2>1, <2>2, <3>1
    <3> HIDE DEF h
    <3>3. Meets(c, u, h, info)
      BY <1>1, <1>2, <3>2, CalmArrives
    <3> QED BY <3>3 DEF Meets
  <2>5. Touch(e, d)
    BY <1>2, <2>2, TouchOver DEF Touch, Blank
  <2>6. Takes(e, c, u, d)
    BY <2>2, <2>3, <2>4 DEF Takes, Hushed, e
  <2>7. Learns(e, c, u, d)
    BY <2>1, <2>2, <2>6, <1>3 DEF Learns, Harmless
  <2>8. Fares(e, c, u, d)
    BY <2>7, <2>5, <1>1, <1>2, <2>2, FaresOn DEF Goes
  <2> QED BY <2>8 DEF e
<1> QED BY <1>4, <1>5

\* ssl_parse_client_hello.
LEMMA ParseClientHelloFares ==
  ASSUME NEW c, Poised("server", c), NEW u, HopDue("server", u), ParseClientHello
  PROVE  \E d : Fares("server", c, u, d)
<1> DEFINE e == "server"
<1>1. /\ UNCHANGED <<conf, who, origin>> /\ e \in End /\ Other(e) = "client" /\ nonce' = nonce
  BY DEF ParseClientHello, envVars, End, Other
<1> HIDE DEF e
<1>2. /\ Typed /\ Typed' /\ c = ctx[e] /\ Poised(e, c) /\ AgreeInv /\ Touch(e, c)
      /\ HopDue(e, u) /\ e = "server"
  BY DEF Poised, AgreeInv, e
<1>3. PICK h, d : /\ At(e, "CLIENT_HELLO") /\ HelloRead(c, h, d)
                  /\ h.msg = "ClientHello" /\ h.max \in Version
                  /\ \/ c.reneg /\ h = c.msg /\ Becomes(e, d)
                     \/ /\ ~ c.reneg /\ h = Incoming(e)
                        /\ net[e] # <<>> /\ Consumes(e, d)
  <2>1. ParseClientHello /\ Typed /\ c = ctx["server"]
    BY <1>2 DEF e
  <2> QED BY <2>1, ParseClientHelloIs DEF e
<1>4. /\ c.state = "CLIENT_HELLO" /\ c.end = "no" /\ c.out = None /\ Waking(c)
      /\ c.state \in Named /\ c.state # FinishedState(e) /\ Took(e, d)
  BY <1>1, <1>2, <1>3, HellosIn DEF At, Waking, FinishedState, Took, e
<1>5. /\ c.sum = <<>> /\ c.dh = None /\ c.neg.peer = None
      /\ Called(e, c) => c.msg.info = <<c.peer>> /\ c.msg.id \in IdsOf(origin)
  <2>1. c.sum = <<>>
    BY <1>1, <1>2, <1>4, HellosIn DEF HelloSecond
  <2> QED BY <2>1, <1>2, <1>4 DEF Touch, Ready
<1>6. ASSUME d.out = c.out \/ d.out = [key |-> c.tout, body |-> [msg |-> "Fatal"]],
             d.end \in {"version", "nocipher"}
      PROVE  \E x : Fares(e, c, u, x)
  <2>1. Leaves(e, c, d, d.end)
    BY <1>4, <1>6 DEF Leaves
  <2>2. Dies(e, c, d)
    BY <2>1, <1>1, <1>4, <1>6, LeavesDies
  <2> QED BY <2>2 DEF Fares
<1>7. ASSUME c.reneg, h.info # <<c.peer>>
      PROVE  FALSE
  <2>1. Called(e, c) /\ h = c.msg
    BY <1>2, <1>3, <1>4, <1>7 DEF Called
  <2> QED BY <2>1, <1>5, <1>7
<1> DEFINE minor == IF h.max <= 3 THEN h.max ELSE 3
           suite == Chosen(h, minor)
<1>8. \/ /\ d.end \in {"version", "nocipher"}
         /\ d.out = c.out \/ d.out = [key |-> c.tout, body |-> [msg |-> "Fatal"]]
      \/ c.reneg /\ h.info # <<c.peer>>
      \/ /\ c.reneg => h.info = <<c.peer>>
         /\ Same(c, d, {"state", "sum", "msg", "minor", "max", "rc", "neg"})
         /\ d.state = "SERVER_HELLO" /\ d.max = h.max
         /\ d.rc = h.random /\ d.msg = h /\ d.sum = With(c.sum, h)
         /\ d.neg = [[c.neg EXCEPT !.id = h.id] EXCEPT !.suite = suite]
  <2> HIDE DEF minor, suite
  <2>1. \/ /\ Same(c, d, {"sum", "msg", "minor", "end", "out"})
           /\ d.end = "version" /\ d.out = [key |-> c.tout, body |-> [msg |-> "Fatal"]]
        \/ /\ Same(c, d, {"sum", "msg", "minor", "max", "rc", "neg", "end"})
           /\ d.end = "nocipher"
        \/ c.reneg /\ h.info # <<c.peer>>
        \/ /\ c.reneg => h.info = <<c.peer>>
           /\ Same(c, d, {"state", "sum", "msg", "minor", "max", "rc", "neg"})
           /\ d.state = "SERVER_HELLO" /\ d.max = h.max
           /\ d.rc = h.random /\ d.msg = h /\ d.sum = With(c.sum, h)
           /\ d.neg = [[c.neg EXCEPT !.id = h.id] EXCEPT !.suite = suite]
    BY <1>3, Zenon DEF HelloRead, minor, suite
  <2>2. Same(c, d, {"sum", "msg", "minor", "max", "rc", "neg", "end"}) => d.out = c.out
    BY DEF Same, Fields
  <2> QED BY <2>1, <2>2
<1> HIDE DEF minor, suite
<1>9. CASE /\ c.reneg => h.info = <<c.peer>>
           /\ Same(c, d, {"state", "sum", "msg", "minor", "max", "rc", "neg"})
           /\ d.state = "SERVER_HELLO" /\ d.max = h.max
           /\ d.rc = h.random /\ d.msg = h /\ d.sum = With(c.sum, h)
           /\ d.neg = [[c.neg EXCEPT !.id = h.id] EXCEPT !.suite = suite]
  <2>1. /\ d.tin = c.tin /\ d.tout = c.tout /\ d.own = c.own /\ d.peer = c.peer /\ d.end = c.end
        /\ d.out = c.out /\ d.reneg = c.reneg /\ d.dh = None
    BY <1>5, <1>9 DEF Same, Fields
  <2>2. d.neg.id = h.id /\ d.neg.peer = None
    <3>1. DOMAIN c.neg = SessionFields
      BY <1>1, <1>2, <1>4, HellosIn DEF Context
    <3> QED BY <3>1, <1>5, <1>9 DEF SessionFields
  <2>3. d.sum = <<h>> /\ d.sum[1] = h
    <3>1. d.sum = Append(c.sum, h)
      BY <1>3, <1>9 DEF With, HandshakeMessages
    <3> QED BY <3>1, <1>5, FirstOf
  <2>4. /\ d.state \in TurnsOf(e) /\ d.state # FinishedState(e) /\ ~ Waking(d)
        /\ d.state \notin Turns \cup Keyed /\ ~ Called(e, d)
    BY <1>9 DEF TurnsOf, FinishedState, Waking, Turns, Keyed, Called, e
  <2>5. Writing(e, d) /\ ~ Reading(e, d) /\ SumOf(e, d) = d.sum /\ MasterOf(d) = None
    BY <2>4, <1>1, TurnsApart DEF SumOf, MasterOf
  <2>6. ASSUME h.id \in IdsOf(origin), h.info = IF c.reneg THEN <<c.peer>> ELSE <<>>
        PROVE  Touch(e, d)
    <3>1. Greets(e, d)
      BY <2>1, <2>2, <2>3, <2>6, <1>9, <1>2 DEF Greets
    <3> QED BY <3>1, <1>2, <2>1, <2>4 DEF Touch, Ready, Matching, Blank
  <2>7. CASE c.reneg
    <3>1. Called(e, c) /\ h = c.msg /\ Becomes(e, d)
      BY <1>2, <1>3, <1>4, <2>7 DEF Called
    <3>2. Touch(e, d)
      BY <3>1, <2>6, <2>7, <1>5
    <3>3. Tells(e, d) = Tells(e, c)
      <4>1. Tells(e, c) = View("flight", c.tout, FALSE, <<c.own>>, <<c.msg>>, c.dh, None)
        BY <3>1, <1>1, CalledTells
      <4>2. Tells(e, d) = View("flight", d.tout, d.state = FinishedState(e), <<d.own>>, d.sum,
                               d.dh, MasterOf(d))
        BY <2>4, <1>1, WriterTells
      <4>3. (d.state = FinishedState(e)) = FALSE
        BY <2>4
      <4> QED BY <4>1, <4>2, <4>3, <2>1, <2>3, <2>5, <3>1, <1>5
    <3>4. Writing(e, c)
      BY <3>1 DEF Writing
    <3>5. Acts(e, c, d)
      BY <3>1, <3>3, <3>4, <2>1, <2>5 DEF Acts, Works
    <3>6. Fares(e, c, u, d)
      BY <3>5, <3>2, <2>1, <1>1, <1>2, <1>4, FaresOn DEF Goes
    <3> QED BY <3>6 DEF e
  <2>8. CASE ~ c.reneg
    <3>1. /\ h = Incoming(e) /\ net[e] # <<>> /\ Consumes(e, d)
          /\ Idle(e, c) /\ Unmet(c)
      BY <1>3, <1>4, <2>8 DEF Idle, Called, Unmet
    <3>2. PICK info : info = <<>>
      OBVIOUS
    <3>3. Sees(e, c) = Calm(c.tin, info) /\ ~ Writing(e, c)
      BY <3>1, <3>2, <1>1, IdleViews, TurnsApart
    <3>4. Meets(c, u, h, info)
      BY <3>1, <3>3, <1>1, <1>2, <1>3, CalmArrives
    <3>5. h.info = <<>> /\ h.id \in IdsOf(origin) /\ u = Turned(c.tin, <<h>>, None, None)
      BY <3>2, <3>4 DEF Meets
    <3>6. Touch(e, d)
      BY <3>5, <2>6, <2>8
    <3>7. Takes(e, c, u, d)
      <4>1. u = Turned(d.tin, SumOf(e, d), d.dh, MasterOf(d))
        BY <3>5, <2>1, <2>3, <2>5
      <4> QED BY <4>1, <2>1, <2>4, <2>5 DEF Takes, Hushed
    <3>8. Learns(e, c, u, d)
      BY <3>1, <3>3, <3>7, <1>3 DEF Learns, Harmless
    <3>9. Fares(e, c, u, d)
      BY <3>8, <3>6, <2>1, <1>1, <1>2, <1>4, FaresOn DEF Goes
    <3> QED BY <3>9 DEF e
  <2> QED BY <2>7, <2>8
<1>10. \E x : Fares(e, c, u, x)
  BY <1>6, <1>7, <1>8, <1>9 DEF e
<1> QED BY <1>10 DEF e

\* A transcript of two messages.
LEMMA SecondOf ==
  ASSUME NEW s, Sequence(s), Len(s) = 1, NEW m, NEW t, t = Append(s, m)
  PROVE  /\ Len(t) = 2
         /\ t[1] = s[1]
         /\ t[2] = m
<1>1. /\ Len(t) = Len(s) + 1 /\ t[Len(s) + 1] = m
      /\ \A i \in 1..Len(s) : t[i] = s[i]
  BY AppendTo
<1> QED BY <1>1

\* The ServerHello names a session that has been negotiated, or another.
Replies(c, d, m) ==
  /\ m = ServerHello(c, d.neg)
  /\ d.sum = Append(c.sum, m) /\ d.out = [key |-> c.tout, body |-> m]
  /\ d.max = c.max /\ d.minor = c.minor /\ d.tin = c.tin /\ d.tout = c.tout /\ d.own = c.own
  /\ d.peer = c.peer /\ d.end = "no" /\ d.reneg = c.reneg /\ d.dh = c.dh
  /\ \/ /\ d.state = "SERVER_CHANGE_CIPHER_SPEC" /\ d.resume = TRUE
        /\ d.neg.id = c.neg.id
        /\ \E o \in origin : o.id = d.neg.id /\ o.suite = d.neg.suite /\ o.master = d.neg.master
        /\ d.tneg = KeysOf(d.neg.master, c.rc, nonce, d.neg.suite, c.minor)
     \/ /\ d.state = "SERVER_CERTIFICATE" /\ d.resume = FALSE /\ d.rs = nonce /\ d.rc = c.rc
        /\ d.neg.id = nonce + 1 /\ d.neg.peer = c.neg.peer

\* What ssl_write_server_hello makes of the server's context.
LEMMA ServerHelloWritten ==
  ASSUME NEW c, Poised("server", c), WriteServerHello
  PROVE  \E d, m : Replies(c, d, m) /\ Becomes("server", d) /\ At("server", "SERVER_HELLO")
                   /\ nonce' = nonce + 2
<1>1. Typed /\ c = ctx["server"] /\ CacheOK /\ "server" \in End
  BY DEF Poised, AgreeInv, IInv, End
<1>2. PICK d : /\ At("server", "SERVER_HELLO") /\ Becomes("server", d)
               /\ nonce' = nonce + 2
               /\ FoundInCache(c, d) \/ NewlyNamed(c, d)
               /\ Says(c, d, ServerHello(c, d.neg))
  BY <1>1, WriteServerHelloIs
<1>3. Context(c) /\ c.end = "no"
  BY <1>1, <1>2, TypedAt DEF At
<1>4. PICK m : m = ServerHello(c, d.neg)
  OBVIOUS
<1>5. d.sum = Append(c.sum, m) /\ d.out = [key |-> c.tout, body |-> m]
  BY <1>2, <1>4 DEF Says
<1>6. CASE FoundInCache(c, d)
  <2>1. /\ d.max = c.max /\ d.minor = c.minor /\ d.tin = c.tin /\ d.tout = c.tout /\ d.own = c.own
        /\ d.peer = c.peer /\ d.end = "no" /\ d.reneg = c.reneg /\ d.dh = c.dh
    BY <1>3, <1>6 DEF FoundInCache, Same, Fields
  <2>2. Matches(c.neg) # {} /\ DOMAIN c.neg = SessionFields
    BY <1>3, <1>6 DEF FoundInCache, Context
  <2>3. PICK r : r = Restored(c.neg)
    OBVIOUS
  <2>4. r.id = c.neg.id
    BY <2>2, <2>3, RestoredIs
  <2>5. Negotiated(r)
    BY <1>1, <2>2, <2>3, RestoredNegotiated DEF SessionFields
  <2>6. d.neg.id = r.id /\ d.neg.suite = r.suite /\ d.neg.master = r.master
    BY <1>6, <2>3 DEF FoundInCache, SessionFields
  <2>7. /\ d.state = "SERVER_CHANGE_CIPHER_SPEC" /\ d.resume = TRUE
        /\ d.tneg = KeysOf(d.neg.master, c.rc, nonce, d.neg.suite, c.minor)
    BY <1>6 DEF FoundInCache
  <2>8. \E o \in origin : o.id = d.neg.id /\ o.suite = d.neg.suite /\ o.master = d.neg.master
    BY <2>5, <2>6 DEF Negotiated
  <2>9. Replies(c, d, m)
    BY <1>4, <1>5, <2>1, <2>4, <2>6, <2>7, <2>8 DEF Replies
  <2> QED BY <2>9, <1>2
<1>7. CASE NewlyNamed(c, d)
  <2>1. /\ d.max = c.max /\ d.minor = c.minor /\ d.tin = c.tin /\ d.tout = c.tout /\ d.own = c.own
        /\ d.peer = c.peer /\ d.end = "no" /\ d.reneg = c.reneg /\ d.dh = c.dh /\ d.rc = c.rc
    BY <1>3, <1>7 DEF NewlyNamed, Same, Fields
  <2>2. DOMAIN c.neg = SessionFields
    BY <1>3 DEF Context
  <2>3. d.neg.id = nonce + 1 /\ d.neg.peer = c.neg.peer
    BY <1>7, <2>2 DEF NewlyNamed, SessionFields
  <2>4. d.state = "SERVER_CERTIFICATE" /\ d.resume = FALSE /\ d.rs = nonce
    BY <1>7 DEF NewlyNamed
  <2>5. Replies(c, d, m)
    BY <1>4, <1>5, <2>1, <2>3, <2>4 DEF Replies
  <2> QED BY <2>5, <1>2
<1> QED BY <1>2, <1>6, <1>7

\* The ids that are taken are no later numbers.
LEMMA IdsBefore ==
  ASSUME NullIsNull, Identified, nonce \in Nat, NEW x, x \in IdsOf(origin)
  PROVE  x # nonce + 1
<1>1. CASE x = None
  BY <1>1 DEF NullIsNull, NullIsNothing
<1>2. CASE \E o \in origin : x = o.id
  BY <1>2 DEF Identified
<1> QED BY <1>1, <1>2 DEF IdsOf

\* What the server's hello holds, behind the client's.
LEMMA ServerHelloMatches ==
  ASSUME NEW c, Poised("server", c), At("server", "SERVER_HELLO"), NEW d, NEW m, Replies(c, d, m),
         nonce' = nonce + 2, UNCHANGED <<conf, who, origin>>
  PROVE  Touch("server", d)'
<1> DEFINE e == "server"
<1>1. /\ e \in End /\ Typed /\ c = ctx[e] /\ AgreeInv /\ Touch(e, c) /\ c.state = "SERVER_HELLO"
      /\ c.end = "no" /\ nonce \in Nat /\ NullIsNull /\ Identified /\ e = "server"
  BY DEF Poised, AgreeInv, At, End, Typed
<1> HIDE DEF e
<1>2. Sequence(c.sum) /\ Len(c.sum) = 1
  BY <1>1, HellosIn DEF HelloSecond
<1>3. /\ c.sum[1].random = c.rc /\ c.sum[1].max = c.max /\ c.dh = None
      /\ c.sum[1].id \in IdsOf(origin)
      /\ c.neg.id = c.sum[1].id /\ c.neg.peer = None
  BY <1>1 DEF Touch, Greets
<1>4. d.sum[1] = c.sum[1] /\ d.sum[2] = m
  BY <1>2, SecondOf DEF Replies
<1>5. m.random = nonce /\ m.id = d.neg.id /\ m.suite = d.neg.suite /\ m.minor = c.minor
  BY DEF Replies, ServerHello
<1>6. nonce + 1 \notin IdsOf(origin)
  BY <1>1, IdsBefore
<1>7. d.resume <=> Resumed(d.sum)
  BY <1>3, <1>4, <1>5, <1>6 DEF Replies, Resumed
<1>8. KeysMatch(d)
  BY <1>3, <1>4, <1>5 DEF Replies, KeysMatch, Keyed
<1>9. PeerMatches(e, d)' /\ HalfMatches(e, d)
  BY <1>3, <1>1 DEF Replies, PeerMatches, HalfMatches, Informed
<1>10. d.sum[1].max = d.max /\ d.sum[2].minor = d.minor
  BY <1>3, <1>4, <1>5 DEF Replies
<1>11. ~ d.resume => d.neg.id \in Nat /\ d.neg.id < nonce' /\ d.neg.id \notin IdsOf(origin)
  BY <1>1, <1>6 DEF Replies
<1>12. Matching(e, d)'
  BY <1>7, <1>8, <1>9, <1>10, <1>11 DEF Matching, IdsOf
<1>13. ~ Waking(d) /\ d.state # "SERVER_HELLO"
  BY DEF Replies, Waking
<1>14. Blank(d)
  BY <1>1 DEF Touch, Blank, Replies
<1>15. Ready(e, d)' /\ Greets(e, d)'
  BY <1>13 DEF Ready, Greets
<1>16. Touch(e, d)'
  BY <1>12, <1>14, <1>15 DEF Touch
<1> QED BY <1>16 DEF e

\* The ServerHello answers the ClientHello.
LEMMA ServerHelloAnswers ==
  ASSUME NEW c, Poised("server", c), At("server", "SERVER_HELLO"), NEW d, NEW m, Replies(c, d, m),
         NEW v, v = Tells("server", c)
  PROVE  Answers(origin, v, m, MasterOf(d))
<1> DEFINE e == "server"
<1>1. /\ e \in End /\ Typed /\ c = ctx[e] /\ AgreeInv /\ Touch(e, c) /\ c.state = "SERVER_HELLO"
      /\ c.end = "no" /\ nonce \in Nat /\ NullIsNull /\ Identified /\ e = "server" /\ v = Tells(e, c)
  BY DEF Poised, AgreeInv, At, End, Typed
<1> HIDE DEF e
<1>2. Len(c.sum) = 1
  BY <1>1, HellosIn DEF HelloSecond
<1>3. /\ c.sum[1].id \in IdsOf(origin) /\ c.neg.id = c.sum[1].id
      /\ c.sum[1].info = IF c.reneg THEN <<c.peer>> ELSE <<>>
  BY <1>1 DEF Touch, Greets
<1>4. m.id = d.neg.id /\ m.suite = d.neg.suite /\ m.info = IF c.reneg THEN <<c.peer, c.own>> ELSE <<>>
  BY DEF Replies, ServerHello
<1>5. c.state \in TurnsOf(e)
  BY <1>1 DEF TurnsOf
<1>6. v.sum = c.sum /\ v.info = <<c.own>>
  BY <1>1, <1>5, WriterFields
<1>7. v.sum[1].info # <<>> => m.info = <<v.sum[1].info[1], v.info[1]>>
  BY <1>3, <1>4, <1>6
<1>8. CASE d.state = "SERVER_CHANGE_CIPHER_SPEC"
  <2>1. PICK o \in origin : o.id = d.neg.id /\ o.suite = d.neg.suite /\ o.master = d.neg.master
    BY <1>8 DEF Replies
  <2>2. m.id # None
    BY <2>1, <1>1, <1>4 DEF Identified, NullIsNull, NullIsNothing
  <2>3. MasterOf(d) = d.neg.master
    BY <1>8 DEF MasterOf, Keyed
  <2>4. m.id = v.sum[1].id
    BY <1>3, <1>4, <1>6, <1>8 DEF Replies
  <2>5. o.id = m.id /\ o.suite = m.suite /\ o.master = MasterOf(d)
    BY <2>1, <2>3, <1>4
  <2> QED BY <2>1, <2>2, <2>4, <2>5, <1>2, <1>6, <1>7 DEF Answers
<1>9. CASE d.state = "SERVER_CERTIFICATE"
  <2>1. m.id = nonce + 1
    BY <1>4, <1>9 DEF Replies
  <2>2. m.id # None /\ m.id # v.sum[1].id
    BY <2>1, <1>1, <1>3, <1>6, IdsBefore DEF NullIsNull, NullIsNothing
  <2>3. MasterOf(d) = None
    BY <1>9 DEF MasterOf, Keyed
  <2> QED BY <2>2, <2>3, <1>2, <1>6, <1>7 DEF Answers
<1> QED BY <1>8, <1>9 DEF Replies

\* ssl_write_server_hello.
LEMMA WriteServerHelloFares ==
  ASSUME NEW c, Poised("server", c), NEW u, WriteServerHello
  PROVE  \E d : Fares("server", c, u, d)
<1> DEFINE e == "server"
<1>1. UNCHANGED <<conf, who, origin>> /\ e \in End /\ Other(e) = "client"
  BY DEF WriteServerHello, envVars, End, Other
<1>2. PICK d, m : Replies(c, d, m) /\ Becomes(e, d) /\ At(e, "SERVER_HELLO") /\ nonce' = nonce + 2
  BY ServerHelloWritten
<1>3. Touch(e, d)'
  BY <1>1, <1>2, ServerHelloMatches
<1> DEFINE v == Tells(e, c)
<1>4. Answers(origin, v, m, MasterOf(d))
  BY <1>2, ServerHelloAnswers
<1> HIDE DEF e
<1>5. /\ c.state = "SERVER_HELLO" /\ c.out = None /\ d.end = "no" /\ d.dh = c.dh
      /\ d.tin = c.tin /\ d.tout = c.tout /\ d.own = c.own /\ m.msg = "ServerHello"
      /\ d.sum = Append(c.sum, m) /\ d.out = [key |-> c.tout, body |-> m]
      /\ d.state \in {"SERVER_CHANGE_CIPHER_SPEC", "SERVER_CERTIFICATE"}
      /\ NullIsNull /\ e = "server"
  BY <1>2 DEF Poised, At, Replies, ServerHello, e
<1>6. c.state \in TurnsOf(e) /\ d.state \in TurnsOf(e) /\ d.state # FinishedState(e) /\ c.state # FinishedState(e)
  BY <1>5 DEF TurnsOf, FinishedState
<1>7. Writing(e, c) /\ ~ Reading(e, d)
  BY <1>1, <1>6, TurnsApart
<1>8. /\ v.mode = "flight" /\ ~ v.due /\ v.key = c.tout /\ v.info = <<c.own>> /\ v.sum = c.sum
      /\ v.dh = c.dh
  BY <1>1, <1>6, WriterFields
<1>9. Tells(e, d) = View("flight", v.key, FALSE, v.info, With(v.sum, m), v.dh, MasterOf(d))
  <2> HIDE DEF v
  <2>1. With(v.sum, m) = d.sum
    BY <1>5, <1>8 DEF With, HandshakeMessages
  <2>2. Tells(e, d) = View("flight", d.tout, d.state = FinishedState(e), <<d.own>>, d.sum, d.dh,
                           MasterOf(d))
    BY <1>1, <1>6, WriterTells
  <2>3. (d.state = FinishedState(e)) = FALSE
    BY <1>6
  <2> QED BY <2>1, <2>2, <2>3, <1>5, <1>8
<1> HIDE DEF v
<1>10. Hop(origin, Certs, Other(e), v, d.out, Tells(e, d))
  <2>1. Continues(origin, Certs, Other(e), v, m, v.dh, MasterOf(d))
    BY <1>1, <1>4, <1>5 DEF Continues
  <2>2. d.out.key = v.key /\ d.out.body = m
    BY <1>5, <1>8
  <2>3. MessageHop(origin, Certs, Other(e), v, d.out, Tells(e, d))
    BY <2>1, <2>2, <1>8, <1>9 DEF MessageHop
  <2> QED BY <2>3 DEF Hop
<1>11. d.out # None
  BY <1>5 DEF NullIsNull
<1>12. Acts(e, c, d)
  BY <1>2, <1>5, <1>7, <1>10, <1>11 DEF Acts, Works, v
<1>13. Fares(e, c, u, d)
  BY <1>12, <1>3, <1>5 DEF Fares, Goes
<1> QED BY <1>13 DEF e

\* The ServerHello that the client reads answers its ClientHello.
Answered(c, u, h, master) ==
  /\ h.id # None
  /\ c.reneg => h.info = <<c.own, c.peer>>
  /\ IF h.id = c.sum[1].id
     THEN \E o \in origin : o.id = h.id /\ o.suite = h.suite /\ o.master = master
     ELSE master = None
  /\ u = Flight(c.tin, <<c.peer>>, With(c.sum, h), None, master)

\* The client is between the hellos.
LEMMA ServerHelloArrives ==
  ASSUME NEW c, Poised("client", c), NEW u, HopDue("client", u), At("client", "SERVER_HELLO"),
         net["client"] # <<>>, NEW h, h = Incoming("client"), h.msg = "ServerHello"
  PROVE  \E master : Answered(c, u, h, master)
<1> DEFINE e == "client"
<1>1. /\ e \in End /\ c = ctx[e] /\ Touch(e, c) /\ c.state = "SERVER_HELLO"
      /\ e = "client" /\ HopDue(e, u) /\ net[e] # <<>> /\ h = Incoming(e) /\ Other(e) = "server"
  BY DEF Poised, At, End, Other
<1> HIDE DEF e
<1>2. /\ Reading(e, c) /\ c.state # FinishedState(Other(e))
      /\ ~ (c.state = "SERVER_HELLO_DONE" /\ c.msg.msg = "ServerHelloDone")
  BY <1>1 DEF Reading, TurnsOf, FinishedState
<1>3. PICK v : v = Sees(e, c)
  OBVIOUS
<1>4. PICK dh, master : /\ Continues(origin, Certs, e, v, h, dh, master)
                        /\ u = Flight(c.tin, <<c.peer>>, With(c.sum, h), dh, master)
  <2>1. h.msg \in HandshakeMessages \cup {"NoCertificate"} /\ h.msg # "ServerHelloDone"
    BY DEF HandshakeMessages
  <2> QED BY <1>1, <1>2, <1>3, <2>1, Continued
<1>5. v.sum = c.sum /\ v.info = <<c.peer>> /\ v.dh = c.dh
  BY <1>1, <1>2, <1>3, ReaderFields
<1>6. Answers(origin, v, h, master) /\ dh = v.dh
  BY <1>4 DEF Continues
<1>7. c.dh = None /\ c.sum[1].info = IF c.reneg THEN <<c.own>> ELSE <<>>
  BY <1>1 DEF Touch, Greets
<1>8. c.reneg => h.info = <<c.own, c.peer>>
  <2>1. v.sum[1].info # <<>> => h.info = <<v.sum[1].info[1], v.info[1]>>
    BY <1>6 DEF Answers
  <2> QED BY <2>1, <1>5, <1>7
<1>9. /\ h.id # None
      /\ IF h.id = c.sum[1].id
         THEN \E o \in origin : o.id = h.id /\ o.suite = h.suite /\ o.master = master
         ELSE master = None
  BY <1>5, <1>6 DEF Answers
<1>10. dh = None
  BY <1>5, <1>6, <1>7
<1> QED BY <1>4, <1>8, <1>9, <1>10 DEF Answered

\* ssl_parse_server_hello, when it refuses.
LEMMA RefuseServerHelloFares ==
  ASSUME NEW c, Poised("client", c), NEW u, HopDue("client", u), RefuseServerHello
  PROVE  \E d : Fares("client", c, u, d)
<1> DEFINE e == "client"
<1>1. /\ e \in End /\ Typed /\ c = ctx[e] /\ Other(e) = "server" /\ AgreeInv
  BY DEF Poised, AgreeInv, End, Other
<1>2. PICK h, d, why :
           /\ At("client", "SERVER_HELLO") /\ net["client"] # <<>> /\ h = Incoming("client")
           /\ h.msg = "ServerHello" /\ Leaves("client", c, d, why)
           /\ why \in {"hello", "version", "nocipher", "renegotiation"}
           /\ why = "renegotiation" => c.reneg /\ h.info # <<c.own, c.peer>>
  BY <1>1, ServerHelloRefused
<1>3. why # "renegotiation"
  <2>1. \E master : Answered(c, u, h, master)
    BY <1>2, ServerHelloArrives
  <2> QED BY <2>1, <1>2 DEF Answered
<1>4. c.out = None /\ c.state = "SERVER_HELLO" /\ c.state \in Named
  BY <1>1, <1>2 DEF At, Named, Underway
<1>5. c.state # FinishedState(e)
  BY <1>4 DEF FinishedState
<1> HIDE DEF e
<1>6. Dies(e, c, d)
  <2>1. Leaves(e, c, d, why)
    BY <1>2 DEF e
  <2> QED BY <2>1, <1>1, <1>2, <1>3, <1>4, <1>5, LeavesDies
<1>7. Fares(e, c, u, d)
  BY <1>6 DEF Fares
<1> QED BY <1>7 DEF e

\* What the client makes of a ServerHello.
Followed(c, h, d) ==
  /\ d.sum = With(c.sum, h) /\ d.max = c.max /\ d.minor = h.minor /\ d.dh = c.dh
  /\ d.tin = c.tin /\ d.tout = c.tout /\ d.own = c.own /\ d.peer = c.peer
  /\ d.end = c.end /\ d.out = c.out
  /\ \/ /\ Accepts(c, h) /\ d.state = "SERVER_CHANGE_CIPHER_SPEC" /\ d.resume
        /\ d.neg.master = c.neg.master
        /\ d.tneg = KeysOf(c.neg.master, c.rc, h.random, c.neg.suite, h.minor)
     \/ /\ ~ Accepts(c, h) /\ d.state = "SERVER_CERTIFICATE" /\ d.resume = FALSE
        /\ d.rc = c.rc /\ d.rs = h.random

\* ssl_parse_server_hello, field by field.
LEMMA HelloFollowed ==
  ASSUME NEW c, NEW h, NEW d, d.minor = h.minor, GoesOnWith(c, h, d) \/ GoesAlong(c, h, d)
  PROVE  Followed(c, h, d)
<1>1. CASE GoesOnWith(c, h, d)
  <2>1. /\ d.max = c.max /\ d.dh = c.dh /\ d.resume = c.resume
        /\ d.tin = c.tin /\ d.tout = c.tout /\ d.own = c.own /\ d.peer = c.peer
        /\ d.end = c.end /\ d.out = c.out
    BY <1>1 DEF GoesOnWith, Same, Fields
  <2>2. d.neg.master = c.neg.master
    BY <1>1 DEF GoesOnWith, SessionFields
  <2>3. c.resume
    BY <1>1 DEF GoesOnWith, Accepts
  <2> QED BY <2>1, <2>2, <2>3, <1>1 DEF GoesOnWith, Followed
<1>2. CASE GoesAlong(c, h, d)
  <2>1. /\ d.max = c.max /\ d.dh = c.dh /\ d.rc = c.rc
        /\ d.tin = c.tin /\ d.tout = c.tout /\ d.own = c.own /\ d.peer = c.peer
        /\ d.end = c.end /\ d.out = c.out
    BY <1>2 DEF GoesAlong, Same, Fields
  <2> QED BY <2>1, <1>2 DEF GoesAlong, Followed
<1> QED BY <1>1, <1>2

\* The client accepts the session it has offered just when the server names it.
LEMMA AcceptsNamed ==
  ASSUME NEW c, Poised("client", c), At("client", "SERVER_HELLO"), NEW u, NEW h, NEW master,
         Answered(c, u, h, master)
  PROVE  /\ Accepts(c, h) <=> h.id = c.sum[1].id
         /\ master = (IF Accepts(c, h) THEN c.neg.master ELSE None)
<1>1. /\ Touch("client", c) /\ c.state = "SERVER_HELLO" /\ Identified
  BY DEF Poised, At
<1>2. /\ c.sum[1].id = IF c.reneg \/ ~ c.resume THEN None ELSE c.neg.id
      /\ c.resume /\ ~ c.reneg => Negotiated(c.neg)
  BY <1>1 DEF Touch, Greets
<1>3. /\ h.id # None
      /\ IF h.id = c.sum[1].id
         THEN \E o \in origin : o.id = h.id /\ o.suite = h.suite /\ o.master = master
         ELSE master = None
  BY DEF Answered
<1>4. CASE h.id # c.sum[1].id
  <2>1. ~ Accepts(c, h)
    BY <1>2, <1>4 DEF Accepts
  <2> QED BY <2>1, <1>3, <1>4
<1>5. CASE h.id = c.sum[1].id
  <2>1. ~ c.reneg /\ c.resume /\ c.neg.id = h.id
    BY <1>2, <1>3, <1>5
  <2>2. PICK o \in origin : o.id = h.id /\ o.suite = h.suite /\ o.master = master
    BY <1>3, <1>5
  <2>3. PICK p \in origin : p.id = c.neg.id /\ p.suite = c.neg.suite /\ p.master = c.neg.master
    BY <1>2, <2>1 DEF Negotiated
  <2>4. o.suite = p.suite /\ o.master = p.master
    BY <1>1, <2>1, <2>2, <2>3 DEF Identified
  <2>5. Accepts(c, h) /\ master = c.neg.master
    BY <2>1, <2>2, <2>3, <2>4 DEF Accepts
  <2> QED BY <2>5, <1>5
<1> QED BY <1>4, <1>5

\* What the client has of the hellos.
LEMMA FollowsMatches ==
  ASSUME NEW c, Poised("client", c), At("client", "SERVER_HELLO"), NEW u, NEW h, NEW master,
         h.msg = "ServerHello", Answered(c, u, h, master), NEW d, Followed(c, h, d)
  PROVE  Touch("client", d) /\ master = MasterOf(d)
<1> DEFINE e == "client"
<1>1. /\ e \in End /\ c = ctx[e] /\ AgreeInv /\ Touch(e, c) /\ c.state = "SERVER_HELLO"
      /\ c.end = "no" /\ e = "client"
  BY DEF Poised, AgreeInv, At, End
<1>2. /\ Accepts(c, h) <=> h.id = c.sum[1].id
      /\ master = (IF Accepts(c, h) THEN c.neg.master ELSE None)
  BY AcceptsNamed
<1> HIDE DEF e
<1>3. Sequence(c.sum) /\ Len(c.sum) = 1
  BY <1>1, HellosIn DEF HelloSecond
<1>4. c.sum[1].random = c.rc /\ c.sum[1].max = c.max /\ c.dh = None
  BY <1>1 DEF Touch, Greets
<1>5. d.sum[1] = c.sum[1] /\ d.sum[2] = h
  <2>1. d.sum = Append(c.sum, h)
    BY DEF Followed, With, HandshakeMessages
  <2> QED BY <2>1, <1>3, SecondOf
<1>6. d.resume <=> Resumed(d.sum)
  BY <1>2, <1>5 DEF Followed, Resumed
<1>7. KeysMatch(d) /\ master = MasterOf(d)
  <2>1. CASE Accepts(c, h)
    <3>1. /\ d.state = "SERVER_CHANGE_CIPHER_SPEC" /\ d.neg.master = c.neg.master
          /\ d.tneg = KeysOf(c.neg.master, c.rc, h.random, c.neg.suite, h.minor)
      BY <2>1 DEF Followed
    <3>2. c.neg.suite = h.suite
      BY <2>1 DEF Accepts
    <3> QED BY <3>1, <3>2, <2>1, <1>2, <1>4, <1>5 DEF KeysMatch, Keyed, MasterOf
  <2>2. CASE ~ Accepts(c, h)
    <3>1. d.state = "SERVER_CERTIFICATE" /\ d.rc = c.rc /\ d.rs = h.random
      BY <2>2 DEF Followed
    <3> QED BY <3>1, <2>2, <1>2, <1>4, <1>5 DEF KeysMatch, Keyed, MasterOf
  <2> QED BY <2>1, <2>2
<1>8. PeerMatches(e, d) /\ HalfMatches(e, d)
  BY <1>1, <1>4 DEF Followed, PeerMatches, HalfMatches, Informed
<1>9. Matching(e, d)
  BY <1>1, <1>4, <1>5, <1>6, <1>7, <1>8 DEF Matching, Followed
<1>10. Ready(e, d) /\ Greets(e, d) /\ Blank(d)
  BY <1>1 DEF Followed, Ready, Waking, Greets, Touch, Blank
<1>11. Touch(e, d)
  BY <1>9, <1>10 DEF Touch
<1> QED BY <1>7, <1>11 DEF e

\* ssl_parse_server_hello, when it accepts.
LEMMA ParseServerHelloFares ==
  ASSUME NEW c, Poised("client", c), NEW u, HopDue("client", u), ParseServerHello
  PROVE  \E d : Fares("client", c, u, d)
<1> DEFINE e == "client"
<1>1. /\ e \in End /\ Other(e) = "server" /\ c = ctx[e] /\ Typed /\ Typed' /\ Poised(e, c)
  BY DEF Poised, AgreeInv, End, Other
<1>2. PICK h, d : /\ Gets(e, "SERVER_HELLO", {"ServerHello"})
                  /\ h = Incoming(e) /\ h.minor \in Version /\ Consumes(e, d)
                  /\ GoesOnWith(c, h, d) \/ GoesAlong(c, h, d)
                  /\ d.minor = h.minor /\ nonce' = nonce /\ Around
  BY <1>1, ParseServerHelloIs
<1>3. /\ At(e, "SERVER_HELLO") /\ net[e] # <<>> /\ h.msg = "ServerHello"
      /\ c.state = "SERVER_HELLO" /\ c.end = "no"
  BY <1>1, <1>2, HeadKey
<1>4. PICK master : Answered(c, u, h, master)
  BY <1>2, <1>3, ServerHelloArrives
<1>5. Followed(c, h, d)
  BY <1>2, HelloFollowed
<1>6. Touch(e, d) /\ master = MasterOf(d)
  BY <1>3, <1>4, <1>5, FollowsMatches
<1>7. c.dh = None
  BY <1>3 DEF Poised, Touch, Greets
<1> HIDE DEF e
<1>8. /\ d.state \in {"SERVER_CHANGE_CIPHER_SPEC", "SERVER_CERTIFICATE"}
      /\ d.tin = c.tin /\ d.tout = c.tout /\ d.own = c.own /\ d.peer = c.peer
      /\ d.end = "no" /\ d.out = c.out /\ d.dh = None /\ d.sum = With(c.sum, h)
  BY <1>3, <1>5, <1>7 DEF Followed
<1>9. /\ Reading(e, c) /\ Reading(e, d) /\ d.state # FinishedState(Other(e))
      /\ ~ (d.state = "SERVER_HELLO_DONE" /\ d.msg.msg = "ServerHelloDone")
  BY <1>1, <1>3, <1>8 DEF Reading, TurnsOf, FinishedState
<1>10. ~ Writing(e, c) /\ ~ Writing(e, d)
  BY <1>1, <1>9, TurnsApart
<1>11. Sees(e, d) = u
  <2>1. Sees(e, d) = View("flight", d.tin, d.state = FinishedState(Other(e)), <<d.peer>>, d.sum,
                          d.dh, MasterOf(d))
    BY <1>1, <1>9, ReaderViews
  <2>2. (d.state = FinishedState(Other(e))) = FALSE
    BY <1>9
  <2>3. u = View("flight", c.tin, FALSE, <<c.peer>>, With(c.sum, h), None, master)
    BY <1>4 DEF Answered, Flight
  <2> QED BY <2>1, <2>2, <2>3, <1>6, <1>8
<1>12. Takes(e, c, u, d)
  BY <1>8, <1>10, <1>11 DEF Takes, Hushed
<1>13. ~ Harmless(Incoming(e))
  BY <1>2, <1>3 DEF Harmless
<1>14. Learns(e, c, u, d)
  BY <1>2, <1>3, <1>10, <1>12, <1>13 DEF Learns
<1>15. UNCHANGED <<conf, who, origin>> /\ nonce' = nonce
  BY <1>2 DEF Around
<1>16. Fares(e, c, u, d)
  BY <1>14, <1>15, <1>6, <1>8, <1>1, FaresOn DEF Goes
<1> QED BY <1>16 DEF e

-----------------------------------------------------------------------------
(* The turns taken together                                                  *)

\* A turn other than ssl_flush_output.
Takeover(e) ==
  \/ Start(e) \/ WriteCertificate(e) \/ ParseCertificate(e)
  \/ WriteChangeCipherSpec(e) \/ ParseChangeCipherSpec(e)
  \/ WriteFinished(e) \/ ParseFinished(e) \/ FlushBuffers(e) \/ Wrapup(e)
  \/ RefuseRecord(e) \/ Eof(e) \/ ReadData(e)
  \/ WriteData(e) \/ Close(e) \/ Lose(e)
  \/ e = "client" /\ (ClientTurn \/ Renegotiate)
  \/ e = "server" /\ ServerTurn

\* What such a turn does for the two ends.
LEMMA TurnFares ==
  ASSUME NEW e \in End, NEW c, Poised(e, c), NEW u, HopDue(e, u), Takeover(e)
  PROVE  \E d : Fares(e, c, u, d)
<1>1. CASE \/ Start(e) \/ WriteCertificate(e) \/ ParseCertificate(e)
           \/ WriteChangeCipherSpec(e) \/ ParseChangeCipherSpec(e)
  BY <1>1, StartFares, WriteCertificateFares, ParseCertificateFares,
     WriteChangeCipherSpecFares, ParseChangeCipherSpecFares
<1>2. CASE WriteFinished(e) \/ ParseFinished(e) \/ FlushBuffers(e) \/ Wrapup(e)
  BY <1>2, WriteFinishedFares, ParseFinishedFares, FlushBuffersFares, WrapupFares
<1>3. CASE RefuseRecord(e) \/ Eof(e) \/ ReadData(e) \/ WriteData(e) \/ Close(e) \/ Lose(e)
  BY <1>3, RefuseRecordFares, ConnectionEndsFares, ReadDataFares, WriteDataFares
<1>4. CASE e = "client" /\ (ClientTurn \/ Renegotiate)
  <2>1. Poised("client", c) /\ HopDue("client", u)
    BY <1>4
  <2>2. \E d : Fares("client", c, u, d)
    BY <1>4, <2>1, WriteClientHelloFares, RefuseServerHelloFares, ParseServerHelloFares,
       ParseServerKeyExchangeFares, ParseCertificateRequestFares, ParseServerHelloDoneFares,
       WriteClientKeyExchangeFares, WriteCertificateVerifyFares, RenegotiateFares DEF ClientTurn
  <2> QED BY <1>4, <2>2
<1>5. CASE e = "server" /\ ServerTurn
  <2>1. Poised("server", c) /\ HopDue("server", u)
    BY <1>5
  <2>2. \E d : Fares("server", c, u, d)
    BY <1>5, <2>1, ParseClientHelloFares, WriteServerHelloFares, SkipCertificateFares,
       WriteServerKeyExchangeFares, WriteCertificateRequestFares, WriteServerHelloDoneFares,
       ParseClientKeyExchangeFares, ParseCertificateVerifyFares, ReadHelloFares DEF ServerTurn
  <2> QED BY <1>5, <2>2
<1> QED BY <1>1, <1>2, <1>3, <1>4, <1>5 DEF Takeover

\* It is a turn of a live end.
LEMMA TurnAlive ==
  ASSUME NEW e \in End, Takeover(e)
  PROVE  ctx[e].end = "no"
<1>1. CASE \/ Start(e) \/ WriteCertificate(e) \/ ParseCertificate(e)
           \/ WriteChangeCipherSpec(e) \/ ParseChangeCipherSpec(e)
  BY <1>1 DEF Start, WriteCertificate, ParseCertificate, WriteChangeCipherSpec,
              ParseChangeCipherSpec, Gets, At
<1>2. CASE WriteFinished(e) \/ ParseFinished(e) \/ FlushBuffers(e) \/ Wrapup(e)
  BY <1>2 DEF WriteFinished, ParseFinished, FlushBuffers, Wrapup, Gets, At
<1>3. CASE RefuseRecord(e) \/ Eof(e) \/ ReadData(e) \/ WriteData(e) \/ Close(e) \/ Lose(e)
  BY <1>3 DEF RefuseRecord, Eof, ReadData, WriteData, Close, Lose, Gets, At
<1>4. CASE e = "client" /\ (ClientTurn \/ Renegotiate)
  <2>1. CASE \/ WriteClientHello \/ RefuseServerHello \/ ParseServerHello \/ Renegotiate
             \/ WriteCertificateVerify
    BY <1>4, <2>1 DEF WriteClientHello, RefuseServerHello, ParseServerHello, Renegotiate,
                      WriteCertificateVerify, Gets, At
  <2>2. CASE \/ ParseServerKeyExchange \/ ParseCertificateRequest \/ ParseServerHelloDone
             \/ WriteClientKeyExchange
    BY <1>4, <2>2 DEF ParseServerKeyExchange, ParseCertificateRequest, ParseServerHelloDone,
                      WriteClientKeyExchange, Gets, At
  <2> QED BY <1>4, <2>1, <2>2 DEF ClientTurn
<1>5. CASE e = "server" /\ ServerTurn
  <2>1. CASE ParseClientHello \/ WriteServerHello \/ SkipCertificate \/ ReadHello
    BY <1>5, <2>1 DEF ParseClientHello, WriteServerHello, SkipCertificate, ReadHello, Gets, At
  <2>2. CASE \/ WriteServerKeyExchange \/ WriteCertificateRequest \/ WriteServerHelloDone
             \/ ParseClientKeyExchange \/ ParseCertificateVerify
    BY <1>5, <2>2 DEF WriteServerKeyExchange, WriteCertificateRequest, WriteServerHelloDone,
                      ParseClientKeyExchange, ParseCertificateVerify, Gets, At
  <2> QED BY <1>5, <2>1, <2>2 DEF ServerTurn
<1> QED BY <1>1, <1>2, <1>3, <1>4, <1>5 DEF Takeover

\* It leaves the settings alone, and but for the server's Finished the sessions that have been
\* negotiated.
LEMMA TurnSides ==
  ASSUME NEW e \in End, Takeover(e), ~ WriteFinished(e)
  PROVE  origin' = origin
<1>1. CASE \/ Start(e) \/ WriteCertificate(e) \/ ParseCertificate(e)
           \/ WriteChangeCipherSpec(e) \/ ParseChangeCipherSpec(e)
  BY <1>1 DEF Start, WriteCertificate, ParseCertificate, WriteChangeCipherSpec,
              ParseChangeCipherSpec, envVars
<1>2. CASE ParseFinished(e) \/ FlushBuffers(e) \/ Wrapup(e)
  BY <1>2 DEF ParseFinished, FlushBuffers, Wrapup, envVars
<1>3. CASE RefuseRecord(e) \/ Eof(e) \/ ReadData(e) \/ WriteData(e) \/ Close(e) \/ Lose(e)
  BY <1>3 DEF RefuseRecord, Eof, ReadData, WriteData, Close, Lose, envVars
<1>4. CASE ClientTurn \/ Renegotiate
  <2>1. CASE \/ WriteClientHello \/ RefuseServerHello \/ ParseServerHello \/ Renegotiate
             \/ WriteCertificateVerify
    BY <2>1 DEF WriteClientHello, RefuseServerHello, ParseServerHello, Renegotiate,
                      WriteCertificateVerify, envVars
  <2>2. CASE \/ ParseServerKeyExchange \/ ParseCertificateRequest \/ ParseServerHelloDone
             \/ WriteClientKeyExchange
    BY <2>2 DEF ParseServerKeyExchange, ParseCertificateRequest, ParseServerHelloDone,
                      WriteClientKeyExchange, envVars
  <2> QED BY <1>4, <2>1, <2>2 DEF ClientTurn
<1>5. CASE ServerTurn
  <2>1. CASE ParseClientHello \/ WriteServerHello \/ SkipCertificate \/ ReadHello
    BY <2>1 DEF ParseClientHello, WriteServerHello, SkipCertificate, ReadHello, envVars
  <2>2. CASE \/ WriteServerKeyExchange \/ WriteCertificateRequest \/ WriteServerHelloDone
             \/ ParseClientKeyExchange \/ ParseCertificateVerify
    BY <2>2 DEF WriteServerKeyExchange, WriteCertificateRequest, WriteServerHelloDone,
                      ParseClientKeyExchange, ParseCertificateVerify, envVars
  <2> QED BY <1>5, <2>1, <2>2 DEF ServerTurn
<1> QED BY <1>1, <1>2, <1>3, <1>4, <1>5 DEF Takeover

\* Nor does any take a number back.
LEMMA TurnNumbers ==
  ASSUME Typed, NEW e \in End, Takeover(e)
  PROVE  UNCHANGED <<conf, who>> /\ nonce <= nonce'
<1>1. PICK d : Moves(e, ctx[e], d)
  <2>1. CASE \/ Start(e)
             \/ e = "client" /\ (WriteClientHello \/ RefuseServerHello \/ ParseServerHello)
             \/ e = "server" /\ (ParseClientHello \/ WriteServerHello)
    BY <2>1, HelloMoves
  <2>2. CASE \/ e = "client" /\ \/ ParseServerKeyExchange \/ ParseCertificateRequest
                                \/ ParseServerHelloDone \/ WriteClientKeyExchange
                                \/ WriteCertificateVerify
             \/ e = "server" /\ \/ SkipCertificate \/ WriteServerKeyExchange
                                \/ WriteCertificateRequest \/ WriteServerHelloDone
                                \/ ParseClientKeyExchange \/ ParseCertificateVerify
             \/ WriteCertificate(e) \/ ParseCertificate(e)
             \/ WriteChangeCipherSpec(e) \/ ParseChangeCipherSpec(e)
             \/ WriteFinished(e) \/ ParseFinished(e) \/ FlushBuffers(e) \/ Wrapup(e)
    BY <2>2, LaterMoves
  <2>3. CASE \/ RefuseRecord(e) \/ Eof(e) \/ ReadData(e)
             \/ e = "server" /\ ReadHello
             \/ e = "client" /\ Renegotiate
             \/ WriteData(e) \/ Close(e) \/ Lose(e)
    BY <2>3, AnyTimeMoves
  <2>4. CASE e = "client" /\ (ClientTurn \/ Renegotiate)
    BY <2>1, <2>2, <2>3, <2>4 DEF ClientTurn
  <2>5. CASE e = "server" /\ ServerTurn
    BY <2>1, <2>2, <2>3, <2>5 DEF ServerTurn
  <2> QED BY <2>1, <2>2, <2>3, <2>4, <2>5 DEF Takeover
<1>2. nonce \in Nat
  BY DEF Typed
<1>3. PICK c : c = ctx[e]
  OBVIOUS
<1>4. CASE \/ Starts(e, c, d) \/ Offers(c, d) \/ (\E h : TakesName(c, h, d))
           \/ Names(c, d) \/ Skips(c, d) \/ (\E h : TakesOffer(c, h, d))
  BY <1>2, <1>4 DEF Starts, Offers, TakesName, Names, Skips, TakesOffer, Around
<1>5. CASE \/ MiddleTurn(e, c, d) \/ Standing(e, c, d) \/ Presents(e, c, d) \/ SeesCertificate(e, c, d)
  BY <1>2, <1>5 DEF MiddleTurn, Standing, Presents, SeesCertificate, Around
<1>6. CASE \/ SaysFinished(e, c, d) \/ HearsFinished(e, c, d) \/ Wraps(e, c, d)
           \/ Flushes(e, c, d) \/ Restarts(e, c, d) \/ Closes(e, c, d)
  BY <1>2, <1>6 DEF SaysFinished, HearsFinished, Wraps, Flushes, Restarts, Closes, Around
<1> QED BY <1>1, <1>3, <1>4, <1>5, <1>6 DEF Moves

-----------------------------------------------------------------------------
(* The two ends of a connection                                              *)

\* Nothing that e would mind is on its way to e, and its peer's turn has not begun.
BackOf(e, c, q) == Idling(q, c.tin) /\ (Reading(e, c) => c.state \in WaitsOf(e))

\* The records of q bring e, which reads, to b.
ForthOf(known, cert, e, c, q, b) == ~ Writing(e, c) /\ Way(known, cert, e, Sees(e, c), q, b)

\* e has nothing to read, and its peer g all that e has written.
AheadOf(known, cert, e, c, q, g, p) ==
  BackOf(e, c, q) /\ c.tin = g.tout /\ ForthOf(known, cert, Other(e), g, p, Tells(e, c))

\* The client waits for the answer to a ClientHello the server has turned down.
RefusedOf(e, c, q, g, p) ==
  /\ IF e = "client" THEN c.state = "SERVER_HELLO" /\ g.state = "HANDSHAKE_OVER"
     ELSE g.state = "SERVER_HELLO" /\ c.state = "HANDSHAKE_OVER"
  /\ BackOf(e, c, q) /\ BackOf(Other(e), g, p) /\ c.tin = g.tout /\ g.tin = c.tout
Together(known, cert, e, c, q, g, p) ==
  \/ AheadOf(known, cert, e, c, q, g, p) \/ AheadOf(known, cert, Other(e), g, p, c, q)
  \/ RefusedOf(e, c, q, g, p)

\* What is left of that when the peer is gone.
Alone(known, cert, e, c, q) == BackOf(e, c, q) \/ \E b : ForthOf(known, cert, e, c, q, b)

\* An end that reads under the key its peer writes under has the peer's verify data.
Peered(c, g) == g.tin = c.tout => g.peer = c.own

\* c's end has written what d holds and c did not.
Spoken(c, d, p, x) ==
  \/ d.out = c.out /\ x = p
  \/ c.out = None /\ d.out # None /\ x = Append(p, d.out)

\* The other end of the other end.
LEMMA OtherOther ==
  ASSUME NEW e \in End
  PROVE  /\ Other(e) \in End
         /\ Other(Other(e)) = e
         /\ Other(e) # e
BY DEF End, Other

\* It is all the same from either end.
LEMMA TogetherTurned ==
  ASSUME NEW known, NEW cert, NEW e \in End, NEW c, NEW q, NEW g, NEW p,
         Together(known, cert, e, c, q, g, p)
  PROVE  Together(known, cert, Other(e), g, p, c, q)
<1>1. CASE RefusedOf(e, c, q, g, p)
  <2>1. RefusedOf(Other(e), g, p, c, q)
    BY <1>1, OtherOther DEF RefusedOf, End, Other
  <2> QED BY <2>1 DEF Together
<1>2. CASE AheadOf(known, cert, e, c, q, g, p) \/ AheadOf(known, cert, Other(e), g, p, c, q)
  BY <1>2, OtherOther DEF Together
<1> QED BY <1>1, <1>2 DEF Together

\* Harmless records more, or less.
LEMMA IdlingAppend ==
  ASSUME NEW q, Sequence(q), NEW key, Idling(q, key), NEW r, r.key = key, Harmless(r.body)
  PROVE  Idling(Append(q, r), key)
<1>1. /\ Len(q) \in Nat /\ Len(Append(q, r)) = Len(q) + 1
      /\ \A i \in 1..Len(q) : Append(q, r)[i] = q[i]
      /\ Append(q, r)[Len(q) + 1] = r
  BY AppendTo
<1>2. ASSUME NEW i \in 1..Len(Append(q, r))
      PROVE  Append(q, r)[i].key = key /\ Harmless(Append(q, r)[i].body)
  <2>1. i \in 1..Len(q) \/ i = Len(q) + 1
    BY <1>1
  <2> QED BY <1>1, <2>1 DEF Idling
<1> QED BY <1>2 DEF Idling

\* And one that is read.
LEMMA IdlingTail ==
  ASSUME NEW q, Sequence(q), q # <<>>, NEW key, Idling(q, key)
  PROVE  /\ Idling(Tail(q), key)
         /\ q[1].key = key
         /\ Harmless(q[1].body)
<1>1. 1 \in 1..Len(q) /\ \A i \in 1..Len(Tail(q)) : i + 1 \in 1..Len(q) /\ Tail(q)[i] = q[i + 1]
  BY TailOfRecords
<1> QED BY <1>1 DEF Idling

\* What the end says next is harmless under its key.
LEMMA HushedIdling ==
  ASSUME NEW c, NEW d, Hushed(c, d), NEW p, Sequence(p), Idling(p, c.tout), NEW x, Spoken(c, d, p, x)
  PROVE  Idling(x, c.tout)
<1>1. CASE d.out = c.out /\ x = p
  BY <1>1
<1>2. CASE c.out = None /\ d.out # None /\ x = Append(p, d.out)
  <2>1. d.out.key = c.tout /\ Harmless(d.out.body)
    BY <1>2 DEF Hushed
  <2> QED BY <1>2, <2>1, IdlingAppend
<1> QED BY <1>1, <1>2 DEF Spoken

\* An end that reads is where its key is, and no Finished is due before its peer's turn.
LEMMA BackSees ==
  ASSUME NEW e \in End, NEW c, c.state \in Named, ~ Writing(e, c), Reading(e, c) => c.state \in WaitsOf(e)
  PROVE  /\ Sees(e, c).key = c.tin
         /\ ~ Sees(e, c).due
<1>1. CASE Idle(e, c)
  BY <1>1, IdleViews DEF Calm, View
<1>2. CASE Reading(e, c)
  <2>1. c.state \in WaitsOf(e)
    BY <1>2
  <2>2. c.state # FinishedState(Other(e)) /\ ~ (c.state = "SERVER_HELLO_DONE" /\ c.msg.msg = "ServerHelloDone")
    BY <2>1 DEF WaitsOf, FinishedState, Other, End
  <2> QED BY <1>2, <2>2, ReaderFields
<1> QED BY <1>1, <1>2, TurnsApart

\* An end that has written its turn, or has yet to begin it, is where its peer's view is.
LEMMA TurnOver ==
  ASSUME NEW f \in End, NEW g, Reading(f, g), g.state \in WaitsOf(f), NEW e, e = Other(f), NEW d,
         Writing(e, d), d.state # FinishedState(e), d.state \in Named, NEW c, Peered(c, g),
         g.tin = c.tout, d.tout = c.tout, d.own = c.own,
         g.sum = SumOf(e, d), g.dh = d.dh, MasterOf(g) = MasterOf(d)
  PROVE  Sees(f, g) = Tells(e, d)
<1>1. e \in End /\ Other(f) = e
  BY OtherOther
<1>2. g.state # FinishedState(Other(f)) /\ ~ (g.state = "SERVER_HELLO_DONE" /\ g.msg.msg = "ServerHelloDone")
  BY DEF WaitsOf, FinishedState, Other, End
<1>3. Sees(f, g) = View("flight", g.tin, g.state = FinishedState(Other(f)), <<g.peer>>,
                        g.sum, g.dh, MasterOf(g))
  BY <1>2, ReaderViews
<1>4. (g.state = FinishedState(Other(f))) = FALSE
  BY <1>2
<1>5. g.peer = d.own
  BY DEF Peered
<1>6. Sees(f, g) = View("flight", d.tout, FALSE, <<d.own>>, SumOf(e, d), d.dh, MasterOf(d))
  BY <1>3, <1>4, <1>5
<1>7. CASE d.state \in TurnsOf(e)
  <2>1. Tells(e, d) = View("flight", d.tout, d.state = FinishedState(e), <<d.own>>, d.sum, d.dh,
                           MasterOf(d))
    BY <1>1, <1>7, WriterTells
  <2>2. (d.state = FinishedState(e)) = FALSE
    OBVIOUS
  <2>3. SumOf(e, d) = d.sum
    BY <1>1, <1>7, TurnsApart DEF SumOf
  <2> QED BY <1>6, <2>1, <2>2, <2>3
<1>8. CASE Called(e, d)
  <2>1. Tells(e, d) = View("flight", d.tout, FALSE, <<d.own>>, <<d.msg>>, d.dh, None)
    BY <1>1, <1>8, CalledTells
  <2>2. SumOf(e, d) = <<d.msg>> /\ MasterOf(d) = None
    BY <1>8 DEF SumOf, Called, Waking, MasterOf, Keyed
  <2> QED BY <1>6, <2>1, <2>2
<1> QED BY <1>1, <1>7, <1>8, TurnsApart

\* The fields of a view between handshakes ...
LEMMA CalmIs ==
  ASSUME NEW key, NEW info, NEW v, v = Calm(key, info)
  PROVE  /\ v.key = key
         /\ v.info = info
BY DEF Calm, View

\* ... and of one behind a turn.
LEMMA TurnedIs ==
  ASSUME NEW key, NEW sum, NEW dh, NEW master, NEW v, v = Turned(key, sum, dh, master)
  PROVE  /\ v.key = key
         /\ v.sum = sum
         /\ v.dh = dh
         /\ v.master = master
BY DEF Turned, View

\* The end that is ahead goes on.
LEMMA WorksTogether ==
  ASSUME NEW e \in End, NEW c, NEW q, NEW g, NEW p, AheadOf(origin, Certs, e, c, q, g, p),
         Sequence(p), NEW d, Works(e, c, d), NEW x, Spoken(c, d, p, x)
  PROVE  AheadOf(origin, Certs, e, d, q, g, x)
<1> DEFINE f == Other(e)
<1>1. /\ f \in End /\ Idling(q, c.tin) /\ c.tin = g.tout /\ ~ Writing(f, g)
      /\ Way(origin, Certs, f, Sees(f, g), p, Tells(e, c))
  BY OtherOther DEF AheadOf, BackOf, ForthOf
<1>2. d.tin = c.tin /\ (Reading(e, d) => d.state \in WaitsOf(e))
  BY DEF Works
<1> HIDE DEF f
<1>3. Way(origin, Certs, f, Sees(f, g), x, Tells(e, d))
  <2>1. CASE d.out = c.out /\ x = p
    <3>1. Tells(e, d) = Tells(e, c)
      BY <2>1 DEF Works
    <3> QED BY <3>1, <2>1, <1>1
  <2>2. CASE c.out = None /\ d.out # None /\ x = Append(p, d.out)
    <3>1. Hop(origin, Certs, f, Tells(e, c), d.out, Tells(e, d))
      BY <2>2 DEF Works, f
    <3> QED BY <3>1, <2>2, <1>1, WayAppend
  <2> QED BY <2>1, <2>2 DEF Spoken
<1> QED BY <1>1, <1>2, <1>3 DEF AheadOf, BackOf, ForthOf, f

\* Between handshakes a client that has followed the server is ahead of it as much.
LEMMA IdleSwap ==
  ASSUME NEW c, NEW q, NEW g, NEW p, AheadOf(origin, Certs, "server", g, p, c, q),
         Idle("client", c), Sequence(q), g.state \in Named, Peered(c, g), g.tin = c.tout
  PROVE  AheadOf(origin, Certs, "client", c, q, g, p)
<1> DEFINE e == "client"
           f == "server"
           a == Sees(e, c)
<1>1. /\ e \in End /\ f \in End /\ Other(e) = f /\ Other(f) = e
  BY DEF End, Other
<1>2. /\ Idle(e, c) /\ BackOf(f, g, p) /\ g.tin = c.tout
      /\ Way(origin, Certs, e, a, q, Tells(f, g)) /\ Idling(p, g.tin)
  BY <1>1 DEF AheadOf, BackOf, ForthOf
<1>3. /\ a = Calm(c.tin, IF Unmet(c) THEN <<>> ELSE <<c.peer>>)
      /\ Tells(e, c) = Calm(c.tout, IF Unmet(c) THEN <<>> ELSE <<c.own>>)
  BY <1>1, <1>2, IdleViews
<1>4. a.mode = "calm" /\ a.key = c.tin
  BY <1>3 DEF Calm, View
<1>5. Tells(f, g) = a /\ Idling(q, c.tin)
  <2> HIDE DEF a
  <2> QED BY <1>1, <1>2, <1>4, WayCalm
<1>6. Idle(f, g)
  BY <1>1, <1>4, <1>5, Modes
<1>7. /\ Tells(f, g) = Calm(g.tout, IF Unmet(g) THEN <<>> ELSE <<g.own>>)
      /\ Sees(f, g) = Calm(g.tin, IF Unmet(g) THEN <<>> ELSE <<g.peer>>)
  BY <1>1, <1>6, IdleViews
<1>8. c.tin = g.tout /\ (Unmet(c) <=> Unmet(g))
  <2> DEFINE i == IF Unmet(c) THEN <<>> ELSE <<c.peer>>
             j == IF Unmet(g) THEN <<>> ELSE <<g.own>>
  <2>1. Calm(c.tin, i) = Calm(g.tout, j)
    BY <1>3, <1>5, <1>7
  <2>2. c.tin = g.tout /\ i = j
    <3> HIDE DEF i, j
    <3>1. PICK v : v = Calm(c.tin, i)
      OBVIOUS
    <3>2. v.key = c.tin /\ v.info = i
      BY <3>1, CalmIs
    <3>3. v.key = g.tout /\ v.info = j
      BY <2>1, <3>1, CalmIs
    <3> QED BY <3>2, <3>3
  <2>3. <<c.peer>> # <<>> /\ <<g.own>> # <<>>
    OBVIOUS
  <2> QED BY <2>2, <2>3
<1>9. Sees(f, g) = Tells(e, c)
  BY <1>3, <1>7, <1>8 DEF Peered
<1>10. ~ Sees(f, g).due /\ Sees(f, g).key = g.tin
  BY <1>7 DEF Calm, View
<1>11. Way(origin, Certs, f, Sees(f, g), p, Tells(e, c))
  <2> DEFINE v == Sees(f, g)
  <2> HIDE DEF v
  <2>1. Way(origin, Certs, f, v, p, v)
    BY <1>2, <1>10, WayIdle DEF v
  <2> QED BY <2>1, <1>9 DEF v
<1>12. ~ Writing(f, g) /\ ~ Reading(e, c)
  BY <1>1, <1>2, <1>6, TurnsApart
<1> QED BY <1>1, <1>5, <1>8, <1>11, <1>12 DEF AheadOf, BackOf, ForthOf

\* The end that follows reads on, or it is its turn.
LEMMA TakesTogether ==
  ASSUME NEW e \in End, NEW f, f = Other(e), NEW c, NEW g, NEW p, BackOf(f, g, p), g.tin = c.tout,
         NEW u, NEW y, Sequence(y), Way(origin, Certs, e, u, y, Tells(f, g)),
         NEW d, Takes(e, c, u, d), NEW x, Spoken(c, d, p, x), Sequence(p), Peered(c, g),
         g.state \in Named, d.state \in Named, HelloSecond(g)
  PROVE  Together(origin, Certs, e, d, y, g, x)
<1>1. f \in End /\ Other(f) = e
  BY OtherOther
<1>2. Hushed(c, d) /\ d.tout = c.tout /\ d.own = c.own
  BY DEF Takes, Hushed
<1>3. BackOf(f, g, x)
  BY <1>2, HushedIdling DEF BackOf
<1>4. CASE ~ Writing(e, d) /\ Sees(e, d) = u
  <2>1. AheadOf(origin, Certs, f, g, x, d, y)
    BY <1>1, <1>2, <1>3, <1>4 DEF AheadOf, ForthOf
  <2> QED BY <2>1 DEF Together
<1>5. ASSUME NEW sum, NEW dh, NEW master, u = Turned(d.tin, sum, dh, master)
      PROVE  /\ Idling(y, d.tin) /\ Reading(f, g) /\ g.tout = d.tin
             /\ g.sum = sum /\ g.dh = dh /\ MasterOf(g) = master
  <2>1. u.mode = "done" /\ u.key = d.tin
    BY <1>5 DEF Turned, View
  <2>2. Tells(f, g) = u /\ Idling(y, d.tin)
    BY <2>1, WayDone
  <2>3. Reading(f, g)
    BY <2>1, <2>2, <1>1, Modes
  <2>4. Tells(f, g) = Turned(g.tout, g.sum, g.dh, MasterOf(g))
    BY <2>3, <1>1, ReaderViews
  <2>5. Turned(g.tout, g.sum, g.dh, MasterOf(g)) = Turned(d.tin, sum, dh, master)
    BY <2>2, <2>4, <1>5
  <2>6. g.tout = d.tin /\ g.sum = sum /\ g.dh = dh /\ MasterOf(g) = master
    <3>1. u.key = d.tin /\ u.sum = sum /\ u.dh = dh /\ u.master = master
      BY <1>5, TurnedIs
    <3>2. u = Turned(g.tout, g.sum, g.dh, MasterOf(g))
      BY <2>2, <2>4
    <3>3. u.key = g.tout /\ u.sum = g.sum /\ u.dh = g.dh /\ u.master = MasterOf(g)
      BY <3>2, TurnedIs
    <3> QED BY <3>1, <3>3
  <2> QED BY <2>2, <2>3, <2>6
<1>6. CASE /\ Writing(e, d) /\ d.state # FinishedState(e)
           /\ u = Turned(d.tin, SumOf(e, d), d.dh, MasterOf(d))
  <2>1. /\ Idling(y, d.tin) /\ Reading(f, g) /\ g.tout = d.tin
        /\ g.sum = SumOf(e, d) /\ g.dh = d.dh /\ MasterOf(g) = MasterOf(d)
    BY <1>5, <1>6
  <2>2. g.state \in WaitsOf(f)
    BY <2>1 DEF BackOf
  <2>3. Sees(f, g) = Tells(e, d)
    BY <2>1, <2>2, <1>1, <1>2, <1>6, TurnOver
  <2>4. ~ Writing(f, g) /\ ~ Reading(e, d)
    BY <2>1, <1>1, <1>6, TurnsApart
  <2>5. Way(origin, Certs, f, Sees(f, g), x, Tells(e, d))
    <3> DEFINE v == Sees(f, g)
    <3>1. v.key = g.tin /\ ~ v.due
      BY <1>1, <2>2, <2>4, BackSees
    <3>2. Idling(x, g.tin)
      BY <1>3 DEF BackOf
    <3> HIDE DEF v
    <3>3. Way(origin, Certs, f, v, x, v)
      BY <3>1, <3>2, WayIdle
    <3> QED BY <3>3, <2>3 DEF v
  <2>6. AheadOf(origin, Certs, e, d, y, g, x)
    BY <2>1, <2>4, <2>5, <1>1 DEF AheadOf, BackOf, ForthOf
  <2> QED BY <2>6 DEF Together
<1>7. CASE /\ e = "server" /\ d.state = "HANDSHAKE_OVER" /\ d.tin = c.tin
           /\ \E h : u = Turned(d.tin, <<h>>, None, None)
  <2>1. PICK h : u = Turned(d.tin, <<h>>, None, None)
    BY <1>7
  <2>2. Idling(y, d.tin) /\ Reading(f, g) /\ g.tout = d.tin /\ g.sum = <<h>>
    <3>1. PICK sum : sum = <<h>>
      OBVIOUS
    <3> QED BY <2>1, <3>1, <1>5
  <2>3. g.state \in WaitsOf(f) /\ f = "client"
    BY <2>2, <1>7 DEF BackOf, Other
  <2>4. Len(g.sum) = 1
    BY <2>2
  <2>5. g.state = "SERVER_HELLO"
    BY <2>3, <2>4 DEF WaitsOf, HelloSecond, Early
  <2>6. ~ Reading(e, d)
    BY <1>7 DEF Reading, TurnsOf, Other
  <2>7. RefusedOf(e, d, y, g, x)
    BY <2>2, <2>5, <2>6, <1>2, <1>3, <1>7 DEF RefusedOf, BackOf
  <2> QED BY <2>7 DEF Together
<1> QED BY <1>4, <1>6, <1>7 DEF Takes

\* The queues, and their first records.
LEMMA QueueIs ==
  ASSUME Typed, NEW e \in End
  PROVE  /\ Sequence(Queue(e))
         /\ net[e] # <<>> => Queue(e) # <<>>
         /\ net[e] # <<>> => Queue(e)[1] = Head(net[e])
<1>1. Sequence(net[e])
  BY DEF Typed, RecordsOK
<1>2. net[e] # <<>> => Head(net[e]) = net[e][1] /\ 1 \in 1..Len(net[e])
  BY <1>1, TailOfRecords
<1>3. CASE Queue(e) = net[e]
  BY <1>1, <1>2, <1>3
<1>4. CASE \E r : Queue(e) = Append(net[e], r)
  <2>1. PICK r : Queue(e) = Append(net[e], r)
    BY <1>4
  <2>2. /\ Sequence(Append(net[e], r)) /\ Len(net[e]) \in Nat
        /\ Len(Append(net[e], r)) = Len(net[e]) + 1
        /\ \A i \in 1..Len(net[e]) : Append(net[e], r)[i] = net[e][i]
    BY <1>1, AppendTo
  <2>3. Append(net[e], r) # <<>>
    <3>1. Len(Append(net[e], r)) # 0
      BY <2>2
    <3> QED BY <3>1, EmptySeq
  <2> QED BY <1>2, <2>1, <2>2, <2>3
<1> QED BY <1>3, <1>4 DEF Queue

\* A turn, and the queues.
LEMMA QueueMoves ==
  ASSUME Typed, NEW e \in End, NEW f, f = Other(e), NEW c, c = ctx[e], NEW d,
         d.out = c.out \/ (c.out = None /\ d.out # None), Took(e, d)
  PROVE  /\ Spoken(c, d, Queue(f), Queue(f)')
         /\ Becomes(e, d) => Queue(e)' = Queue(e)
         /\ net[e] # <<>> /\ Consumes(e, d) => Queue(e)' = Tail(Queue(e))
<1>1. f \in End /\ Other(f) = e /\ f # e
  BY OtherOther
<1>2. DOMAIN ctx = End /\ DOMAIN net = End /\ Sequence(net[e])
  BY DEF Typed, RecordsOK
<1>3. /\ ctx'[e] = d /\ ctx'[f] = ctx[f] /\ net'[f] = net[f]
      /\ Becomes(e, d) => net'[e] = net[e]
      /\ Consumes(e, d) => net'[e] = Tail(net[e])
  BY <1>1, <1>2 DEF Took, Becomes, Consumes
<1>4. /\ Queue(f) = (IF c.out = None THEN net[f] ELSE Append(net[f], c.out))
      /\ Queue(f)' = (IF d.out = None THEN net[f] ELSE Append(net[f], d.out))
  BY <1>1, <1>3 DEF Queue
<1>5. Spoken(c, d, Queue(f), Queue(f)')
  BY <1>4 DEF Spoken
<1>6. Becomes(e, d) => Queue(e)' = Queue(e)
  BY <1>1, <1>3 DEF Queue
<1>7. ASSUME net[e] # <<>>, Consumes(e, d)
      PROVE  Queue(e)' = Tail(Queue(e))
  <2>1. CASE ctx[f].out = None
    BY <1>1, <1>3, <1>7, <2>1 DEF Queue
  <2>2. CASE ctx[f].out # None
    <3>1. PICK r : r = ctx[f].out
      OBVIOUS
    <3>2. Queue(e) = Append(net[e], r) /\ Queue(e)' = Append(Tail(net[e]), r)
      BY <1>1, <1>3, <1>7, <2>2, <3>1 DEF Queue
    <3>3. Tail(Append(net[e], r)) = Append(Tail(net[e]), r)
      BY <1>2, <1>7 DEF Sequence
    <3> QED BY <3>2, <3>3
  <2> QED BY <2>1, <2>2
<1> QED BY <1>5, <1>6, <1>7

\* What the next record does to an end that has nothing but harmless ones to read.
LEMMA DueBack ==
  ASSUME Typed, NEW e \in End, NEW c, c = ctx[e], c.state \in Named, NEW q, q = Queue(e),
         BackOf(e, c, q)
  PROVE  HopDue(e, Sees(e, c))
<1> SUFFICES ASSUME net[e] # <<>>, ~ Writing(e, c)
             PROVE  Hop(origin, Certs, e, Sees(e, c), Head(net[e]), Sees(e, c))
  BY DEF HopDue
<1> DEFINE v == Sees(e, c)
<1>1. v.key = c.tin /\ ~ v.due
  BY BackSees DEF BackOf
<1>2. Sequence(q) /\ q # <<>> /\ q[1] = Head(net[e])
  BY QueueIs
<1>3. q[1].key = c.tin /\ Harmless(q[1].body)
  BY <1>2, IdlingTail DEF BackOf
<1> HIDE DEF v
<1>4. HarmlessHop(v, Head(net[e]), v)
  BY <1>1, <1>2, <1>3 DEF HarmlessHop
<1>5. Hop(origin, Certs, e, v, Head(net[e]), v)
  BY <1>4 DEF Hop
<1> QED BY <1>5 DEF v

\* Where the next record brings an end that is on its way to b.
Leads(e, q, u, b) == net[e] # <<>> => Way(origin, Certs, e, u, Tail(q), b)

\* What it does to one that follows.
LEMMA DueForth ==
  ASSUME Typed, NEW e \in End, NEW c, c = ctx[e], NEW q, q = Queue(e), NEW b,
         ForthOf(origin, Certs, e, c, q, b)
  PROVE  \E u : HopDue(e, u) /\ Leads(e, q, u, b)
<1>1. CASE net[e] = <<>>
  BY <1>1 DEF HopDue, Leads
<1>2. CASE net[e] # <<>>
  <2>1. Sequence(q) /\ q # <<>> /\ q[1] = Head(net[e])
    BY <1>2, QueueIs
  <2>2. PICK u : /\ Hop(origin, Certs, e, Sees(e, c), q[1], u)
                 /\ Way(origin, Certs, e, u, Tail(q), b)
    <3> DEFINE v == Sees(e, c)
    <3>1. Way(origin, Certs, e, v, q, b)
      BY DEF ForthOf
    <3> HIDE DEF v
    <3>2. \E u : Hop(origin, Certs, e, v, q[1], u) /\ Way(origin, Certs, e, u, Tail(q), b)
      BY <2>1, <3>1, WayTail
    <3> QED BY <3>2 DEF v
  <2>3. HopDue(e, u) /\ Leads(e, q, u, b)
    BY <2>1, <2>2 DEF HopDue, Leads
  <2> QED BY <2>3
<1> QED BY <1>1, <1>2

\* What a harmless record leaves.
LEMMA HarmlessRead ==
  ASSUME Typed, NEW e \in End, NEW c, c = ctx[e], NEW q, q = Queue(e), BackOf(e, c, q),
         NEW u, NEW d, Learns(e, c, u, d)
  PROVE  /\ c.state = "HANDSHAKE_OVER" /\ d.state = "HANDSHAKE_OVER" /\ d.out = c.out
         /\ d.tin = c.tin /\ d.tout = c.tout /\ Tells(e, d) = Tells(e, c)
         /\ BackOf(e, d, Tail(q)) /\ ~ Writing(e, d) /\ ~ Reading(e, d)
<1>1. Sequence(q) /\ q # <<>> /\ q[1] = Head(net[e])
  BY QueueIs DEF Learns
<1>2. Harmless(q[1].body) /\ Idling(Tail(q), c.tin)
  BY <1>1, IdlingTail DEF BackOf
<1>3. c.state = "HANDSHAKE_OVER" /\ Same(c, d, {"sum", "msg"})
  BY <1>1, <1>2 DEF Learns, Incoming
<1>4. /\ d.state = c.state /\ d.out = c.out /\ d.tin = c.tin /\ d.tout = c.tout /\ d.own = c.own
      /\ d.peer = c.peer
  BY <1>3 DEF Same, Fields
<1>5. Idle(e, c) /\ Idle(e, d) /\ ~ Unmet(c) /\ ~ Unmet(d)
  BY <1>3, <1>4 DEF Idle, Unmet, Waking
<1>6. Tells(e, d) = Tells(e, c) /\ ~ Writing(e, d) /\ ~ Reading(e, d)
  BY <1>4, <1>5, IdleOn
<1> QED BY <1>2, <1>3, <1>4, <1>6 DEF BackOf

\* Where the next record brings e, of two ends that are together.
Bound(e, c, q, g, p, u) ==
  \/ AheadOf(origin, Certs, Other(e), g, p, c, q) /\ Leads(e, q, u, Tells(Other(e), g))
  \/ /\ u = Sees(e, c)
     /\ AheadOf(origin, Certs, e, c, q, g, p) \/ RefusedOf(e, c, q, g, p)

\* It does.
LEMMA DueTogether ==
  ASSUME Typed, NEW e \in End, NEW c, c = ctx[e], c.state \in Named, NEW q, q = Queue(e),
         NEW g, NEW p, Together(origin, Certs, e, c, q, g, p)
  PROVE  \E u : HopDue(e, u) /\ Bound(e, c, q, g, p, u)
<1>1. CASE AheadOf(origin, Certs, Other(e), g, p, c, q)
  <2>1. PICK b : b = Tells(Other(e), g)
    OBVIOUS
  <2>2. ForthOf(origin, Certs, e, c, q, b)
    BY <1>1, <2>1, OtherOther DEF AheadOf
  <2>3. \E u : HopDue(e, u) /\ Leads(e, q, u, b)
    BY <2>2, DueForth
  <2> QED BY <1>1, <2>1, <2>3 DEF Bound
<1>2. CASE AheadOf(origin, Certs, e, c, q, g, p) \/ RefusedOf(e, c, q, g, p)
  <2>1. BackOf(e, c, q)
    BY <1>2 DEF AheadOf, RefusedOf
  <2>2. HopDue(e, Sees(e, c))
    BY <2>1, DueBack
  <2> QED BY <1>2, <2>2 DEF Bound
<1> QED BY <1>1, <1>2 DEF Together

\* What becomes of the queues in e's turn.
Left(e, d, q, y) ==
  /\ Becomes(e, d) => y = q
  /\ net[e] # <<>> /\ Consumes(e, d) => y = Tail(q)

\* The end that is ahead has its turn.
LEMMA AheadGoes ==
  ASSUME Typed, NEW e \in End, NEW c, c = ctx[e], NEW q, q = Queue(e),
         NEW g, NEW p, Sequence(p), AheadOf(origin, Certs, e, c, q, g, p),
         NEW u, NEW d, Goes(e, c, u, d), NEW x, Spoken(c, d, p, x), NEW y, Left(e, d, q, y)
  PROVE  AheadOf(origin, Certs, e, d, y, g, x)
<1>1. CASE Acts(e, c, d) \/ Rests(e, c, d)
  <2>1. Works(e, c, d) /\ y = q
    BY <1>1 DEF Acts, Rests, AheadOf, BackOf, Left
  <2> QED BY <2>1, WorksTogether
<1>2. CASE Learns(e, c, u, d)
  <2>1. BackOf(e, c, q)
    BY DEF AheadOf
  <2>2. /\ d.out = c.out /\ d.tin = c.tin /\ Tells(e, d) = Tells(e, c) /\ BackOf(e, d, Tail(q))
    BY <1>2, <2>1, HarmlessRead
  <2>3. x = p /\ y = Tail(q)
    BY <1>2, <2>2 DEF Spoken, Left, Learns
  <2> QED BY <2>2, <2>3 DEF AheadOf
<1> QED BY <1>1, <1>2 DEF Goes

\* The end that follows has.
LEMMA FollowerGoes ==
  ASSUME Typed, NEW e \in End, NEW f, f = Other(e), NEW c, c = ctx[e], NEW q, q = Queue(e),
         NEW g, g.state \in Named, HelloSecond(g), NEW p, Sequence(p), Peered(c, g),
         AheadOf(origin, Certs, f, g, p, c, q), NEW u, Leads(e, q, u, Tells(f, g)),
         NEW d, d.state \in Named, Goes(e, c, u, d), NEW x, Spoken(c, d, p, x),
         NEW y, Left(e, d, q, y)
  PROVE  Together(origin, Certs, e, d, y, g, x)
<1>1. /\ f \in End /\ Other(f) = e /\ BackOf(f, g, p) /\ g.tin = c.tout
      /\ ForthOf(origin, Certs, e, c, q, Tells(f, g))
  BY OtherOther DEF AheadOf
<1>2. Sequence(q) /\ (net[e] # <<>> => q # <<>>)
  BY QueueIs
<1>3. CASE Acts(e, c, d)
  <2>1. e = "client" /\ f = "server" /\ Idle("client", c) /\ y = q /\ Works(e, c, d)
    BY <1>1, <1>3 DEF ForthOf, Acts, Other, Left
  <2>2. AheadOf(origin, Certs, "client", c, q, g, p)
    BY <1>1, <1>2, <2>1, IdleSwap
  <2>3. AheadOf(origin, Certs, e, d, q, g, x)
    BY <2>1, <2>2, WorksTogether
  <2> QED BY <2>1, <2>3 DEF Together
<1>4. CASE Rests(e, c, d)
  <2>1. PICK v : v = Sees(e, c)
    OBVIOUS
  <2>2. Takes(e, c, v, d) /\ y = q /\ Way(origin, Certs, e, v, y, Tells(f, g))
    BY <1>1, <1>4, <2>1 DEF Rests, Left, ForthOf
  <2> QED BY <1>1, <1>2, <2>2, TakesTogether
<1>5. CASE Learns(e, c, u, d)
  <2>1. Takes(e, c, u, d) /\ y = Tail(q) /\ Way(origin, Certs, e, u, y, Tells(f, g))
    BY <1>5 DEF Learns, Left, Leads
  <2>2. Sequence(y)
    BY <1>2, <1>5, <2>1 DEF Learns, Sequence
  <2> QED BY <1>1, <2>1, <2>2, TakesTogether
<1> QED BY <1>3, <1>4, <1>5 DEF Goes

\* One that waits for an answer to a ClientHello that has been turned down, or has turned it down.
LEMMA RefusedGoes ==
  ASSUME Typed, NEW e \in End, NEW c, c = ctx[e], NEW q, q = Queue(e),
         NEW g, NEW p, Sequence(p), RefusedOf(e, c, q, g, p),
         NEW u, NEW d, Goes(e, c, u, d), NEW x, Spoken(c, d, p, x), NEW y, Left(e, d, q, y)
  PROVE  RefusedOf(e, d, y, g, x)
<1>1. /\ BackOf(e, c, q) /\ BackOf(Other(e), g, p) /\ c.tin = g.tout /\ g.tin = c.tout
  BY DEF RefusedOf
<1>2. CASE e = "client"
  <2>1. c.state = "SERVER_HELLO"
    BY <1>2 DEF RefusedOf
  <2>2. Reading(e, c)
    BY <1>2, <2>1 DEF Reading, TurnsOf, Other
  <2>3. ~ Acts(e, c, d) /\ ~ Rests(e, c, d)
    BY <2>1, <2>2, TurnsApart DEF Acts, Rests
  <2>4. ~ Learns(e, c, u, d)
    BY <1>1, <2>1, HarmlessRead
  <2> QED BY <2>3, <2>4 DEF Goes
<1>3. CASE e = "server"
  <2>1. g.state = "SERVER_HELLO" /\ c.state = "HANDSHAKE_OVER" /\ Idle(e, c) /\ ~ Writing(e, c)
    BY <1>3, TurnsApart DEF RefusedOf, Idle
  <2>2. ~ Acts(e, c, d)
    BY <1>3, <2>1 DEF Acts
  <2>3. CASE Rests(e, c, d)
    <3>1. d.state = "HANDSHAKE_OVER" /\ Takes(e, c, Sees(e, c), d) /\ Hushed(c, d) /\ y = q
      BY <2>1, <2>3 DEF Rests, Takes, Left
    <3>2. Idle(e, d) /\ ~ Writing(e, d) /\ ~ Reading(e, d)
      BY <3>1, TurnsApart DEF Idle
    <3>3. d.tin = c.tin
      <4>1. CASE Sees(e, d) = Sees(e, c)
        <5>1. PICK v : v = Sees(e, d)
          OBVIOUS
        <5>2. PICK i : i = IF Unmet(d) THEN <<>> ELSE <<d.peer>>
          OBVIOUS
        <5>3. PICK j : j = IF Unmet(c) THEN <<>> ELSE <<c.peer>>
          OBVIOUS
        <5>4. v = Calm(d.tin, i)
          BY <3>2, <5>1, <5>2, IdleViews
        <5>5. v = Calm(c.tin, j)
          BY <2>1, <4>1, <5>1, <5>3, IdleViews
        <5>6. v.key = d.tin
          BY <5>4, CalmIs
        <5>7. v.key = c.tin
          BY <5>5, CalmIs
        <5> QED BY <5>6, <5>7
      <4>2. CASE Sees(e, d) # Sees(e, c)
        BY <3>1, <3>2, <4>2 DEF Takes
      <4> QED BY <4>1, <4>2
    <3>4. d.tout = c.tout /\ Idling(x, c.tout)
      BY <1>1, <3>1, HushedIdling DEF Hushed, BackOf
    <3> QED BY <1>1, <1>3, <2>1, <3>1, <3>2, <3>3, <3>4 DEF RefusedOf, BackOf
  <2>4. CASE Learns(e, c, u, d)
    <3>1. /\ d.state = "HANDSHAKE_OVER" /\ d.out = c.out /\ d.tin = c.tin /\ d.tout = c.tout
          /\ BackOf(e, d, Tail(q))
      BY <1>1, <2>4, HarmlessRead
    <3>2. x = p /\ y = Tail(q)
      BY <2>4, <3>1 DEF Spoken, Left, Learns
    <3> QED BY <1>1, <1>3, <2>1, <3>1, <3>2 DEF RefusedOf
  <2> QED BY <2>2, <2>3, <2>4 DEF Goes
<1> QED BY <1>2, <1>3 DEF End

\* A turn of one of two ends that are together leaves them together.
LEMMA PairStep ==
  ASSUME Typed, NEW e \in End, NEW c, c = ctx[e], NEW q, q = Queue(e),
         NEW g, g.state \in Named, HelloSecond(g), NEW p, Sequence(p), Peered(c, g),
         NEW u, Bound(e, c, q, g, p, u), NEW d, d.state \in Named, Goes(e, c, u, d),
         NEW x, Spoken(c, d, p, x), NEW y, Left(e, d, q, y)
  PROVE  Together(origin, Certs, e, d, y, g, x)
<1>1. CASE AheadOf(origin, Certs, Other(e), g, p, c, q) /\ Leads(e, q, u, Tells(Other(e), g))
  BY <1>1, FollowerGoes
<1>2. CASE AheadOf(origin, Certs, e, c, q, g, p)
  BY <1>2, AheadGoes DEF Together
<1>3. CASE RefusedOf(e, c, q, g, p)
  BY <1>3, RefusedGoes DEF Together
<1> QED BY <1>1, <1>2, <1>3 DEF Bound

\* Where the next record brings e, whose peer is gone.
Steered(e, c, q, u) ==
  \/ BackOf(e, c, q) /\ u = Sees(e, c)
  \/ \E b : ForthOf(origin, Certs, e, c, q, b) /\ Leads(e, q, u, b)

\* It does.
LEMMA DueAlone ==
  ASSUME Typed, NEW e \in End, NEW c, c = ctx[e], c.state \in Named, NEW q, q = Queue(e),
         Alone(origin, Certs, e, c, q)
  PROVE  \E u : HopDue(e, u) /\ Steered(e, c, q, u)
<1>1. CASE BackOf(e, c, q)
  <2>1. HopDue(e, Sees(e, c))
    BY <1>1, DueBack
  <2> QED BY <1>1, <2>1 DEF Steered
<1>2. ASSUME NEW b, ForthOf(origin, Certs, e, c, q, b)
      PROVE  \E u : HopDue(e, u) /\ Steered(e, c, q, u)
  <2>1. \E u : HopDue(e, u) /\ Leads(e, q, u, b)
    BY <1>2, DueForth
  <2> QED BY <1>2, <2>1 DEF Steered
<1> QED BY <1>1, <1>2 DEF Alone

\* An end whose peer is gone reads on.
LEMMA TakesAlone ==
  ASSUME NEW e \in End, NEW c, NEW u, NEW y, Sequence(y), NEW b, Way(origin, Certs, e, u, y, b),
         NEW d, Takes(e, c, u, d)
  PROVE  Alone(origin, Certs, e, d, y)
<1>1. CASE ~ Writing(e, d) /\ Sees(e, d) = u
  BY <1>1 DEF Alone, ForthOf
<1>2. CASE (Writing(e, d) \/ d.state = "HANDSHAKE_OVER")
           /\ \E sum, dh, master : u = Turned(d.tin, sum, dh, master)
  <2>1. PICK sum, dh, master : u = Turned(d.tin, sum, dh, master)
    BY <1>2
  <2>2. u.mode = "done" /\ u.key = d.tin
    BY <2>1 DEF Turned, View
  <2>3. Idling(y, d.tin)
    BY <2>2, WayDone
  <2>4. ~ Reading(e, d)
    BY <1>2, TurnsApart DEF Reading, TurnsOf
  <2> QED BY <2>3, <2>4 DEF Alone, BackOf
<1> QED BY <1>1, <1>2 DEF Takes

\* It has its turn.
LEMMA AloneStep ==
  ASSUME Typed, NEW e \in End, NEW c, c = ctx[e], NEW q, q = Queue(e), NEW u, Steered(e, c, q, u),
         NEW d, Goes(e, c, u, d), NEW y, Left(e, d, q, y)
  PROVE  Alone(origin, Certs, e, d, y)
<1>1. Sequence(q) /\ (net[e] # <<>> => q # <<>>)
  BY QueueIs
<1>2. CASE BackOf(e, c, q)
  <2>1. CASE Acts(e, c, d) \/ Rests(e, c, d)
    <3>1. Works(e, c, d) /\ y = q
      BY <1>2, <2>1 DEF Acts, Rests, BackOf, Left
    <3>2. BackOf(e, d, y)
      BY <1>2, <3>1 DEF Works, BackOf
    <3> QED BY <3>2 DEF Alone
  <2>2. CASE Learns(e, c, u, d)
    <3>1. BackOf(e, d, Tail(q)) /\ y = Tail(q)
      BY <1>2, <2>2, HarmlessRead DEF Left, Learns
    <3> QED BY <3>1 DEF Alone
  <2> QED BY <2>1, <2>2 DEF Goes
<1>3. ASSUME NEW b, ForthOf(origin, Certs, e, c, q, b), Leads(e, q, u, b)
      PROVE  Alone(origin, Certs, e, d, y)
  <2>1. PICK v : v = Sees(e, c)
    OBVIOUS
  <2>2. ~ Writing(e, c) /\ Way(origin, Certs, e, v, q, b)
    BY <1>3, <2>1 DEF ForthOf
  <2>3. CASE Acts(e, c, d)
    <3>1. e = "client" /\ Idle(e, c) /\ y = q /\ Works(e, c, d)
      BY <2>2, <2>3 DEF Acts, Left
    <3>2. v.mode = "calm" /\ v.key = c.tin
      BY <2>1, <3>1, IdleViews DEF Calm, View
    <3>3. Idling(q, c.tin)
      BY <1>1, <2>2, <3>1, <3>2, WayCalm
    <3>4. BackOf(e, d, y)
      BY <3>1, <3>3 DEF Works, BackOf
    <3> QED BY <3>4 DEF Alone
  <2>4. CASE Rests(e, c, d)
    <3>1. Takes(e, c, v, d) /\ y = q
      BY <2>1, <2>4 DEF Rests, Left
    <3> QED BY <1>1, <2>2, <3>1, TakesAlone
  <2>5. CASE Learns(e, c, u, d)
    <3>1. Takes(e, c, u, d) /\ y = Tail(q) /\ Way(origin, Certs, e, u, y, b)
      BY <1>3, <2>5 DEF Learns, Left, Leads
    <3>2. Sequence(y)
      BY <1>1, <2>5, <3>1 DEF Learns, Sequence
    <3> QED BY <3>1, <3>2, TakesAlone
  <2> QED BY <2>3, <2>4, <2>5 DEF Goes
<1> QED BY <1>2, <1>3 DEF Steered

\* What an end tells is told under its key.
LEMMA TellsKey ==
  ASSUME NEW e \in End, NEW c, c.state \in Named
  PROVE  Tells(e, c).key = c.tout
<1>1. CASE c.state \in TurnsOf(e)
  BY <1>1, WriterFields
<1>2. CASE Called(e, c)
  BY <1>2, CalledTells DEF View
<1>3. CASE Reading(e, c)
  BY <1>3, ReaderViews DEF Turned, View
<1>4. CASE Idle(e, c)
  <2>1. PICK i : i = IF Unmet(c) THEN <<>> ELSE <<c.own>>
    OBVIOUS
  <2>2. Tells(e, c) = Calm(c.tout, i)
    BY <1>4, <2>1, IdleViews
  <2> QED BY <2>2, CalmIs
<1> QED BY <1>1, <1>2, <1>3, <1>4, TurnsApart

\* One of two ends that are together leaves, and its alert may be the last record.
LEMMA LeftAlone ==
  ASSUME NEW e \in End, NEW f, f = Other(e), NEW c, c.state \in Named, NEW q, NEW g, NEW p,
         Sequence(p), Together(origin, Certs, e, c, q, g, p), NEW d, Dies(e, c, d),
         NEW x, Spoken(c, d, p, x)
  PROVE  Alone(origin, Certs, f, g, x)
<1>1. /\ f \in End /\ Other(f) = e
  BY OtherOther
<1>2. \/ x = p
      \/ /\ x = Append(p, d.out) /\ ~ Tells(e, c).due
         /\ d.out.key = c.tout /\ Harmless(d.out.body)
  BY DEF Dies, Spoken, Harmless
<1>3. CASE AheadOf(origin, Certs, e, c, q, g, p)
  <2>1. PICK b : b = Tells(e, c)
    OBVIOUS
  <2>2. PICK v : v = Sees(f, g)
    OBVIOUS
  <2>3. ~ Writing(f, g) /\ Way(origin, Certs, f, v, p, b)
    BY <1>3, <2>1, <2>2 DEF AheadOf, ForthOf
  <2>4. Way(origin, Certs, f, v, x, b)
    <3>1. CASE x = p
      BY <2>3, <3>1
    <3>2. CASE /\ x = Append(p, d.out) /\ ~ Tells(e, c).due
               /\ d.out.key = c.tout /\ Harmless(d.out.body)
      <4>1. PICK r : r = d.out
        OBVIOUS
      <4>2. r.key = b.key /\ ~ b.due /\ Harmless(r.body)
        BY <2>1, <3>2, <4>1, TellsKey
      <4>3. Hop(origin, Certs, f, b, r, b)
        BY <4>2 DEF Hop, HarmlessHop
      <4>4. x = Append(p, r)
        BY <3>2, <4>1
      <4> QED BY <1>1, <2>3, <4>3, <4>4, WayAppend
    <3> QED BY <1>2, <3>1, <3>2
  <2> QED BY <2>2, <2>3, <2>4 DEF Alone, ForthOf
<1>4. CASE AheadOf(origin, Certs, Other(e), g, p, c, q) \/ RefusedOf(e, c, q, g, p)
  <2>1. BackOf(f, g, p) /\ g.tin = c.tout
    BY <1>4 DEF AheadOf, RefusedOf
  <2>2. Idling(x, g.tin)
    <3>1. Idling(p, g.tin)
      BY <2>1 DEF BackOf
    <3>2. PICK r : r = d.out
      OBVIOUS
    <3> QED BY <1>2, <2>1, <3>1, <3>2, IdlingAppend
  <2> QED BY <2>1, <2>2 DEF BackOf, Alone
<1> QED BY <1>3, <1>4 DEF Together

\* What has been negotiated stays so.
LEMMA TogetherLater ==
  ASSUME NEW known, NEW more, known \subseteq more, NEW cert, NEW e, NEW c, NEW q, NEW g, NEW p,
         Together(known, cert, e, c, q, g, p)
  PROVE  Together(more, cert, e, c, q, g, p)
<1>1. ASSUME NEW f, NEW d, NEW w, NEW b, ForthOf(known, cert, f, d, w, b)
      PROVE  ForthOf(more, cert, f, d, w, b)
  <2>1. PICK a : a = Sees(f, d)
    OBVIOUS
  <2>2. Way(known, cert, f, a, w, b)
    BY <1>1, <2>1 DEF ForthOf
  <2>3. Way(more, cert, f, a, w, b)
    BY <2>2, WayLater
  <2> QED BY <1>1, <2>1, <2>3 DEF ForthOf
<1> QED BY <1>1 DEF Together, AheadOf

\* And so it does for one that is alone.
LEMMA AloneLater ==
  ASSUME NEW known, NEW more, known \subseteq more, NEW cert, NEW e, NEW c, NEW q,
         Alone(known, cert, e, c, q)
  PROVE  Alone(more, cert, e, c, q)
<1>1. ASSUME NEW b, ForthOf(known, cert, e, c, q, b)
      PROVE  ForthOf(more, cert, e, c, q, b)
  <2>1. PICK a : a = Sees(e, c)
    OBVIOUS
  <2>2. Way(known, cert, e, a, q, b)
    BY <1>1, <2>1 DEF ForthOf
  <2>3. Way(more, cert, e, a, q, b)
    BY <2>2, WayLater
  <2> QED BY <1>1, <2>1, <2>3 DEF ForthOf
<1> QED BY <1>1 DEF Alone

-----------------------------------------------------------------------------
(* The invariant                                                             *)

Alive(e) == ctx[e].end = "no"

\* Two ends that are alive are together, and one that is left is where it can read on.
Joined(e) ==
  IF Alive(Other(e))
  THEN Together(origin, Certs, e, ctx[e], Queue(e), ctx[Other(e)], Queue(Other(e)))
  ELSE Alone(origin, Certs, e, ctx[e], Queue(e))
Lives(e) == Alive(e) => Touch(e, ctx[e]) /\ Joined(e)
StepInv ==
  /\ AgreeInv /\ PeerInv /\ Identified /\ NeverOutOfStep
  /\ \A e \in End : Lives(e)

\* An end that reads under the other's key has its verify data.
LEMMA PeeredIs ==
  ASSUME AgreeInv, NEW e \in End, NEW f, f = Other(e), NEW c, c = ctx[e], Blank(c),
         NEW g, g = ctx[f], Blank(g), Alive(f)
  PROVE  Peered(c, g)
<1>1. Linked(c, g, net[f])
  BY DEF AgreeInv
<1> QED BY <1>1 DEF Linked, Blank, Peered, Alive

\* What is known of an end that has its turn.
LEMMA LivesPoised ==
  ASSUME NullIsNull, StepInv, Typed', NEW e \in End, NEW c, c = ctx[e], Alive(e)
  PROVE  /\ Poised(e, c) /\ Typed /\ c.state \in Named /\ HelloSecond(c) /\ Sequence(Queue(e))
         /\ Joined(e) /\ Touch(e, c) /\ Blank(c)
<1>1. Touch(e, c) /\ Joined(e) /\ AgreeInv /\ PeerInv /\ Identified /\ Typed
  BY DEF StepInv, Lives, AgreeInv
<1>2. c.state \in Named /\ HelloSecond(c)
  BY <1>1, HellosIn DEF Alive
<1>3. Sequence(Queue(e))
  BY <1>1, QueueIs
<1> QED BY <1>1, <1>2, <1>3 DEF Poised, Touch

\* The record that is due, for one of two ends or for one that is left.
Due(e, c, q, g, p, u) == IF Alive(Other(e)) THEN Bound(e, c, q, g, p, u) ELSE Steered(e, c, q, u)

\* There is one.
LEMMA DueIs ==
  ASSUME Typed, NEW e \in End, NEW f, f = Other(e), NEW c, c = ctx[e], c.state \in Named,
         NEW q, q = Queue(e), NEW g, g = ctx[f], NEW p, p = Queue(f), Joined(e)
  PROVE  \E u : HopDue(e, u) /\ Due(e, c, q, g, p, u)
<1>1. CASE Alive(f)
  <2>1. Together(origin, Certs, e, c, q, g, p)
    BY <1>1 DEF Joined
  <2>2. \E u : HopDue(e, u) /\ Bound(e, c, q, g, p, u)
    BY <2>1, DueTogether
  <2> QED BY <1>1, <2>2 DEF Due
<1>2. CASE ~ Alive(f)
  <2>1. Alone(origin, Certs, e, c, q)
    BY <1>2 DEF Joined
  <2>2. \E u : HopDue(e, u) /\ Steered(e, c, q, u)
    BY <2>1, DueAlone
  <2> QED BY <1>2, <2>2 DEF Due
<1> QED BY <1>1, <1>2

\* What a turn that fares so leaves in the queues.
LEMMA FaresQueues ==
  ASSUME NullIsNull, Typed, NEW e \in End, NEW f, f = Other(e), NEW c, c = ctx[e],
         NEW u, NEW d, Fares(e, c, u, d)
  PROVE  /\ Took(e, d) /\ Spoken(c, d, Queue(f), Queue(f)') /\ Left(e, d, Queue(e), Queue(e)')
         /\ ctx'[e] = d /\ ctx'[f] = ctx[f]
<1>1. Took(e, d)
  BY DEF Fares, Dies, Goes, Acts, Rests, Learns, Took
<1>2. d.out = c.out \/ (c.out = None /\ d.out # None)
  BY DEF Fares, Dies, Goes, Acts, Rests, Learns, Works, Takes, Hushed, NullIsNull
<1>3. /\ Spoken(c, d, Queue(f), Queue(f)')
      /\ Becomes(e, d) => Queue(e)' = Queue(e)
      /\ net[e] # <<>> /\ Consumes(e, d) => Queue(e)' = Tail(Queue(e))
  BY <1>1, <1>2, QueueMoves
<1>4. ctx'[e] = d /\ ctx'[f] = ctx[f]
  BY <1>1, OtherOther DEF Took, Becomes, Consumes, Typed
<1> QED BY <1>1, <1>3, <1>4 DEF Left

-----------------------------------------------------------------------------
(* The steps                                                                 *)

\* The server's Finished is what adds to the sessions that have been negotiated.
LEMMA OriginMoves ==
  ASSUME Typed, NEW e \in End, Takeover(e), NEW c, c = ctx[e]
  PROVE  \/ origin' = origin
         \/ /\ e = "server" /\ c.state = "SERVER_FINISHED" /\ ~ c.resume
            /\ origin' = origin \cup {c.neg}
<1>1. CASE ~ WriteFinished(e)
  BY <1>1, TurnSides
<1>2. CASE WriteFinished(e)
  <2>1. origin' = IF e = "server" /\ ~c.resume THEN origin \cup {c.neg} ELSE origin
    BY <1>2, FinishedWritten
  <2>2. c.state = FinishedState(e)
    BY <1>2 DEF WriteFinished, At
  <2> QED BY <2>1, <2>2 DEF FinishedState
<1> QED BY <1>1, <1>2

\* A session the server negotiates has an id of its own.
LEMMA IdentifiedOn ==
  ASSUME NullIsNull, StepInv, Typed', NEW e \in End, Takeover(e)
  PROVE  Identified'
<1>1. Typed /\ nonce \in Nat /\ nonce' \in Nat /\ nonce <= nonce' /\ Identified
  BY TurnNumbers DEF StepInv, AgreeInv, Typed
<1>2. PICK c : c = ctx[e]
  OBVIOUS
<1>3. CASE origin' = origin
  BY <1>1, <1>3 DEF Identified
<1>4. CASE /\ e = "server" /\ c.state = "SERVER_FINISHED" /\ ~ c.resume
           /\ origin' = origin \cup {c.neg}
  <2>1. Touch(e, c)
    BY <1>2, TurnAlive, LivesPoised DEF Alive
  <2>2. c.neg.id \in Nat /\ c.neg.id < nonce /\ c.neg.id \notin IdsOf(origin)
    BY <1>4, <2>1 DEF Touch, Matching, Turns, TurnsOf
  <2>3. \A o \in origin : o.id # c.neg.id
    BY <2>2 DEF IdsOf
  <2>4. \A o \in origin' : o.id \in Nat /\ o.id < nonce'
    BY <1>1, <1>4, <2>2 DEF Identified
  <2>5. \A o, p \in origin' : o.id = p.id => o.suite = p.suite /\ o.master = p.master
    BY <1>1, <1>4, <2>3 DEF Identified
  <2> QED BY <2>4, <2>5 DEF Identified
<1> QED BY <1>1, <1>2, <1>3, <1>4, OriginMoves

\* The other end stays what it is.
LEMMA OtherTouch ==
  ASSUME NullIsNull, StepInv, Typed', NEW e \in End, Takeover(e), NEW f, f = Other(e),
         NEW g, g = ctx[f], Alive(f)
  PROVE  Touch(f, g)'
<1>1. /\ Typed /\ nonce \in Nat /\ nonce' \in Nat /\ nonce <= nonce' /\ UNCHANGED <<conf, who>>
      /\ f \in End
  BY TurnNumbers, OtherOther DEF StepInv, AgreeInv, Typed
<1>2. Touch(f, g)
  BY <1>1, LivesPoised
<1>3. origin \subseteq origin' /\ (f = "client" \/ origin' = origin)
  BY <1>1, OriginMoves DEF Other
<1> QED BY <1>1, <1>2, <1>3, TouchLater

\* What the settings give.
LEMMA CertsStay ==
  ASSUME UNCHANGED <<conf, who>>
  PROVE  Certs' = Certs
BY DEF Certs, Own

\* A turn of one of the two ends, whether it goes on or leaves.
LEMMA TakeoverFares ==
  ASSUME NullIsNull, StepInv, Typed', NEW e \in End, Takeover(e), NEW f, f = Other(e),
         NEW c, c = ctx[e], NEW g, g = ctx[f], NEW q, q = Queue(e), NEW p, p = Queue(f)
  PROVE  \E d : /\ ctx'[e] = d /\ ctx'[f] = g
                /\ \/ Dies(e, c, d) /\ (Alive(f) => Alone(origin, Certs, f, g, Queue(f)'))
                   \/ /\ d.end = "no" /\ Touch(e, d)'
                      /\ IF Alive(f) THEN Together(origin, Certs, e, d, Queue(e)', g, Queue(f)')
                         ELSE Alone(origin, Certs, e, d, Queue(e)')
<1>1. Alive(e) /\ f \in End /\ Other(f) = e
  BY TurnAlive, OtherOther DEF Alive
<1>2. /\ Poised(e, c) /\ Typed /\ c.state \in Named /\ Joined(e) /\ Blank(c)
      /\ Sequence(q) /\ AgreeInv
  BY <1>1, LivesPoised DEF StepInv
<1>3. PICK u : HopDue(e, u) /\ Due(e, c, q, g, p, u)
  BY <1>2, DueIs
<1>4. PICK d : Fares(e, c, u, d)
  BY <1>2, <1>3, TurnFares
<1>5. PICK x : x = Queue(f)'
  OBVIOUS
<1>6. PICK y : y = Queue(e)'
  OBVIOUS
<1>7. /\ Spoken(c, d, p, x) /\ Left(e, d, q, y) /\ ctx'[e] = d /\ ctx'[f] = g
  BY <1>2, <1>4, <1>5, <1>6, FaresQueues
<1>8. Sequence(p) /\ d.state \in Named
  BY <1>1, <1>2, <1>7, QueueIs DEF Typed, ContextOK
<1>9. CASE Dies(e, c, d)
  <2>1. ASSUME Alive(f)
        PROVE  Alone(origin, Certs, f, g, x)
    <3>1. Together(origin, Certs, e, c, q, g, p)
      BY <1>2, <2>1 DEF Joined
    <3> QED BY <1>2, <1>7, <1>8, <1>9, <3>1, LeftAlone
  <2> QED BY <1>5, <1>7, <1>9, <2>1
<1>10. CASE d.end = "no" /\ Touch(e, d)' /\ Goes(e, c, u, d)
  <2>1. CASE Alive(f)
    <3>1. g.state \in Named /\ HelloSecond(g) /\ Blank(g)
      BY <1>1, <2>1, LivesPoised
    <3>2. Peered(c, g)
      BY <1>2, <2>1, <3>1, PeeredIs
    <3>3. Bound(e, c, q, g, p, u)
      BY <1>3, <2>1 DEF Due
    <3>4. Together(origin, Certs, e, d, y, g, x)
      BY <1>2, <1>7, <1>8, <1>10, <3>1, <3>2, <3>3, PairStep
    <3> QED BY <1>5, <1>6, <1>7, <1>10, <2>1, <3>4
  <2>2. CASE ~ Alive(f)
    <3>1. Steered(e, c, q, u)
      BY <1>3, <2>2 DEF Due
    <3>2. Alone(origin, Certs, e, d, y)
      BY <1>2, <1>7, <1>10, <3>1, AloneStep
    <3> QED BY <1>6, <1>7, <1>10, <2>2, <3>2
  <2> QED BY <2>1, <2>2
<1> QED BY <1>4, <1>9, <1>10 DEF Fares

\* A turn leaves both ends in step.
LEMMA TakeoverStep ==
  ASSUME NullIsNull, StepInv, Typed', NEW e \in End, Takeover(e)
  PROVE  NeverOutOfStep' /\ \A h \in End : Lives(h)'
<1>1. PICK f : f = Other(e)
  OBVIOUS
<1>2. PICK c : c = ctx[e]
  OBVIOUS
<1>3. PICK g : g = ctx[f]
  OBVIOUS
<1>4. PICK x : x = Queue(f)'
  OBVIOUS
<1>5. PICK y : y = Queue(e)'
  OBVIOUS
<1>6. PICK d :
        /\ ctx'[e] = d /\ ctx'[f] = g
        /\ \/ Dies(e, c, d) /\ (Alive(f) => Alone(origin, Certs, f, g, x))
           \/ /\ d.end = "no" /\ Touch(e, d)'
              /\ IF Alive(f) THEN Together(origin, Certs, e, d, y, g, x)
                 ELSE Alone(origin, Certs, e, d, y)
  BY <1>1, <1>2, <1>3, <1>4, <1>5, TakeoverFares
<1>7. f \in End /\ Other(f) = e /\ End = {e, f}
  BY <1>1, OtherOther DEF End, Other
<1>8. Typed /\ Certs' = Certs /\ origin \subseteq origin'
  BY <1>2, TurnNumbers, OriginMoves, CertsStay DEF StepInv, AgreeInv
<1>9. NeverOutOfStep'
  <2>1. d.end \notin {"mac", "signature", "finished", "renegotiation"}
    BY <1>6 DEF Dies
  <2>2. g.end \notin {"mac", "signature", "finished", "renegotiation"}
    BY <1>3, <1>7 DEF StepInv, NeverOutOfStep
  <2> QED BY <1>6, <1>7, <2>1, <2>2 DEF NeverOutOfStep
<1>10. PICK more : more = origin'
  OBVIOUS
<1>11. PICK cert : cert = Certs'
  OBVIOUS
<1>12. Alive(f)' <=> Alive(f)
  BY <1>3, <1>6 DEF Alive
<1>13. Alive(e)' <=> d.end = "no"
  BY <1>6 DEF Alive
<1>14. Alive(f) => Touch(f, g)'
  BY <1>1, <1>3, OtherTouch
<1>15. Lives(f)'
  <2>1. CASE Alive(f) /\ d.end # "no"
    <3>1. Alone(origin, Certs, f, g, x)
      BY <1>6, <2>1
    <3>2. Alone(more, cert, f, g, x)
      BY <1>8, <1>10, <1>11, <3>1, AloneLater
    <3>3. Joined(f)'
      BY <1>4, <1>6, <1>7, <1>10, <1>11, <1>13, <2>1, <3>2 DEF Joined
    <3> QED BY <1>6, <1>14, <2>1, <3>3 DEF Lives
  <2>2. CASE Alive(f) /\ d.end = "no"
    <3>1. Together(origin, Certs, e, d, y, g, x)
      BY <1>6, <2>2 DEF Dies
    <3>2. Together(more, cert, e, d, y, g, x)
      BY <1>8, <1>10, <1>11, <3>1, TogetherLater
    <3>3. Together(more, cert, f, g, x, d, y)
      BY <1>1, <3>2, TogetherTurned
    <3>4. Joined(f)'
      BY <1>4, <1>5, <1>6, <1>7, <1>10, <1>11, <1>13, <2>2, <3>3 DEF Joined
    <3> QED BY <1>6, <1>14, <2>2, <3>4 DEF Lives
  <2> QED BY <1>12, <2>1, <2>2 DEF Lives
<1>16. Lives(e)'
  <2>1. CASE Alive(f) /\ d.end = "no"
    <3>1. Together(origin, Certs, e, d, y, g, x) /\ Touch(e, d)'
      BY <1>6, <2>1 DEF Dies
    <3>2. Together(more, cert, e, d, y, g, x)
      BY <1>8, <1>10, <1>11, <3>1, TogetherLater
    <3>3. Joined(e)'
      BY <1>1, <1>4, <1>5, <1>6, <1>10, <1>11, <1>12, <2>1, <3>2 DEF Joined
    <3> QED BY <1>6, <3>1, <3>3 DEF Lives
  <2>2. CASE ~ Alive(f) /\ d.end = "no"
    <3>1. Alone(origin, Certs, e, d, y) /\ Touch(e, d)'
      BY <1>6, <2>2 DEF Dies
    <3>2. Alone(more, cert, e, d, y)
      BY <1>8, <1>10, <1>11, <3>1, AloneLater
    <3>3. Joined(e)'
      BY <1>1, <1>5, <1>6, <1>10, <1>11, <1>12, <2>2, <3>2 DEF Joined
    <3> QED BY <1>6, <3>1, <3>3 DEF Lives
  <2> QED BY <1>13, <2>1, <2>2 DEF Lives
<1> QED BY <1>7, <1>9, <1>15, <1>16

\* What an end sees and tells does not depend on what it has yet to flush.
LEMMA OutApart ==
  ASSUME NEW e \in End, NEW c, NEW d, Same(c, d, {"out"})
  PROVE  /\ Sees(e, d) = Sees(e, c) /\ Tells(e, d) = Tells(e, c)
         /\ Writing(e, d) <=> Writing(e, c)
         /\ Reading(e, d) <=> Reading(e, c)
         /\ d.state = c.state /\ d.tin = c.tin /\ d.tout = c.tout /\ d.end = c.end
<1>1. /\ d.state = c.state /\ d.tin = c.tin /\ d.tout = c.tout /\ d.end = c.end /\ d.msg = c.msg
      /\ d.sum = c.sum /\ d.dh = c.dh /\ d.neg = c.neg /\ d.peer = c.peer /\ d.own = c.own
      /\ d.reneg = c.reneg
  BY DEF Same, Fields
<1>2. /\ Called(e, d) <=> Called(e, c)
      /\ Unmet(d) <=> Unmet(c)
      /\ Writing(e, d) <=> Writing(e, c)
      /\ Reading(e, d) <=> Reading(e, c)
  BY <1>1 DEF Called, Unmet, Waking, Writing, Reading
<1>3. Idle(e, d) <=> Idle(e, c)
  BY <1>1, <1>2 DEF Idle, Waking
<1>4. SumOf(e, d) = SumOf(e, c) /\ MasterOf(d) = MasterOf(c)
  BY <1>1, <1>2 DEF SumOf, MasterOf
<1>5. \A key, due, data : Look(e, d, key, due, data) = Look(e, c, key, due, data)
  BY <1>1, <1>2, <1>3, <1>4 DEF Look
<1>6. Sees(e, d) = Sees(e, c)
  BY <1>1, <1>4, <1>5 DEF Sees
<1>7. Tells(e, d) = Tells(e, c)
  BY <1>1, <1>2, <1>4, <1>5 DEF Tells
<1> QED BY <1>1, <1>2, <1>6, <1>7

\* Nor does where the two ends are.
LEMMA OutTogether ==
  ASSUME NEW known, NEW cert, NEW e \in End, NEW c, NEW d, Same(c, d, {"out"}), NEW q, NEW g, NEW p
  PROVE  /\ Together(known, cert, e, c, q, g, p) => Together(known, cert, e, d, q, g, p)
         /\ Alone(known, cert, e, c, q) => Alone(known, cert, e, d, q)
<1>1. /\ Sees(e, d) = Sees(e, c) /\ Tells(e, d) = Tells(e, c)
      /\ Writing(e, d) <=> Writing(e, c)
      /\ Reading(e, d) <=> Reading(e, c)
      /\ d.state = c.state /\ d.tin = c.tin /\ d.tout = c.tout
  BY OutApart
<1>2. BackOf(e, c, q) => BackOf(e, d, q)
  BY <1>1 DEF BackOf
<1>3. \A b : ForthOf(known, cert, e, c, q, b) => ForthOf(known, cert, e, d, q, b)
  BY <1>1 DEF ForthOf
<1>4. AheadOf(known, cert, e, c, q, g, p) => AheadOf(known, cert, e, d, q, g, p)
  BY <1>1, <1>2 DEF AheadOf
<1>5. AheadOf(known, cert, Other(e), g, p, c, q) => AheadOf(known, cert, Other(e), g, p, d, q)
  BY <1>1, <1>3, OtherOther DEF AheadOf
<1>6. RefusedOf(e, c, q, g, p) => RefusedOf(e, d, q, g, p)
  BY <1>1, <1>2 DEF RefusedOf
<1> QED BY <1>2, <1>3, <1>4, <1>5, <1>6 DEF Together, Alone

\* Nor does what it knows.
LEMMA OutTouch ==
  ASSUME NEW e \in End, NEW c, NEW d, Same(c, d, {"out"}), Touch(e, c)
  PROVE  Touch(e, d)
<1>1. /\ d.state = c.state /\ d.tin = c.tin /\ d.tout = c.tout /\ d.msg = c.msg
      /\ d.sum = c.sum /\ d.dh = c.dh /\ d.neg = c.neg /\ d.peer = c.peer /\ d.own = c.own
      /\ d.reneg = c.reneg /\ d.resume = c.resume /\ d.max = c.max /\ d.minor = c.minor
      /\ d.tneg = c.tneg /\ d.rc = c.rc /\ d.rs = c.rs
  BY DEF Same, Fields
<1>2. Ready(e, d)
  BY <1>1 DEF Touch, Ready, Waking, Called
<1>3. Greets(e, d)
  BY <1>1 DEF Touch, Greets
<1>4. Matching(e, d)
  BY <1>1 DEF Touch, Matching, KeysMatch, PeerMatches, HalfMatches
<1> QED BY <1>1, <1>2, <1>3, <1>4 DEF Touch, Blank

\* Settings, numbers and sessions stay as they are.
LEMMA TouchStays ==
  ASSUME NEW e, NEW d, Touch(e, d), UNCHANGED <<conf, who, nonce, origin>>
  PROVE  Touch(e, d)'
<1>1. Own("client")' = Own("client") /\ Own("server")' = Own("server")
  BY DEF Own
<1>2. Ready(e, d)' /\ Greets(e, d)'
  BY DEF Touch, Ready, Greets, Negotiated, IdsOf
<1>3. Matching(e, d)'
  BY <1>1 DEF Touch, Matching, PeerMatches, IdsOf
<1> QED BY <1>2, <1>3 DEF Touch

\* ssl_flush_output: the record is on its way as before.
LEMMA FlushedLives ==
  ASSUME StepInv, NEW e \in End, Flush(e)
  PROVE  Identified' /\ NeverOutOfStep' /\ \A h \in End : Lives(h)'
<1>1. PICK f : f = Other(e)
  OBVIOUS
<1>2. PICK c : c = ctx[e]
  OBVIOUS
<1>3. PICK g : g = ctx[f]
  OBVIOUS
<1>4. Typed
  BY DEF StepInv, AgreeInv
<1>5. PICK d : Flushes(e, c, d)
  BY <1>2, <1>4, FlushIs
<1>6. f \in End /\ Other(f) = e /\ f # e /\ End = {e, f}
  BY <1>1, OtherOther DEF End, Other
<1>7. /\ ctx'[e] = d /\ ctx'[f] = g /\ net'[e] = net[e] /\ net'[f] = Append(net[f], c.out)
      /\ c.out # None /\ d.out = None /\ Same(c, d, {"out"})
      /\ UNCHANGED <<conf, who, nonce, origin>>
  BY <1>1, <1>3, <1>4, <1>5, <1>6 DEF Flushes, Typed, Around
<1>8. Queue(e)' = Queue(e) /\ Queue(f)' = Queue(f)
  BY <1>1, <1>2, <1>3, <1>6, <1>7 DEF Queue
<1>9. Certs' = Certs
  BY <1>7, CertsStay
<1>10. d.end = c.end
  BY <1>7, OutApart
<1>11. /\ Alive(e)' <=> Alive(e)
       /\ Alive(f)' <=> Alive(f)
  BY <1>2, <1>3, <1>7, <1>10 DEF Alive
<1>12. Identified'
  BY <1>7 DEF StepInv, Identified
<1>13. NeverOutOfStep'
  BY <1>2, <1>3, <1>6, <1>7, <1>10 DEF StepInv, NeverOutOfStep
<1>14. PICK q : q = Queue(e)
  OBVIOUS
<1>15. PICK p : p = Queue(f)
  OBVIOUS
<1>16. PICK cert : cert = Certs
  OBVIOUS
<1>17. ASSUME Alive(e)
       PROVE  Touch(e, d)' /\ Joined(e)'
  <2>1. Touch(e, c) /\ Joined(e)
    BY <1>2, <1>17 DEF StepInv, Lives
  <2>2. Touch(e, d)'
    BY <1>7, <2>1, OutTouch, TouchStays
  <2>3. CASE Alive(f)
    <3>1. Together(origin, cert, e, c, q, g, p)
      BY <1>1, <1>2, <1>3, <1>14, <1>15, <1>16, <2>1, <2>3 DEF Joined
    <3>2. Together(origin, cert, e, d, q, g, p)
      BY <1>7, <3>1, OutTogether
    <3> QED BY <1>1, <1>7, <1>8, <1>9, <1>11, <1>14, <1>15, <1>16, <2>2, <2>3, <3>2 DEF Joined
  <2>4. CASE ~ Alive(f)
    <3>1. Alone(origin, cert, e, c, q)
      BY <1>1, <1>2, <1>14, <1>16, <2>1, <2>4 DEF Joined
    <3>2. Alone(origin, cert, e, d, q)
      BY <1>7, <3>1, OutTogether
    <3> QED BY <1>1, <1>7, <1>8, <1>9, <1>11, <1>14, <1>16, <2>2, <2>4, <3>2 DEF Joined
  <2> QED BY <2>3, <2>4
<1>18. ASSUME Alive(f)
       PROVE  Touch(f, g)' /\ Joined(f)'
  <2>1. Touch(f, g) /\ Joined(f)
    BY <1>3, <1>6, <1>18 DEF StepInv, Lives
  <2>2. Touch(f, g)'
    BY <1>7, <2>1, TouchStays
  <2>3. CASE Alive(e)
    <3>1. Together(origin, cert, f, g, p, c, q)
      BY <1>2, <1>3, <1>6, <1>14, <1>15, <1>16, <2>1, <2>3 DEF Joined
    <3>2. Together(origin, cert, e, c, q, g, p)
      BY <1>6, <3>1, TogetherTurned
    <3>3. Together(origin, cert, e, d, q, g, p)
      BY <1>7, <3>2, OutTogether
    <3>4. Together(origin, cert, f, g, p, d, q)
      BY <1>1, <3>3, TogetherTurned
    <3> QED BY <1>6, <1>7, <1>8, <1>9, <1>11, <1>14, <1>15, <1>16, <2>2, <2>3, <3>4 DEF Joined
  <2>4. CASE ~ Alive(e)
    <3>1. Alone(origin, cert, f, g, p)
      BY <1>3, <1>6, <1>15, <1>16, <2>1, <2>4 DEF Joined
    <3> QED BY <1>6, <1>7, <1>8, <1>9, <1>11, <1>15, <1>16, <2>2, <2>4, <3>1 DEF Joined
  <2> QED BY <2>3, <2>4
<1>19. Lives(e)'
  BY <1>7, <1>11, <1>17 DEF Lives
<1>20. Lives(f)'
  BY <1>7, <1>11, <1>18 DEF Lives
<1> QED BY <1>6, <1>12, <1>13, <1>19, <1>20

\* An end before its first handshake.
LEMMA OpenedViews ==
  ASSUME NEW e \in End, NEW d, Opened(d)
  PROVE  /\ ~ Writing(e, d) /\ ~ Reading(e, d)
         /\ Sees(e, d) = Calm(None, <<>>) /\ Tells(e, d) = Calm(None, <<>>)
<1>1. /\ d.state = "HELLO_REQUEST" /\ ~ d.reneg /\ d.tin = None /\ d.tout = None
  BY DEF Opened
<1>2. Idle(e, d) /\ Unmet(d)
  BY <1>1 DEF Idle, Waking, Called, Unmet
<1>3. ~ Writing(e, d) /\ ~ Reading(e, d)
  BY <1>2, TurnsApart
<1> QED BY <1>1, <1>2, <1>3, IdleViews

\* Two such ends, with nothing between them, are together.
LEMMA OpenedTogether ==
  ASSUME NEW known, NEW cert, NEW d, Opened(d), NEW s, Opened(s), NEW q, q = <<>>
  PROVE  Together(known, cert, "client", d, q, s, q)
<1> DEFINE e == "client"
           f == "server"
<1>1. e \in End /\ f \in End /\ Other(e) = f
  BY DEF End, Other
<1> HIDE DEF e, f
<1>2. d.tin = None /\ s.tout = None
  BY DEF Opened
<1>3. /\ ~ Reading(e, d) /\ ~ Writing(f, s) /\ Sees(f, s) = Tells(e, d)
  BY <1>1, OpenedViews
<1>4. Idling(q, d.tin)
  BY DEF Idling
<1>5. PICK b : b = Tells(e, d)
  OBVIOUS
<1>6. Way(known, cert, f, b, q, b)
  BY WayEmpty
<1>7. AheadOf(known, cert, e, d, q, s, q)
  BY <1>1, <1>2, <1>3, <1>4, <1>5, <1>6 DEF AheadOf, BackOf, ForthOf
<1> QED BY <1>7 DEF Together, e

\* A new connection.
LEMMA ConnectLives ==
  ASSUME NullIsNull, StepInv, NEW k \in Client, Connect(k)
  PROVE  Identified' /\ NeverOutOfStep' /\ \A h \in End : Lives(h)'
<1>1. Typed /\ IInv
  BY DEF StepInv, AgreeInv
<1>2. PICK c, d, s : Opens(k, c, d, s)
  BY <1>1, ConnectIs
<1>3. /\ ctx'["client"] = d /\ ctx'["server"] = s
      /\ net'["client"] = <<>> /\ net'["server"] = <<>>
      /\ Opened(d) /\ Opened(s) /\ UNCHANGED <<nonce, origin>>
  BY <1>2 DEF Opens, End
<1>4. d.out = None /\ s.out = None /\ d.end = "no" /\ s.end = "no"
  BY <1>3 DEF Opened
<1>5. Queue("client")' = <<>> /\ Queue("server")' = <<>>
  BY <1>3, <1>4 DEF Queue, Other
<1>6. Alive("client")' /\ Alive("server")'
  BY <1>3, <1>4 DEF Alive
<1>7. Identified'
  BY <1>3 DEF StepInv, Identified
<1>8. NeverOutOfStep'
  BY <1>3, <1>4 DEF NeverOutOfStep, End
<1>9. d.resume => Negotiated(d.neg)
  <2>1. CASE d.resume = FALSE
    BY <2>1
  <2>2. CASE saved[k] # None /\ d.neg = saved[k]
    BY <1>1, <2>2 DEF IInv, SavedOK, SessionOK
  <2> QED BY <1>2, <2>1, <2>2 DEF Opens
<1>10. (d.resume => Negotiated(d.neg)') /\ s.neg.peer = None
  BY <1>2, <1>3, <1>9 DEF Opens, NewSession, Negotiated
<1>11. Touch("client", d)' /\ Touch("server", s)'
  <2>1. /\ d.state = "HELLO_REQUEST" /\ ~ d.reneg /\ d.dh = None /\ d.own = None /\ d.peer = None
        /\ s.state = "HELLO_REQUEST" /\ ~ s.reneg /\ s.dh = None /\ s.own = None /\ s.peer = None
    BY <1>3 DEF Opened
  <2>2. Touch("client", d)'
    BY <1>10, <2>1 DEF Touch, Ready, Waking, Called, Blank, Greets, Matching, Turns, TurnsOf
  <2>3. Touch("server", s)'
    BY <1>10, <2>1 DEF Touch, Ready, Waking, Called, Blank, Greets, Matching, Turns, TurnsOf
  <2> QED BY <2>2, <2>3
<1>12. PICK more, cert : more = origin' /\ cert = Certs'
  OBVIOUS
<1>13. PICK q : q = <<>>
  OBVIOUS
<1>14. Together(more, cert, "client", d, q, s, q)
  BY <1>3, <1>13, OpenedTogether
<1>15. Together(more, cert, "server", s, q, d, q)
  BY <1>14, TogetherTurned DEF End, Other
<1>16. Lives("client")'
  BY <1>3, <1>5, <1>6, <1>11, <1>12, <1>13, <1>14 DEF Lives, Joined, Other
<1>17. Lives("server")'
  BY <1>3, <1>5, <1>6, <1>11, <1>12, <1>13, <1>15 DEF Lives, Joined, Other
<1> QED BY <1>7, <1>8, <1>16, <1>17 DEF End

\* Time goes by.
LEMMA LivesStays ==
  ASSUME StepInv, UNCHANGED <<conf, who, ctx, net, nonce, origin>>
  PROVE  Identified' /\ NeverOutOfStep' /\ \A h \in End : Lives(h)'
<1>1. Identified' /\ NeverOutOfStep'
  BY DEF StepInv, Identified, NeverOutOfStep
<1>2. Certs' = Certs
  BY CertsStay
<1>3. ASSUME NEW h \in End
      PROVE  Lives(h)'
  <2>1. Alive(h) => Touch(h, ctx[h]) /\ Joined(h)
    BY DEF StepInv, Lives
  <2>2. PICK c : c = ctx[h]
    OBVIOUS
  <2>3. Touch(h, c) => Touch(h, c)'
    BY TouchStays
  <2>4. PICK cert : cert = Certs
    OBVIOUS
  <2>5. Joined(h) => Joined(h)'
    BY <1>2, <2>4 DEF Joined, Alive, Queue
  <2> QED BY <2>1, <2>2, <2>3, <2>5 DEF Lives, Alive
<1> QED BY <1>1, <1>3

\* The steps of the system.
LEMMA NextIs ==
  ASSUME [Next]_vars
  PROVE  \/ \E e \in End : Flush(e) \/ Takeover(e)
         \/ \E k \in Client : Connect(k)
         \/ UNCHANGED <<conf, who, ctx, net, nonce, origin>>
<1>1. ASSUME NEW e \in End, Turn(e) \/ Application(e)
      PROVE  Flush(e) \/ Takeover(e)
  BY <1>1 DEF Turn, CommonTurn, Application, Takeover
<1>2. Renegotiate => Takeover("client")
  BY DEF Takeover
<1>3. Tick \/ UNCHANGED vars => UNCHANGED <<conf, who, ctx, net, nonce, origin>>
  BY DEF Tick, vars
<1> QED BY <1>1, <1>2, <1>3 DEF Next, End

\* Every step keeps it.
LEMMA StepInvStep ==
  ASSUME NullIsNull, StepInv, [Next]_vars
  PROVE  StepInv'
<1>1. AgreeInv /\ PeerInv
  BY DEF StepInv
<1>2. NullIsNoKey
  BY DEF NullIsNull, NullIsNoKey
<1>3. AgreeInv' /\ Typed'
  BY <1>1, <1>2, AgreeStep DEF AgreeInv
<1>4. PeerInv'
  BY <1>1, PeerStep DEF NullIsNull
<1>5. Identified' /\ NeverOutOfStep' /\ \A h \in End : Lives(h)'
  <2>1. ASSUME NEW e \in End, Takeover(e)
        PROVE  Identified' /\ NeverOutOfStep' /\ \A h \in End : Lives(h)'
    BY <1>3, <2>1, IdentifiedOn, TakeoverStep
  <2>2. ASSUME NEW e \in End, Flush(e)
        PROVE  Identified' /\ NeverOutOfStep' /\ \A h \in End : Lives(h)'
    BY <2>2, FlushedLives
  <2>3. ASSUME NEW k \in Client, Connect(k)
        PROVE  Identified' /\ NeverOutOfStep' /\ \A h \in End : Lives(h)'
    BY <2>3, ConnectLives
  <2>4. CASE UNCHANGED <<conf, who, ctx, net, nonce, origin>>
    BY <2>4, LivesStays
  <2> QED BY <2>1, <2>2, <2>3, <2>4, NextIs
<1> QED BY <1>3, <1>4, <1>5 DEF StepInv

\* It holds before the first connection.
LEMMA InitStepInv == Init => StepInv
<1> SUFFICES ASSUME Init PROVE StepInv
  OBVIOUS
<1>1. AgreeInv /\ PeerInv
  BY InitAgree, InitPeer
<1>2. \A e \in End : ctx[e].end = "closed"
  <2>1. PICK d : d = Fail(New, "closed")
    OBVIOUS
  <2>2. d.end = "closed"
    BY <2>1, NewIs, FailIs DEF Opened
  <2> QED BY <2>1, <2>2 DEF Init
<1>3. Identified
  BY DEF Init, Identified
<1> QED BY <1>1, <1>2, <1>3 DEF StepInv, NeverOutOfStep, Lives, Alive

\* Every state of the two ends has it: what is on its way between ends that are alive is what
\* the one that waits is about to read.
THEOREM StepInvAlways ==
  ASSUME NullIsNull
  PROVE  Spec => []StepInv
<1>1. Init => StepInv
  BY InitStepInv
<1>2. StepInv /\ [Next]_vars => StepInv'
  BY StepInvStep
<1> QED BY <1>1, <1>2, PTL DEF Spec

\* No record, signature, Finished or renegotiation info of an end of this library is refused by
\* the other.
THEOREM NeverOutOfStepAlways ==
  ASSUME NullIsNull
  PROVE  Spec => []NeverOutOfStep
<1>1. StepInv => NeverOutOfStep
  BY DEF StepInv
<1> QED BY <1>1, StepInvAlways, PTL

\* No two sessions that differ in suite or master secret have the same id: what a server or a
\* client finds under an id is what was negotiated under it.
THEOREM IdentifiedAlways ==
  ASSUME NullIsNull
  PROVE  Spec => []Identified
<1>1. StepInv => Identified
  BY DEF StepInv
<1> QED BY <1>1, StepInvAlways, PTL

=============================================================================

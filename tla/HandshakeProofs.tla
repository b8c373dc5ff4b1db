--------------------------- MODULE HandshakeProofs ---------------------------
(* Proofs about Handshake, for any clients, settings, suites and size of the   *)
(* cache.  A session gets from the server to the cache and to the client only   *)
(* behind a Finished of the server; what it names is fixed by the ServerHello,  *)
(* the second message of both transcripts, and its secret by the hash.         *)
EXTENDS Handshake, SequenceTheorems, WellFoundedInduction, TLAPS

\* A set of positions that is not empty has a first.
LEMMA FirstIsFirst ==
  ASSUME NEW S, S \subseteq Nat, S # {}
  PROVE  First(S) \in S /\ \A j \in S : First(S) <= j
<1>1. PICK i \in S : \A j \in S : ~ (<<j, i>> \in OpToRel(<, Nat))
  BY NatLessThanWellFounded, WFMin
<1>2. \A j \in S : i <= j
  <2> SUFFICES ASSUME NEW j \in S PROVE i <= j
    OBVIOUS
  <2>1. ~ (j < i)
    BY <1>1 DEF OpToRel
  <2> QED
    BY <2>1
<1>3. \E k \in S : \A j \in S : k <= j
  BY <1>2
<1> QED
  BY <1>3 DEF First

\* The seventeen states are different ones.
LEMMA StatesDiffer ==
  \A i, j \in 1..17 : States[i] = States[j] => i = j
  BY DEF States

\* Following goes one state on in the list.
LEMMA FollowingState ==
  ASSUME NEW i \in 1..16
  PROVE  Following(States[i]) = States[i + 1]
<1>1. \E k \in 1..16 : States[k] = States[i]
  OBVIOUS
<1>2. (CHOOSE k \in 1..16 : States[k] = States[i]) \in 1..16
      /\ States[CHOOSE k \in 1..16 : States[k] = States[i]] = States[i]
  BY <1>1
<1>3. (CHOOSE k \in 1..16 : States[k] = States[i]) = i
  BY <1>2, StatesDiffer
<1>4. Following(States[i]) = States[1 + (CHOOSE k \in 1..16 : States[k] = States[i])]
  BY DEF Following
<1>5. 1 + i = i + 1
  OBVIOUS
<1> QED
  BY <1>3, <1>4, <1>5

\* Following, state by state.
LEMMA ServerStates ==
  /\ Following("HELLO_REQUEST") = "CLIENT_HELLO"
  /\ Following("CLIENT_HELLO") = "SERVER_HELLO"
  /\ Following("SERVER_HELLO") = "SERVER_CERTIFICATE"
  /\ Following("SERVER_CERTIFICATE") = "SERVER_KEY_EXCHANGE"
  /\ Following("SERVER_KEY_EXCHANGE") = "CERTIFICATE_REQUEST"
  /\ Following("CERTIFICATE_REQUEST") = "SERVER_HELLO_DONE"
  /\ Following("SERVER_HELLO_DONE") = "CLIENT_CERTIFICATE"
  /\ Following("CLIENT_CERTIFICATE") = "CLIENT_KEY_EXCHANGE"
  /\ Following("CLIENT_KEY_EXCHANGE") = "CERTIFICATE_VERIFY"
  /\ Following("CERTIFICATE_VERIFY") = "CLIENT_CHANGE_CIPHER_SPEC"
  /\ Following("CLIENT_CHANGE_CIPHER_SPEC") = "CLIENT_FINISHED"
  /\ Following("CLIENT_FINISHED") = "SERVER_CHANGE_CIPHER_SPEC"
  /\ Following("SERVER_CHANGE_CIPHER_SPEC") = "SERVER_FINISHED"
  /\ Following("SERVER_FINISHED") = "FLUSH_BUFFERS"
  /\ Following("FLUSH_BUFFERS") = "HANDSHAKE_WRAPUP"
  /\ Following("HANDSHAKE_WRAPUP") = "HANDSHAKE_OVER"
  BY FollowingState DEF States

-----------------------------------------------------------------------------
(* Sequences of messages, whatever these are                                *)

Sequence(s) == \E S : s \in Seq(S)

\* What Append keeps and adds.
LEMMA AppendTo ==
  ASSUME NEW s, Sequence(s), NEW x
  PROVE  /\ Sequence(Append(s, x)) /\ Len(s) \in Nat
         /\ Len(Append(s, x)) = Len(s) + 1
         /\ \A i \in 1..Len(s) : Append(s, x)[i] = s[i]
         /\ Append(s, x)[Len(s) + 1] = x
<1>1. PICK S : s \in Seq(S)
  BY DEF Sequence
<1>2. s \in Seq(S \cup {x})
  BY <1>1, SeqMonotonic
<1>3. Append(s, x) \in Seq(S \cup {x})
  BY <1>2
<1> QED
  BY <1>2, <1>3 DEF Sequence

Replaces(t, s, i, x) == t = [s EXCEPT ![i] = x]

\* What EXCEPT keeps of a sequence, also when the position lies outside of it.
LEMMA ReplaceIn ==
  ASSUME NEW s, Sequence(s), NEW i, NEW x, NEW t, Replaces(t, s, i, x)
  PROVE  /\ Sequence(t) /\ Len(t) = Len(s)
         /\ \A j \in 1..Len(s) : t[j] = IF j = i THEN x ELSE s[j]
<1>1. PICK S : s \in Seq(S)
  BY DEF Sequence
<1>2. s \in Seq(S \cup {x})
  BY <1>1, SeqMonotonic
<1>3. CASE i \in 1..Len(s)
  <2>1. t \in Seq(S \cup {x}) /\ Len(t) = Len(s)
        /\ \A j \in 1..Len(s) : t[j] = IF j = i THEN x ELSE s[j]
    BY <1>2, <1>3, ExceptSeq DEF Replaces
  <2> QED
    BY <2>1 DEF Sequence
<1>4. CASE i \notin 1..Len(s)
  <2>1. s \in [1..Len(s) -> S]
    BY <1>1, LenProperties
  <2>2. t = s
    BY <1>4, <2>1 DEF Replaces
  <2> QED
    BY <1>1, <1>4, <2>2 DEF Sequence
<1> QED
  BY <1>3, <1>4

\* The elements of a tail are elements of the sequence.
LEMMA TailOf ==
  ASSUME NEW s, Sequence(s), s # <<>>
  PROVE  /\ Sequence(Tail(s)) /\ Len(s) \in Nat
         /\ \A i \in 1..Len(Tail(s)) : i + 1 \in 1..Len(s) /\ Tail(s)[i] = s[i + 1]
<1>1. PICK S : s \in Seq(S)
  BY DEF Sequence
<1> QED
  BY <1>1, HeadTailProperties, LenProperties DEF Sequence

\* A sequence that is not empty begins with its head.
LEMMA HeadOf ==
  ASSUME NEW s, Sequence(s), s # <<>>
  PROVE  Len(s) >= 1 /\ Head(s) = s[1]
<1>1. PICK S : s \in Seq(S)
  BY DEF Sequence
<1> QED
  BY <1>1

-----------------------------------------------------------------------------
(* The invariant                                                            *)

Early == {"HELLO_REQUEST", "CLIENT_HELLO", "SERVER_HELLO"}
ResumedStates == {"SERVER_CHANGE_CIPHER_SPEC", "SERVER_FINISHED", "CLIENT_CHANGE_CIPHER_SPEC",
                  "CLIENT_FINISHED", "HANDSHAKE_WRAPUP"}

\* c has the fields the proof reads, and its transcript is a sequence.
Shape(c) ==
  /\ {"state", "end", "resume", "reneg", "neg", "sum", "ses", "out", "msg"} \subseteq DOMAIN c
  /\ {"id", "suite", "master"} \subseteq DOMAIN c.neg
  /\ Sequence(c.sum)

\* The ClientHello comes first in the transcript of a handshake, the ServerHello second,
\* and it names the session that is negotiated.
HelloSecond(c) ==
  /\ c.state \in {"HELLO_REQUEST", "CLIENT_HELLO"} => c.sum = <<>>
  /\ c.state = "SERVER_HELLO" => Len(c.sum) = 1
  /\ c.state \notin Early /\ c.state # "HANDSHAKE_OVER" =>
       /\ Len(c.sum) >= 2
       /\ c.sum[2].id = c.neg.id /\ c.sum[2].suite = c.neg.suite

\* The server renegotiates because of a ClientHello it has read.
HelloAtHand(e, c) ==
  e = "server" /\ c.reneg /\ c.state \in {"HELLO_REQUEST", "CLIENT_HELLO"}
    => c.msg.msg = "ClientHello"

\* A resumed session goes through no state of the key exchange.
ResumesShort(c) ==
  c.resume /\ c.state \notin Early /\ c.state # "HANDSHAKE_OVER" => c.state \in ResumedStates

\* e has reason to believe that the server has negotiated c's session: the server found
\* it in its cache or has written its Finished, which the client has read.
Sure(e, c) ==
  \/ c.state \in {"FLUSH_BUFFERS", "HANDSHAKE_WRAPUP"}
  \/ /\ c.resume
     /\ \/ c.state \in {"CLIENT_CHANGE_CIPHER_SPEC", "CLIENT_FINISHED"}
        \/ e = "server" /\ c.state \in {"SERVER_CHANGE_CIPHER_SPEC", "SERVER_FINISHED"}

\* A Finished of the server speaks for a session it has negotiated.
Vouches(m) ==
  m.msg = "Finished" =>
    \E o \in origin : /\ o.id = m.hash[3][2].id /\ o.suite = m.hash[3][2].suite
                      /\ o.master = m.hash[2]

OutVouches(e, c) == e = "server" /\ c.out # None => Vouches(c.out.body)

\* No session at all, or one that the server has negotiated.
SessionOK(s) == s = None \/ ({"id", "suite", "master"} \subseteq DOMAIN s /\ Negotiated(s))

EndOK(e, c) ==
  /\ Shape(c) /\ SessionOK(c.ses) /\ OutVouches(e, c)
  /\ c.end = "no" =>
       /\ HelloSecond(c) /\ HelloAtHand(e, c) /\ ResumesShort(c)
       /\ Sure(e, c) => Negotiated(c.neg)

NetOK == /\ Sequence(net["client"])
         /\ \A i \in 1..Len(net["client"]) : Vouches(net["client"][i].body)

CacheOK == Sequence(chain) /\ \A i \in 1..Len(chain) : Negotiated(chain[i])

SavedOK == DOMAIN saved = Client /\ \A c \in Client : SessionOK(saved[c])

IInv ==
  /\ DOMAIN ctx = End /\ DOMAIN net = End
  /\ \A e \in End : EndOK(e, ctx[e])
  /\ NetOK /\ CacheOK /\ SavedOK

-----------------------------------------------------------------------------
(* What the operators on a context change                                   *)

\* d is c with a transcript that may be longer; its session's certificate may differ.
Keeps(c, d) ==
  /\ Shape(d)
  /\ d.resume = c.resume /\ d.ses = c.ses
  /\ d.neg.id = c.neg.id /\ d.neg.suite = c.neg.suite /\ d.neg.master = c.neg.master
  /\ Len(c.sum) \in Nat /\ Len(d.sum) \in Nat /\ Len(d.sum) >= Len(c.sum)
  /\ Len(c.sum) >= 2 => d.sum[2] = c.sum[2]

\* The transcript may also stay the same.
LEMMA KeepsSum ==
  ASSUME NEW c, Shape(c), NEW d, Shape(d), d.resume = c.resume, d.ses = c.ses,
         d.neg = c.neg, d.sum = c.sum
  PROVE  Keeps(c, d)
<1>1. PICK S : c.sum \in Seq(S)
  BY DEF Shape, Sequence
<1>2. Len(c.sum) \in Nat
  BY <1>1
<1> QED
  BY <1>2 DEF Keeps

\* Keeps, twice.
LEMMA KeepsTransitive ==
  ASSUME NEW a, NEW b, NEW c, Keeps(a, b), Keeps(b, c)
  PROVE  Keeps(a, c)
  BY DEF Keeps

\* state++ touches nothing else the proof reads.
LEMMA AdvanceKeeps ==
  ASSUME NEW c, Shape(c)
  PROVE  /\ Keeps(c, Advance(c))
         /\ Advance(c).state = Following(c.state) /\ Advance(c).end = c.end
         /\ Advance(c).out = c.out /\ Advance(c).msg = c.msg /\ Advance(c).reneg = c.reneg
         /\ Advance(c).sum = c.sum /\ Advance(c).neg = c.neg
<1> DEFINE d == Advance(c)
<1>1. /\ DOMAIN d = DOMAIN c /\ d.state = Following(c.state) /\ d.end = c.end
      /\ d.out = c.out /\ d.msg = c.msg /\ d.reneg = c.reneg
      /\ d.sum = c.sum /\ d.neg = c.neg /\ d.resume = c.resume /\ d.ses = c.ses
  BY DEF Advance, Shape
<1>2. Shape(d)
  BY <1>1 DEF Shape
<1> QED
  BY <1>1, <1>2, KeepsSum

\* So does giving up.
LEMMA FailKeeps ==
  ASSUME NEW c, Shape(c), NEW why
  PROVE  /\ Keeps(c, Fail(c, why))
         /\ Fail(c, why).end = why /\ Fail(c, why).out = c.out
<1> DEFINE d == Fail(c, why)
<1>1. /\ DOMAIN d = DOMAIN c /\ d.end = why /\ d.out = c.out
      /\ d.sum = c.sum /\ d.neg = c.neg /\ d.resume = c.resume /\ d.ses = c.ses
  BY DEF Fail, Shape
<1>2. Shape(d)
  BY <1>1 DEF Shape
<1> QED
  BY <1>1, <1>2, KeepsSum

\* A context that is used as it is or given up.
LEMMA MayFail ==
  ASSUME NEW c, NEW n, Keeps(c, n), NEW why, why # "no", NEW d, d = n \/ d = Fail(n, why)
  PROVE  Keeps(c, d) /\ d.out = n.out /\ (d = n \/ d.end # "no")
<1>1. Shape(n)
  BY DEF Keeps
<1>2. CASE d = Fail(n, why)
  BY <1>1, <1>2, FailKeeps, KeepsTransitive
<1> QED
  BY <1>2

\* A message that is hashed lengthens the transcript.
LEMMA HashedKeeps ==
  ASSUME NEW c, Shape(c), NEW m
  PROVE  /\ Keeps(c, Hashed(c, m))
         /\ Hashed(c, m).state = c.state /\ Hashed(c, m).end = c.end
         /\ Hashed(c, m).out = c.out /\ Hashed(c, m).msg = c.msg
         /\ Hashed(c, m).reneg = c.reneg /\ Hashed(c, m).neg = c.neg
         /\ DOMAIN Hashed(c, m) = DOMAIN c
         /\ m.msg \in HandshakeMessages => Hashed(c, m).sum = Append(c.sum, m)
<1> DEFINE d == Hashed(c, m)
<1>1. /\ DOMAIN d = DOMAIN c /\ d.state = c.state /\ d.end = c.end
      /\ d.out = c.out /\ d.msg = c.msg /\ d.reneg = c.reneg
      /\ d.neg = c.neg /\ d.resume = c.resume /\ d.ses = c.ses
      /\ d.sum = IF m.msg \in HandshakeMessages THEN Append(c.sum, m) ELSE c.sum
  BY DEF Hashed, Shape
<1>2. /\ Sequence(d.sum) /\ Len(c.sum) \in Nat /\ Len(d.sum) \in Nat
      /\ Len(d.sum) >= Len(c.sum)
      /\ Len(c.sum) >= 2 => d.sum[2] = c.sum[2]
  <2>1. Sequence(c.sum)
    BY DEF Shape
  <2>2. CASE m.msg \in HandshakeMessages
    BY <1>1, <2>1, <2>2, AppendTo
  <2>3. CASE m.msg \notin HandshakeMessages
    BY <1>1, <2>1, <2>3, AppendTo
  <2> QED
    BY <2>2, <2>3
<1>3. Shape(d)
  BY <1>1, <1>2 DEF Shape
<1> HIDE DEF d
<1>4. Keeps(c, d)
  BY <1>1, <1>2, <1>3 DEF Keeps
<1> QED
  BY <1>1, <1>4 DEF d

\* A message that is written is hashed and lies in out_msg.
LEMMA SentKeeps ==
  ASSUME NEW c, Shape(c), NEW m
  PROVE  /\ Keeps(c, Sent(c, m))
         /\ Sent(c, m).state = c.state /\ Sent(c, m).end = c.end
         /\ Sent(c, m).out.body = m /\ Sent(c, m).msg = c.msg
         /\ Sent(c, m).reneg = c.reneg /\ Sent(c, m).neg = c.neg
         /\ m.msg \in HandshakeMessages => Sent(c, m).sum = Append(c.sum, m)
<1> DEFINE h == Hashed(c, m)
           d == Sent(c, m)
<1>1. /\ Keeps(c, h) /\ h.state = c.state /\ h.end = c.end /\ h.msg = c.msg
      /\ h.reneg = c.reneg /\ h.neg = c.neg /\ DOMAIN h = DOMAIN c
      /\ m.msg \in HandshakeMessages => h.sum = Append(c.sum, m)
  BY HashedKeeps
<1>2. d = [h EXCEPT !.out = [key |-> c.tout, body |-> m]]
  BY DEF Sent
<1> HIDE DEF h, d
<1>3. {"state", "end", "resume", "reneg", "neg", "sum", "ses", "out", "msg"} \subseteq DOMAIN h
  BY <1>1 DEF Shape
<1>4. /\ DOMAIN d = DOMAIN h /\ d.state = h.state /\ d.end = h.end /\ d.msg = h.msg
      /\ d.out = [key |-> c.tout, body |-> m] /\ d.reneg = h.reneg /\ d.neg = h.neg
      /\ d.sum = h.sum /\ d.resume = h.resume /\ d.ses = h.ses
  BY <1>2, <1>3
<1>5. Shape(d) /\ Shape(h)
  BY <1>1, <1>4 DEF Shape, Keeps
<1>6. Keeps(c, d)
  BY <1>1, <1>4, <1>5, KeepsSum, KeepsTransitive
<1> QED
  BY <1>1, <1>4, <1>6 DEF d

\* A message that is read is hashed, unless the handshake is over.
LEMMA ReceivedKeeps ==
  ASSUME NEW c, Shape(c), NEW m
  PROVE  /\ Keeps(c, Received(c, m))
         /\ Received(c, m).state = c.state /\ Received(c, m).end = c.end
         /\ Received(c, m).out = c.out /\ Received(c, m).msg = m
         /\ Received(c, m).reneg = c.reneg /\ Received(c, m).neg = c.neg
         /\ c.state # "HANDSHAKE_OVER" /\ m.msg \in HandshakeMessages
              => Received(c, m).sum = Append(c.sum, m)
<1> DEFINE h == IF c.state = "HANDSHAKE_OVER" THEN c ELSE Hashed(c, m)
           d == Received(c, m)
<1>1. /\ Keeps(c, h) /\ h.state = c.state /\ h.end = c.end /\ h.out = c.out
      /\ h.reneg = c.reneg /\ h.neg = c.neg /\ DOMAIN h = DOMAIN c
      /\ c.state # "HANDSHAKE_OVER" /\ m.msg \in HandshakeMessages => h.sum = Append(c.sum, m)
  BY HashedKeeps, KeepsSum
<1>2. d = [h EXCEPT !.msg = m]
  BY DEF Received
<1> HIDE DEF h, d
<1>3. {"state", "end", "resume", "reneg", "neg", "sum", "ses", "out", "msg"} \subseteq DOMAIN h
  BY <1>1 DEF Shape
<1>4. /\ DOMAIN d = DOMAIN h /\ d.state = h.state /\ d.end = h.end /\ d.msg = m
      /\ d.out = h.out /\ d.reneg = h.reneg /\ d.neg = h.neg
      /\ d.sum = h.sum /\ d.resume = h.resume /\ d.ses = h.ses
  BY <1>2, <1>3
<1>5. Shape(d) /\ Shape(h)
  BY <1>1, <1>4 DEF Shape, Keeps
<1>6. Keeps(c, d)
  BY <1>1, <1>4, <1>5, KeepsSum, KeepsTransitive
<1> QED
  BY <1>1, <1>4, <1>6 DEF d

\* An alert is not a Finished.
LEMMA AbortKeeps ==
  ASSUME NEW c, Shape(c), NEW why
  PROVE  /\ Keeps(c, Abort(c, why)) /\ Abort(c, why).end = why
         /\ \A e : OutVouches(e, Abort(c, why))
<1> DEFINE f == Fail(c, why)
           m == [msg |-> "Fatal"]
<1>1. Keeps(c, f) /\ f.end = why /\ Shape(f)
  BY FailKeeps DEF Keeps
<1>2. Keeps(f, Sent(f, m)) /\ Sent(f, m).end = why /\ Sent(f, m).out.body = m
  <2> HIDE DEF f, m
  <2> QED
    BY <1>1, SentKeeps
<1>3. Abort(c, why) = Sent(f, m)
  BY DEF Abort
<1>4. Keeps(c, Sent(f, m))
  BY <1>1, <1>2, KeepsTransitive
<1> QED
  BY <1>2, <1>3, <1>4 DEF OutVouches, Vouches

\* The master secret of a resumed session stays what it is.
LEMMA DerivedKeeps ==
  ASSUME NEW c, Shape(c)
  PROVE  /\ Shape(Derived(c))
         /\ Derived(c).state = c.state /\ Derived(c).end = c.end /\ Derived(c).out = c.out
         /\ Derived(c).sum = c.sum /\ Derived(c).ses = c.ses
         /\ Derived(c).resume = c.resume /\ Derived(c).reneg = c.reneg
         /\ Derived(c).neg.id = c.neg.id /\ Derived(c).neg.suite = c.neg.suite
         /\ c.resume => Derived(c).neg.master = c.neg.master
<1> DEFINE d == Derived(c)
<1>1. c.resume => Master(c) = c.neg.master
  BY DEF Master
<1>2. /\ DOMAIN d = DOMAIN c /\ d.state = c.state /\ d.end = c.end /\ d.out = c.out
      /\ d.sum = c.sum /\ d.resume = c.resume /\ d.reneg = c.reneg /\ d.ses = c.ses
      /\ d.neg = [c.neg EXCEPT !.master = Master(c)]
  BY DEF Derived, Shape
<1>3. /\ DOMAIN d.neg = DOMAIN c.neg
      /\ d.neg.id = c.neg.id /\ d.neg.suite = c.neg.suite /\ d.neg.master = Master(c)
  BY <1>2 DEF Shape
<1>4. Shape(d)
  BY <1>2, <1>3 DEF Shape
<1> QED
  BY <1>1, <1>2, <1>3, <1>4

\* d is what c becomes during a key exchange.
Follows(c, d) ==
  /\ Shape(d)
  /\ d.resume = c.resume /\ d.ses = c.ses
  /\ d.neg.id = c.neg.id /\ d.neg.suite = c.neg.suite
  /\ Len(c.sum) \in Nat /\ Len(d.sum) \in Nat /\ Len(d.sum) >= Len(c.sum)
  /\ Len(c.sum) >= 2 => d.sum[2] = c.sum[2]

\* Follows asks for less: the master secret may change.
LEMMA KeepsFollows ==
  ASSUME NEW c, NEW d, Keeps(c, d) PROVE Follows(c, d)
  BY DEF Keeps, Follows

\* An end that leaves the connection.
LEMMA EndedOK ==
  ASSUME NEW e, NEW c, EndOK(e, c), NEW d, Follows(c, d), OutVouches(e, d), d.end # "no"
  PROVE  EndOK(e, d)
  BY DEF EndOK, Follows

KeyExchange ==
  {"SERVER_CERTIFICATE", "SERVER_KEY_EXCHANGE", "CERTIFICATE_REQUEST", "SERVER_HELLO_DONE",
   "CLIENT_CERTIFICATE", "CLIENT_KEY_EXCHANGE", "CERTIFICATE_VERIFY"}

\* One state of the key exchange to the next: no session is resumed.
LEMMA KeyExchangeStep ==
  ASSUME NEW e, NEW c, EndOK(e, c), c.end = "no", c.state \in KeyExchange,
         NEW d, Follows(c, d), d.state = Following(c.state), OutVouches(e, d)
  PROVE  EndOK(e, d)
<1>1. ~ c.resume
  BY DEF EndOK, ResumesShort, KeyExchange, ResumedStates, Early
<1>2. d.state \in {"SERVER_KEY_EXCHANGE", "CERTIFICATE_REQUEST", "SERVER_HELLO_DONE",
                   "CLIENT_CERTIFICATE", "CLIENT_KEY_EXCHANGE", "CERTIFICATE_VERIFY",
                   "CLIENT_CHANGE_CIPHER_SPEC"}
  BY ServerStates DEF KeyExchange
<1>3. HelloSecond(d)
  BY <1>2 DEF EndOK, HelloSecond, Follows, KeyExchange, Early
<1>4. HelloAtHand(e, d) /\ ResumesShort(d) /\ ~ Sure(e, d)
  BY <1>1, <1>2 DEF HelloAtHand, ResumesShort, Sure, Follows
<1> QED
  BY <1>3, <1>4 DEF EndOK, Follows

\* One state behind the key exchange to the next.
LEMMA FinishingStep ==
  ASSUME NEW e, NEW c, EndOK(e, c), c.end = "no",
         c.state \in ResumedStates \cup {"FLUSH_BUFFERS"},
         NEW d, Keeps(c, d), d.state \in ResumedStates \cup {"FLUSH_BUFFERS"},
         c.resume => d.state \in ResumedStates,
         OutVouches(e, d), Sure(e, d) => Sure(e, c) \/ Negotiated(d.neg)
  PROVE  EndOK(e, d)
<1>1. HelloSecond(d)
  BY DEF EndOK, HelloSecond, Keeps, ResumedStates, Early
<1>2. HelloAtHand(e, d) /\ ResumesShort(d)
  BY DEF HelloAtHand, ResumesShort, Keeps, ResumedStates
<1>3. Sure(e, d) => Negotiated(d.neg)
  BY DEF EndOK, Keeps, Negotiated
<1> QED
  BY <1>1, <1>2, <1>3 DEF EndOK, Keeps

\* A message that is not a Finished is vouched for.
LEMMA OtherMessage ==
  ASSUME NEW e, NEW d, d.out = None \/ d.out.body.msg # "Finished"
  PROVE  OutVouches(e, d)
  BY DEF OutVouches, Vouches

\* A message is read and the state moves on.
LEMMA ReadAdvance ==
  ASSUME NEW c, Shape(c), NEW m
  PROVE  /\ Keeps(c, Advance(Received(c, m)))
         /\ Advance(Received(c, m)).state = Following(c.state)
         /\ Advance(Received(c, m)).end = c.end /\ Advance(Received(c, m)).out = c.out
<1> DEFINE r == Received(c, m)
<1>1. /\ Keeps(c, r) /\ Shape(r)
      /\ r.state = c.state /\ r.end = c.end /\ r.out = c.out
  BY ReceivedKeeps DEF Keeps
<1> HIDE DEF r
<1>2. /\ Keeps(r, Advance(r)) /\ Advance(r).state = Following(r.state)
      /\ Advance(r).end = r.end /\ Advance(r).out = r.out
  BY <1>1, AdvanceKeeps
<1>3. Keeps(c, Advance(r))
  BY <1>1, <1>2, KeepsTransitive
<1> QED
  BY <1>1, <1>2, <1>3 DEF r

\* The state moves on and a message is written.
LEMMA AdvanceSent ==
  ASSUME NEW c, Shape(c), NEW m
  PROVE  /\ Keeps(c, Sent(Advance(c), m))
         /\ Sent(Advance(c), m).state = Following(c.state)
         /\ Sent(Advance(c), m).end = c.end /\ Sent(Advance(c), m).out.body = m
<1> DEFINE a == Advance(c)
<1>1. Keeps(c, a) /\ Shape(a) /\ a.state = Following(c.state) /\ a.end = c.end
  BY AdvanceKeeps DEF Keeps
<1> HIDE DEF a
<1>2. /\ Keeps(a, Sent(a, m)) /\ Sent(a, m).state = a.state
      /\ Sent(a, m).end = a.end /\ Sent(a, m).out.body = m
  BY <1>1, SentKeeps
<1>3. Keeps(c, Sent(a, m))
  BY <1>1, <1>2, KeepsTransitive
<1> QED
  BY <1>1, <1>2, <1>3 DEF a

-----------------------------------------------------------------------------
(* What a turn of one end leaves of the invariant                           *)

LEMMA EndOKGrows ==
  ASSUME origin \subseteq origin', NEW e, NEW c, EndOK(e, c)
  PROVE  EndOK(e, c)'
  BY DEF EndOK, Shape, Sequence, SessionOK, Negotiated, OutVouches, Vouches, HelloSecond,
         HelloAtHand, ResumesShort, Sure, Early, ResumedStates

\* More negotiated sessions spoil nothing the cache or a client holds.
LEMMA RestGrows ==
  ASSUME origin \subseteq origin', CacheOK, SavedOK, chain' = chain, saved' = saved
  PROVE  CacheOK' /\ SavedOK'
  BY DEF CacheOK, SavedOK, SessionOK, Negotiated

\* They spoil no record under way either, and no more does taking one away.
LEMMA NetGrows ==
  ASSUME origin \subseteq origin', NetOK, DOMAIN net = End, NEW e \in End,
         \/ net' = net
         \/ net[e] # <<>> /\ net' = [net EXCEPT ![e] = Tail(@)]
  PROVE  NetOK'
<1>1. CASE net'["client"] = net["client"]
  BY <1>1 DEF NetOK, Vouches
<1>2. CASE net["client"] # <<>> /\ net'["client"] = Tail(net["client"])
  BY <1>2, TailOf DEF NetOK, Vouches
<1> QED
  BY <1>1, <1>2 DEF End

\* A turn by which the server comes to vouch for one more session.
LEMMA GrowingTurn ==
  ASSUME IInv, NEW e \in End, NEW d, EndOK(e, d)', origin \subseteq origin',
         UNCHANGED <<chain, saved>>, ctx' = [ctx EXCEPT ![e] = d],
         \/ net' = net
         \/ net[e] # <<>> /\ net' = [net EXCEPT ![e] = Tail(@)]
  PROVE  IInv'
<1>1. NetOK' /\ CacheOK' /\ SavedOK' /\ DOMAIN net' = End
  BY NetGrows, RestGrows DEF IInv
<1>2. DOMAIN ctx' = End
  BY DEF IInv
<1>3. \A f \in End : EndOK(f, ctx[f])'
  <2> SUFFICES ASSUME NEW f \in End PROVE EndOK(f, ctx[f])'
    OBVIOUS
  <2>1. CASE f = e
    <3>1. ctx'[f] = d
      BY <2>1 DEF IInv
    <3> QED
      BY <2>1, <3>1 DEF EndOK, SessionOK, Negotiated, OutVouches, Vouches
  <2>2. CASE f # e
    <3>1. ctx'[f] = ctx[f]
      BY <2>2 DEF IInv
    <3>2. PICK c : c = ctx[f]
      OBVIOUS
    <3>3. EndOK(f, c)'
      BY <3>2, EndOKGrows DEF IInv
    <3> QED
      BY <3>1, <3>2, <3>3 DEF EndOK, SessionOK, Negotiated, OutVouches, Vouches
  <2> QED
    BY <2>1, <2>2
<1> QED
  BY <1>1, <1>2, <1>3 DEF IInv

\* e writes: its context is d.
LEMMA BecomesStep ==
  ASSUME IInv, NEW e \in End, NEW d, EndOK(e, d), UNCHANGED <<chain, saved, origin>>,
         Becomes(e, d)
  PROVE  IInv'
<1>1. origin \subseteq origin' /\ ctx' = [ctx EXCEPT ![e] = d] /\ net' = net
  BY DEF Becomes
<1>2. EndOK(e, d)'
  BY <1>1, EndOKGrows
<1> QED
  BY <1>1, <1>2, GrowingTurn

\* e reads, where there is a record.
LEMMA ConsumesStep ==
  ASSUME IInv, NEW e \in End, NEW d, EndOK(e, d), UNCHANGED <<chain, saved, origin>>,
         net[e] # <<>>, Consumes(e, d)
  PROVE  IInv'
<1>1. /\ origin \subseteq origin' /\ ctx' = [ctx EXCEPT ![e] = d]
      /\ net' = [net EXCEPT ![e] = Tail(@)]
  BY DEF Consumes
<1>2. EndOK(e, d)'
  BY <1>1, EndOKGrows
<1> QED
  BY <1>1, <1>2, GrowingTurn

-----------------------------------------------------------------------------
(* Every action keeps the invariant                                         *)

LEMMA AtFacts ==
  ASSUME IInv, NEW e \in End, NEW s, At(e, s)
  PROVE  /\ EndOK(e, ctx[e]) /\ Shape(ctx[e])
         /\ ctx[e].state = s /\ ctx[e].end = "no" /\ ctx[e].out = None
  BY DEF IInv, At, EndOK

\* What an end knows that has a message to read.
LEMMA GetsFacts ==
  ASSUME NEW e, NEW s, NEW ms, Gets(e, s, ms)
  PROVE  /\ At(e, s) /\ net[e] # <<>> /\ Incoming(e).msg \in ms
         /\ Incoming(e).msg \in Awaits(e)
  BY DEF Gets, Incoming

\* A turn whose end leaves the connection.
LEMMA EndingTurn ==
  ASSUME IInv, NEW e \in End, UNCHANGED <<chain, saved, origin>>,
         NEW d, Becomes(e, d) \/ (net[e] # <<>> /\ Consumes(e, d)),
         Keeps(ctx[e], d), d.end # "no", OutVouches(e, d)
  PROVE  IInv'
<1>1. PICK c : c = ctx[e]
  OBVIOUS
<1>2. EndOK(e, d)
  BY <1>1, EndedOK, KeepsFollows DEF IInv
<1> QED
  BY <1>2, BecomesStep, ConsumesStep

\* A turn of the key exchange.
LEMMA KeyExchangeTurn ==
  ASSUME IInv, NEW e \in End, NEW s \in KeyExchange, At(e, s),
         UNCHANGED <<chain, saved, origin>>,
         NEW d, Becomes(e, d) \/ (net[e] # <<>> /\ Consumes(e, d)),
         Follows(ctx[e], d), d.state = Following(s) \/ d.end # "no",
         d.out = None \/ d.out.body.msg # "Finished"
  PROVE  IInv'
<1>1. EndOK(e, d)
  BY AtFacts, KeyExchangeStep, EndedOK, OtherMessage
<1> QED
  BY <1>1, BecomesStep, ConsumesStep

\* ssl_write_certificate.
LEMMA WriteCertificateStep ==
  ASSUME IInv, NEW e \in End, WriteCertificate(e)
  PROVE  IInv'
<1>1. PICK s : s = CertificateState(e)
  OBVIOUS
<1>2. At(e, s) /\ s \in KeyExchange
  BY <1>1 DEF WriteCertificate, CertificateState, KeyExchange
<1>3. UNCHANGED <<chain, saved, origin>>
  BY DEF WriteCertificate, envVars, cacheVars
<1>4. PICK d, m : /\ Becomes(e, d) /\ m.msg # "Finished"
                  /\ \/ d = Advance(ctx[e])
                     \/ d = Fail(ctx[e], "nocert")
                     \/ d = Sent(Advance(ctx[e]), m)
  <2> DEFINE m == IF e = "client" /\ Own(e) = None /\ ctx[e].minor = 0
                  THEN [msg |-> "NoCertificate"]
                  ELSE [msg |-> "Certificate", cert |-> Own(e)]
             d == CASE e = "client" /\ ~ctx[e].auth -> Advance(ctx[e])
                    [] e = "server" /\ Own(e) = None -> Fail(ctx[e], "nocert")
                    [] OTHER -> Sent(Advance(ctx[e]), m)
  <2>1. Becomes(e, d)
    BY DEF WriteCertificate
  <2>2. m.msg # "Finished"
    OBVIOUS
  <2>3. d = Advance(ctx[e]) \/ d = Fail(ctx[e], "nocert") \/ d = Sent(Advance(ctx[e]), m)
    <3> HIDE DEF m
    <3> QED
      BY DEF End
  <2> QED
    BY <2>1, <2>2, <2>3
<1>5. Keeps(ctx[e], d) /\ (d.state = Following(s) \/ d.end # "no")
      /\ (d.out = None \/ d.out.body.msg # "Finished")
  BY <1>2, <1>4, AtFacts, AdvanceKeeps, FailKeeps, AdvanceSent
<1> QED
  BY <1>2, <1>3, <1>4, <1>5, KeepsFollows, KeyExchangeTurn

\* ssl_parse_certificate when none was asked for.
LEMMA SkipCertificateStep ==
  ASSUME IInv, SkipCertificate
  PROVE  IInv'
<1>1. PICK c, d : c = Advance(ctx["server"]) /\ d = [c EXCEPT !.verify = "skipped"]
  OBVIOUS
<1>2. At("server", "CLIENT_CERTIFICATE") /\ Becomes("server", d)
      /\ UNCHANGED <<chain, saved, origin>>
  BY <1>1 DEF SkipCertificate, envVars, cacheVars
<1>3. Keeps(ctx["server"], c) /\ Shape(c) /\ c.state = Following("CLIENT_CERTIFICATE")
      /\ c.out = None
  BY <1>1, <1>2, AtFacts, AdvanceKeeps DEF End, Keeps
<1>4. Shape(d) /\ d.resume = c.resume /\ d.ses = c.ses /\ d.neg = c.neg /\ d.sum = c.sum
      /\ d.state = c.state /\ d.out = c.out
  BY <1>1, <1>3 DEF Shape
<1>5. Keeps(ctx["server"], d)
  BY <1>3, <1>4, KeepsSum, KeepsTransitive
<1> QED
  BY <1>2, <1>3, <1>4, <1>5, KeepsFollows, KeyExchangeTurn DEF End, KeyExchange

\* ssl_parse_certificate.
LEMMA ParseCertificateStep ==
  ASSUME IInv, NEW e \in End, ParseCertificate(e)
  PROVE  IInv'
<1>1. PICK s : s = CertificateState(Other(e))
  OBVIOUS
<1>2. At(e, s) /\ s \in KeyExchange /\ net[e] # <<>>
  BY <1>1, GetsFacts DEF ParseCertificate, CertificateState, KeyExchange
<1>3. UNCHANGED <<chain, saved, origin>>
  BY DEF ParseCertificate, envVars, cacheVars
<1>4. PICK c : c = Advance(Received(ctx[e], Incoming(e)))
  OBVIOUS
<1>5. PICK v, p, n, d :
        /\ n = [c EXCEPT !.verify = v, !.neg.peer = p]
        /\ Consumes(e, d)
        /\ d = n \/ d = Fail(n, "badcert")
  BY <1>4 DEF ParseCertificate
<1>6. Keeps(ctx[e], c) /\ Shape(c) /\ c.state = Following(s) /\ c.out = None
  BY <1>2, <1>4, AtFacts, ReadAdvance DEF Keeps
<1>7. /\ DOMAIN n = DOMAIN c /\ n.resume = c.resume /\ n.ses = c.ses
      /\ n.neg = [c.neg EXCEPT !.peer = p] /\ n.sum = c.sum
      /\ n.state = c.state /\ n.out = c.out
  BY <1>5, <1>6 DEF Shape
<1>8. /\ DOMAIN n.neg = DOMAIN c.neg /\ n.neg.id = c.neg.id
      /\ n.neg.suite = c.neg.suite /\ n.neg.master = c.neg.master
  BY <1>6, <1>7 DEF Shape
<1>9. Shape(n) /\ Keeps(ctx[e], n)
  BY <1>6, <1>7, <1>8 DEF Shape, Keeps
<1>10. Keeps(ctx[e], d) /\ (d.state = Following(s) \/ d.end # "no") /\ d.out = None
  <2>1. (n.state = Following(s) /\ n.out = None) /\ (d = n \/ d = Fail(n, "badcert"))
    BY <1>5, <1>6, <1>7
  <2> QED
    BY <1>9, <2>1, MayFail
<1> QED
  BY <1>2, <1>3, <1>5, <1>10, KeepsFollows, KeyExchangeTurn

\* ssl_write_server_key_exchange.
LEMMA WriteServerKeyExchangeStep ==
  ASSUME IInv, WriteServerKeyExchange
  PROVE  IInv'
<1> DEFINE c == ctx["server"]
           a == [Advance(c) EXCEPT !.dh = nonce]
           m == [msg |-> "ServerKeyExchange", dh |-> nonce,
                 signed |-> <<c.rc, c.rs, nonce>>, by |-> conf.scert]
<1>1. At("server", "SERVER_KEY_EXCHANGE") /\ UNCHANGED <<chain, saved, origin>>
  BY DEF WriteServerKeyExchange, envVars, cacheVars
<1>2. PICK d : Becomes("server", d) /\ (d = Advance(c) \/ d = Sent(a, m))
  BY DEF WriteServerKeyExchange
<1>3. /\ Keeps(c, Advance(c)) /\ Shape(Advance(c)) /\ Advance(c).out = None
      /\ Advance(c).state = Following("SERVER_KEY_EXCHANGE")
  BY <1>1, AtFacts, AdvanceKeeps DEF End, Keeps
<1>4. Keeps(c, a) /\ Shape(a) /\ a.state = Following("SERVER_KEY_EXCHANGE")
  <2>1. /\ Shape(a) /\ a.resume = Advance(c).resume /\ a.ses = Advance(c).ses
        /\ a.neg = Advance(c).neg /\ a.sum = Advance(c).sum /\ a.state = Advance(c).state
    BY <1>3 DEF Shape
  <2>2. Keeps(Advance(c), a)
    BY <1>3, <2>1, KeepsSum
  <2> QED
    BY <1>3, <2>1, <2>2, KeepsTransitive
<1>5. m.msg = "ServerKeyExchange"
  OBVIOUS
<1> HIDE DEF a, m, c
<1>6. Keeps(c, Sent(a, m)) /\ Sent(a, m).state = Following("SERVER_KEY_EXCHANGE")
      /\ Sent(a, m).out.body.msg # "Finished"
  BY <1>4, <1>5, SentKeeps, KeepsTransitive
<1>7. Keeps(c, d) /\ d.state = Following("SERVER_KEY_EXCHANGE")
      /\ (d.out = None \/ d.out.body.msg # "Finished")
  BY <1>2, <1>3, <1>6
<1> QED
  BY <1>1, <1>2, <1>7, KeepsFollows, KeyExchangeTurn DEF End, KeyExchange, c

\* ssl_parse_server_key_exchange.
LEMMA ParseServerKeyExchangeStep ==
  ASSUME IInv, ParseServerKeyExchange
  PROVE  IInv'
<1> DEFINE m == Incoming("client")
           c == Advance(Received(ctx["client"], m))
<1>1. UNCHANGED <<chain, saved, origin>>
  BY DEF ParseServerKeyExchange, envVars, cacheVars
<1>2. /\ At("client", "SERVER_KEY_EXCHANGE")
      /\ \E d : \/ /\ net["client"] # <<>> /\ Consumes("client", d)
                   /\ d = [c EXCEPT !.dh = m.dh] \/ d = Fail(c, "signature")
                \/ Becomes("client", d) /\ d = Advance(ctx["client"])
  BY GetsFacts DEF ParseServerKeyExchange
<1>3. PICK d : \/ /\ net["client"] # <<>> /\ Consumes("client", d)
                  /\ d = [c EXCEPT !.dh = m.dh] \/ d = Fail(c, "signature")
               \/ Becomes("client", d) /\ d = Advance(ctx["client"])
  BY <1>2
<1>4. /\ Keeps(ctx["client"], c) /\ Shape(c) /\ c.out = None
      /\ c.state = Following("SERVER_KEY_EXCHANGE")
  BY <1>2, AtFacts, ReadAdvance DEF End, Keeps
<1> HIDE DEF c
<1>5. Keeps(ctx["client"], d) /\ d.out = None
      /\ (d.state = Following("SERVER_KEY_EXCHANGE") \/ d.end # "no")
  <2>1. CASE d = [c EXCEPT !.dh = m.dh]
    <3>1. /\ Shape(d) /\ d.resume = c.resume /\ d.ses = c.ses
          /\ d.neg = c.neg /\ d.sum = c.sum /\ d.state = c.state /\ d.out = c.out
      BY <1>4, <2>1 DEF Shape
    <3> QED
      BY <1>4, <3>1, KeepsSum, KeepsTransitive
  <2>2. CASE d = Fail(c, "signature")
    BY <1>4, <2>2, MayFail
  <2>3. CASE d = Advance(ctx["client"])
    BY <1>2, <2>3, AtFacts, AdvanceKeeps DEF End
  <2> QED
    BY <1>3, <2>1, <2>2, <2>3
<1>6. Becomes("client", d) \/ (net["client"] # <<>> /\ Consumes("client", d))
  BY <1>3
<1> QED
  BY <1>1, <1>2, <1>5, <1>6, KeepsFollows, KeyExchangeTurn DEF End, KeyExchange

\* ssl_write_certificate_request and ssl_parse_certificate_request.
LEMMA CertificateRequestStep ==
  ASSUME IInv, WriteCertificateRequest \/ ParseCertificateRequest
  PROVE  IInv'
<1>1. CASE WriteCertificateRequest
  <2> DEFINE m == [msg |-> "CertificateRequest"]
  <2>1. At("server", "CERTIFICATE_REQUEST") /\ UNCHANGED <<chain, saved, origin>>
    BY <1>1 DEF WriteCertificateRequest, envVars, cacheVars
  <2>2. PICK d : /\ Becomes("server", d)
                 /\ d = Advance(ctx["server"]) \/ d = Sent(Advance(ctx["server"]), m)
    BY <1>1 DEF WriteCertificateRequest
  <2>3. m.msg = "CertificateRequest"
    OBVIOUS
  <2> HIDE DEF m
  <2>4. Keeps(ctx["server"], d) /\ d.state = Following("CERTIFICATE_REQUEST")
        /\ (d.out = None \/ d.out.body.msg # "Finished")
    BY <2>1, <2>2, <2>3, AtFacts, AdvanceKeeps, AdvanceSent DEF End
  <2> QED
    BY <2>1, <2>2, <2>4, KeepsFollows, KeyExchangeTurn DEF End, KeyExchange
<1>2. CASE ParseCertificateRequest
  <2>1. PICK c, x, d : /\ c = Advance(Received(ctx["client"], Incoming("client")))
                       /\ d = [c EXCEPT !.auth = x]
                       /\ Consumes("client", d)
    BY <1>2 DEF ParseCertificateRequest
  <2>2. /\ At("client", "CERTIFICATE_REQUEST") /\ net["client"] # <<>>
        /\ UNCHANGED <<chain, saved, origin>>
    BY <1>2, GetsFacts DEF ParseCertificateRequest, envVars, cacheVars
  <2>3. /\ Keeps(ctx["client"], c) /\ Shape(c) /\ c.out = None
        /\ c.state = Following("CERTIFICATE_REQUEST")
    BY <2>1, <2>2, AtFacts, ReadAdvance DEF End, Keeps
  <2>4. /\ Shape(d) /\ d.resume = c.resume /\ d.ses = c.ses
        /\ d.neg = c.neg /\ d.sum = c.sum /\ d.state = c.state /\ d.out = c.out
    BY <2>1, <2>3 DEF Shape
  <2>5. Keeps(ctx["client"], d)
    BY <2>3, <2>4, KeepsSum, KeepsTransitive
  <2> QED
    BY <2>1, <2>2, <2>3, <2>4, <2>5, KeepsFollows, KeyExchangeTurn DEF End, KeyExchange
<1> QED
  BY <1>1, <1>2

\* ssl_write_server_hello_done and ssl_parse_server_hello_done.
LEMMA ServerHelloDoneStep ==
  ASSUME IInv, WriteServerHelloDone \/ ParseServerHelloDone
  PROVE  IInv'
<1>1. CASE WriteServerHelloDone
  <2> DEFINE m == [msg |-> "ServerHelloDone"]
  <2>1. /\ At("server", "SERVER_HELLO_DONE") /\ UNCHANGED <<chain, saved, origin>>
        /\ Becomes("server", Sent(Advance(ctx["server"]), m))
    BY <1>1 DEF WriteServerHelloDone, envVars, cacheVars
  <2>2. m.msg = "ServerHelloDone"
    OBVIOUS
  <2> HIDE DEF m
  <2>3. PICK d : d = Sent(Advance(ctx["server"]), m)
    OBVIOUS
  <2>4. Keeps(ctx["server"], d) /\ d.state = Following("SERVER_HELLO_DONE")
        /\ d.out.body.msg # "Finished"
    BY <2>1, <2>2, <2>3, AtFacts, AdvanceSent DEF End
  <2> QED
    BY <2>1, <2>3, <2>4, KeepsFollows, KeyExchangeTurn DEF End, KeyExchange
<1>2. CASE ParseServerHelloDone
  <2>1. /\ At("client", "SERVER_HELLO_DONE") /\ UNCHANGED <<chain, saved, origin>>
        /\ \E m, d :
             \/ /\ net["client"] # <<>> /\ Consumes("client", d)
                /\ d = Advance(Received(ctx["client"], m))
             \/ /\ Becomes("client", d)
                /\ d = Advance(ctx["client"]) \/ d = Fail(ctx["client"], "unexpected")
    BY <1>2, GetsFacts DEF ParseServerHelloDone, envVars, cacheVars
  <2>2. PICK m, d :
             \/ /\ net["client"] # <<>> /\ Consumes("client", d)
                /\ d = Advance(Received(ctx["client"], m))
             \/ /\ Becomes("client", d)
                /\ d = Advance(ctx["client"]) \/ d = Fail(ctx["client"], "unexpected")
    BY <2>1
  <2>3. Keeps(ctx["client"], d) /\ d.out = None
        /\ (d.state = Following("SERVER_HELLO_DONE") \/ d.end # "no")
    BY <2>1, <2>2, AtFacts, AdvanceKeeps, ReadAdvance, FailKeeps DEF End
  <2>4. Becomes("client", d) \/ (net["client"] # <<>> /\ Consumes("client", d))
    BY <2>2
  <2> QED
    BY <2>1, <2>3, <2>4, KeepsFollows, KeyExchangeTurn DEF End, KeyExchange
<1> QED
  BY <1>1, <1>2

\* The secrets are derived, and the master secret is another than before.
LEMMA DerivedFollows ==
  ASSUME NEW c, NEW b, Keeps(c, b)
  PROVE  /\ Follows(c, Derived(b)) /\ Shape(Derived(b))
         /\ Derived(b).state = b.state /\ Derived(b).out = b.out /\ Derived(b).end = b.end
<1>1. Shape(b)
  BY DEF Keeps
<1>2. PICK d : d = Derived(b)
  OBVIOUS
<1>3. /\ Shape(d) /\ d.state = b.state /\ d.end = b.end /\ d.out = b.out
      /\ d.sum = b.sum /\ d.resume = b.resume /\ d.ses = b.ses
      /\ d.neg.id = b.neg.id /\ d.neg.suite = b.neg.suite
  BY <1>1, <1>2, DerivedKeeps
<1>4. Follows(c, d)
  BY <1>3 DEF Keeps, Follows
<1> QED
  BY <1>2, <1>3, <1>4

\* Follows, then Keeps.
LEMMA FollowsKeeps ==
  ASSUME NEW a, NEW b, NEW c, Follows(a, b), Keeps(b, c)
  PROVE  Follows(a, c)
  BY DEF Keeps, Follows

\* ssl_write_client_key_exchange, which derives the keys.
LEMMA WriteClientKeyExchangeStep ==
  ASSUME IInv, WriteClientKeyExchange
  PROVE  IInv'
<1> DEFINE c == ctx["client"]
           agrees == c.neg.suite \in DHE
           secret == IF agrees THEN <<c.dh, nonce>> ELSE <<c.max, nonce>>
           m == [msg |-> "ClientKeyExchange",
                 half |-> IF agrees THEN nonce ELSE None,
                 sealed |-> IF agrees THEN None ELSE <<c.neg.peer, secret>>]
           b == [Advance(c) EXCEPT !.premaster = secret]
<1>1. /\ At("client", "CLIENT_KEY_EXCHANGE") /\ UNCHANGED <<chain, saved, origin>>
      /\ Becomes("client", Sent(Derived(b), m))
  BY DEF WriteClientKeyExchange, envVars, cacheVars
<1>2. m.msg = "ClientKeyExchange"
  OBVIOUS
<1>3. /\ Keeps(c, Advance(c)) /\ Shape(Advance(c))
      /\ Advance(c).state = Following("CLIENT_KEY_EXCHANGE")
  BY <1>1, AtFacts, AdvanceKeeps DEF End, Keeps
<1>4. /\ Shape(b) /\ b.resume = Advance(c).resume /\ b.ses = Advance(c).ses
      /\ b.neg = Advance(c).neg /\ b.sum = Advance(c).sum /\ b.state = Advance(c).state
  <2> HIDE DEF secret
  <2> QED
    BY <1>3 DEF Shape
<1> HIDE DEF b, m, c
<1>5. Keeps(c, b) /\ b.state = Following("CLIENT_KEY_EXCHANGE")
  BY <1>3, <1>4, KeepsSum, KeepsTransitive
<1>6. /\ Follows(c, Derived(b)) /\ Shape(Derived(b))
      /\ Derived(b).state = Following("CLIENT_KEY_EXCHANGE")
  BY <1>5, DerivedFollows
<1>7. PICK d : d = Sent(Derived(b), m)
  OBVIOUS
<1>8. /\ Follows(c, d) /\ d.state = Following("CLIENT_KEY_EXCHANGE")
      /\ d.out.body.msg # "Finished"
  BY <1>2, <1>6, <1>7, SentKeeps, FollowsKeeps
<1> QED
  BY <1>1, <1>7, <1>8, KeyExchangeTurn DEF End, KeyExchange, c

\* ssl_parse_client_key_exchange, which derives the keys.
LEMMA ParseClientKeyExchangeStep ==
  ASSUME IInv, ParseClientKeyExchange
  PROVE  IInv'
<1>1. PICK a, x, b : /\ a = Advance(Received(ctx["server"], Incoming("server")))
                     /\ b = [a EXCEPT !.premaster = x]
                     /\ Consumes("server", Derived(b))
  BY DEF ParseClientKeyExchange
<1>2. /\ At("server", "CLIENT_KEY_EXCHANGE") /\ net["server"] # <<>>
      /\ UNCHANGED <<chain, saved, origin>>
  BY GetsFacts DEF ParseClientKeyExchange, envVars, cacheVars
<1>3. /\ Keeps(ctx["server"], a) /\ Shape(a) /\ a.out = None
      /\ a.state = Following("CLIENT_KEY_EXCHANGE")
  BY <1>1, <1>2, AtFacts, ReadAdvance DEF End, Keeps
<1>4. /\ Shape(b) /\ b.resume = a.resume /\ b.ses = a.ses /\ b.neg = a.neg
      /\ b.sum = a.sum /\ b.state = a.state /\ b.out = a.out
  BY <1>1, <1>3 DEF Shape
<1>5. Keeps(ctx["server"], b)
  BY <1>3, <1>4, KeepsSum, KeepsTransitive
<1>6. PICK d : d = Derived(b)
  OBVIOUS
<1>7. /\ Follows(ctx["server"], d) /\ d.state = Following("CLIENT_KEY_EXCHANGE")
      /\ d.out = None
  BY <1>3, <1>4, <1>5, <1>6, DerivedFollows
<1> QED
  BY <1>1, <1>2, <1>6, <1>7, KeyExchangeTurn DEF End, KeyExchange

\* ssl_write_certificate_verify and ssl_parse_certificate_verify.
LEMMA CertificateVerifyStep ==
  ASSUME IInv, WriteCertificateVerify \/ ParseCertificateVerify
  PROVE  IInv'
<1>1. CASE WriteCertificateVerify
  <2>1. /\ At("client", "CERTIFICATE_VERIFY") /\ UNCHANGED <<chain, saved, origin>>
        /\ \E m, d : /\ Becomes("client", d) /\ m.msg = "CertificateVerify"
                     /\ d = Advance(ctx["client"]) \/ d = Sent(Advance(ctx["client"]), m)
    <3> DEFINE m == [msg |-> "CertificateVerify", signed |-> Transcript(ctx["client"]),
                     by |-> Own("client")]
    <3>1. m.msg = "CertificateVerify"
      OBVIOUS
    <3>2. \E d : /\ Becomes("client", d)
                 /\ d = Advance(ctx["client"]) \/ d = Sent(Advance(ctx["client"]), m)
      BY <1>1 DEF WriteCertificateVerify
    <3> HIDE DEF m
    <3>3. \E n, d : /\ Becomes("client", d) /\ n.msg = "CertificateVerify"
                    /\ d = Advance(ctx["client"]) \/ d = Sent(Advance(ctx["client"]), n)
      BY <3>1, <3>2
    <3> QED
      BY <1>1, <3>3 DEF WriteCertificateVerify, envVars, cacheVars
  <2>2. PICK m, d : /\ Becomes("client", d) /\ m.msg = "CertificateVerify"
                    /\ d = Advance(ctx["client"]) \/ d = Sent(Advance(ctx["client"]), m)
    BY <2>1
  <2>3. Keeps(ctx["client"], d) /\ d.state = Following("CERTIFICATE_VERIFY")
        /\ (d.out = None \/ d.out.body.msg # "Finished")
    BY <2>1, <2>2, AtFacts, AdvanceKeeps, AdvanceSent DEF End
  <2> QED
    BY <2>1, <2>2, <2>3, KeepsFollows, KeyExchangeTurn DEF End, KeyExchange
<1>2. CASE ParseCertificateVerify
  <2>1. /\ At("server", "CERTIFICATE_VERIFY") /\ UNCHANGED <<chain, saved, origin>>
        /\ \E a, d :
             \/ /\ net["server"] # <<>> /\ Consumes("server", d)
                /\ a = Advance(Received(ctx["server"], Incoming("server")))
                /\ d = a \/ d = Fail(a, "signature")
             \/ Becomes("server", d) /\ d = Advance(ctx["server"])
    BY <1>2, GetsFacts DEF ParseCertificateVerify, envVars, cacheVars
  <2>2. PICK a, d :
             \/ /\ net["server"] # <<>> /\ Consumes("server", d)
                /\ a = Advance(Received(ctx["server"], Incoming("server")))
                /\ d = a \/ d = Fail(a, "signature")
             \/ Becomes("server", d) /\ d = Advance(ctx["server"])
    BY <2>1
  <2>3. Keeps(ctx["server"], d) /\ d.out = None
        /\ (d.state = Following("CERTIFICATE_VERIFY") \/ d.end # "no")
    <3>1. CASE a = Advance(Received(ctx["server"], Incoming("server")))
               /\ (d = a \/ d = Fail(a, "signature"))
      <4>1. Keeps(ctx["server"], a) /\ a.state = Following("CERTIFICATE_VERIFY")
            /\ a.out = None
        BY <2>1, <3>1, AtFacts, ReadAdvance DEF End
      <4> QED
        BY <3>1, <4>1, MayFail
    <3>2. CASE d = Advance(ctx["server"])
      BY <2>1, <3>2, AtFacts, AdvanceKeeps DEF End
    <3> QED
      BY <2>2, <3>1, <3>2
  <2>4. Becomes("server", d) \/ (net["server"] # <<>> /\ Consumes("server", d))
    BY <2>2
  <2> QED
    BY <2>1, <2>3, <2>4, KeepsFollows, KeyExchangeTurn DEF End, KeyExchange
<1> QED
  BY <1>1, <1>2

\* A turn behind the key exchange.
LEMMA FinishingTurn ==
  ASSUME IInv, NEW e \in End, NEW s \in ResumedStates \cup {"FLUSH_BUFFERS"}, At(e, s),
         UNCHANGED <<chain, saved, origin>>,
         NEW d, Becomes(e, d) \/ (net[e] # <<>> /\ Consumes(e, d)),
         Keeps(ctx[e], d), OutVouches(e, d),
         d.end # "no" \/ /\ d.state \in ResumedStates \cup {"FLUSH_BUFFERS"}
                         /\ ctx[e].resume => d.state \in ResumedStates
                         /\ Sure(e, d) => Sure(e, ctx[e]) \/ Negotiated(d.neg)
  PROVE  IInv'
<1>1. PICK c : c = ctx[e]
  OBVIOUS
<1>2. EndOK(e, c) /\ c.state = s /\ c.end = "no"
  BY <1>1, AtFacts
<1>3. EndOK(e, d)
  BY <1>1, <1>2, FinishingStep, EndedOK, KeepsFollows
<1> QED
  BY <1>3, BecomesStep, ConsumesStep

\* ssl_write_change_cipher_spec and ssl_parse_change_cipher_spec.
LEMMA ChangeCipherSpecStep ==
  ASSUME IInv, NEW e \in End, WriteChangeCipherSpec(e) \/ ParseChangeCipherSpec(e)
  PROVE  IInv'
<1>1. CASE WriteChangeCipherSpec(e)
  <2> DEFINE m == [msg |-> "ChangeCipherSpec"]
  <2>1. /\ At(e, SpecState(e)) /\ UNCHANGED <<chain, saved, origin>>
        /\ Becomes(e, Sent(Advance(ctx[e]), m))
    BY <1>1 DEF WriteChangeCipherSpec, envVars, cacheVars
  <2>2. m.msg = "ChangeCipherSpec"
    OBVIOUS
  <2> HIDE DEF m
  <2>3. PICK d, s : d = Sent(Advance(ctx[e]), m) /\ s = SpecState(e)
    OBVIOUS
  <2>4. /\ Keeps(ctx[e], d) /\ d.state = Following(s) /\ OutVouches(e, d)
        /\ ctx[e].state = s
    BY <2>1, <2>2, <2>3, AtFacts, AdvanceSent, OtherMessage
  <2>5. /\ s \in ResumedStates /\ d.state \in ResumedStates
        /\ Sure(e, d) => Sure(e, ctx[e])
    BY <2>3, <2>4, ServerStates DEF SpecState, End, ResumedStates, Sure, Keeps
  <2> QED
    BY <2>1, <2>3, <2>4, <2>5, FinishingTurn
<1>2. CASE ParseChangeCipherSpec(e)
  <2>1. PICK d, s : d = Advance(Received(ctx[e], Incoming(e))) /\ s = SpecState(Other(e))
    OBVIOUS
  <2>2. /\ At(e, s) /\ net[e] # <<>> /\ UNCHANGED <<chain, saved, origin>>
        /\ Consumes(e, d)
    BY <1>2, <2>1, GetsFacts DEF ParseChangeCipherSpec, envVars, cacheVars
  <2>3. /\ Keeps(ctx[e], d) /\ d.state = Following(s) /\ OutVouches(e, d)
        /\ ctx[e].state = s
    BY <2>1, <2>2, AtFacts, ReadAdvance, OtherMessage
  <2>4. /\ s \in ResumedStates /\ d.state \in ResumedStates
        /\ Sure(e, d) => Sure(e, ctx[e])
    BY <2>1, <2>3, ServerStates DEF SpecState, Other, End, ResumedStates, Sure, Keeps
  <2> QED
    BY <2>2, <2>3, <2>4, FinishingTurn
<1> QED
  BY <1>1, <1>2

\* SSL_FLUSH_BUFFERS.
LEMMA FlushBuffersStep ==
  ASSUME IInv, NEW e \in End, FlushBuffers(e)
  PROVE  IInv'
<1>1. PICK d : d = Advance(ctx[e])
  OBVIOUS
<1>2. /\ At(e, "FLUSH_BUFFERS") /\ UNCHANGED <<chain, saved, origin>> /\ Becomes(e, d)
  BY <1>1 DEF FlushBuffers, envVars, cacheVars
<1>3. /\ Keeps(ctx[e], d) /\ d.state = "HANDSHAKE_WRAPUP" /\ OutVouches(e, d)
      /\ Sure(e, ctx[e])
  BY <1>1, <1>2, AtFacts, AdvanceKeeps, OtherMessage, ServerStates DEF Sure
<1> QED
  BY <1>2, <1>3, FinishingTurn DEF ResumedStates

\* The client has read a hash that only the server's Finished can have.
LEMMA VouchedFor ==
  ASSUME IInv, NEW m, net["client"] # <<>>, m = Incoming("client"), m.msg = "Finished",
         NEW c, EndOK("client", c), c.end = "no", c.state = "SERVER_FINISHED",
         m.hash = FinishedBy("server", c)
  PROVE  Negotiated(c.neg)
<1>1. Vouches(m)
  <2>1. 1 \in 1..Len(net["client"]) /\ Head(net["client"]) = net["client"][1]
    BY HeadOf DEF IInv, NetOK
  <2> QED
    BY <2>1 DEF IInv, NetOK, Incoming
<1>2. m.hash[2] = c.neg.master /\ m.hash[3] = c.sum
  BY DEF FinishedBy, PRF, Transcript
<1>3. c.sum[2].id = c.neg.id /\ c.sum[2].suite = c.neg.suite
  BY DEF EndOK, HelloSecond, Early
<1> QED
  BY <1>1, <1>2, <1>3 DEF Vouches, Negotiated

\* ssl_parse_finished: the client learns that the server has the session of this
\* transcript, because the hash covers the ServerHello and the master secret.
LEMMA ParseFinishedStep ==
  ASSUME IInv, NEW e \in End, ParseFinished(e)
  PROVE  IInv'
<1> DEFINE m == Incoming(e)
           c == ctx[e]
           r == Received(c, m)
           b == [r EXCEPT !.tin = InKey(e, c)]
           right == [b EXCEPT !.peer = FinishedBy(Other(e), c), !.state = AfterReading(e, b)]
<1>1. PICK s : s = FinishedState(Other(e))
  OBVIOUS
<1>2. /\ At(e, s) /\ net[e] # <<>> /\ UNCHANGED <<chain, saved, origin>>
      /\ m.msg = "Finished"
  BY <1>1, GetsFacts DEF ParseFinished, envVars, cacheVars
<1>3. PICK d : /\ Consumes(e, d)
               /\ \/ m.hash = FinishedBy(Other(e), c) /\ d = right
                  \/ d = Fail(b, "finished")
  BY DEF ParseFinished
<1>4. EndOK(e, c) /\ Shape(c) /\ c.state = s /\ c.end = "no" /\ c.out = None
  BY <1>2, AtFacts
<1>5. Keeps(c, r) /\ Shape(r) /\ r.state = s /\ r.out = None /\ r.neg = c.neg
  BY <1>4, ReceivedKeeps DEF Keeps
<1>6. /\ Shape(b) /\ b.resume = r.resume /\ b.ses = r.ses /\ b.neg = r.neg
      /\ b.sum = r.sum /\ b.state = r.state /\ b.out = r.out
  <2> HIDE DEF r
  <2> QED
    BY <1>5 DEF Shape
<1>7. Keeps(c, b) /\ Shape(b) /\ b.state = s /\ b.out = None /\ b.neg = c.neg
      /\ b.resume = c.resume
  <2> HIDE DEF b, r
  <2>1. Keeps(c, b)
    BY <1>5, <1>6, KeepsSum, KeepsTransitive
  <2> QED
    BY <1>5, <1>6, <2>1 DEF Keeps
<1>8. /\ Shape(right) /\ right.resume = b.resume /\ right.ses = b.ses /\ right.neg = b.neg
      /\ right.sum = b.sum /\ right.out = b.out /\ right.state = AfterReading(e, b)
  <2> HIDE DEF b
  <2> QED
    BY <1>7 DEF Shape
<1> HIDE DEF b, r, right, m, c
<1>9. Keeps(c, right) /\ right.out = None /\ right.neg = c.neg /\ right.resume = c.resume
  BY <1>7, <1>8, KeepsSum, KeepsTransitive
<1>10. Keeps(c, d) /\ d.out = None /\ OutVouches(e, d)
  BY <1>3, <1>7, <1>9, MayFail, OtherMessage
<1>11. d.end # "no" \/ /\ d.state \in ResumedStates \cup {"FLUSH_BUFFERS"}
                       /\ c.resume => d.state \in ResumedStates
                       /\ Sure(e, d) => Sure(e, c) \/ Negotiated(d.neg)
  <2>1. CASE d = Fail(b, "finished")
    BY <1>7, <2>1, MayFail, FailKeeps
  <2>2. CASE d = right /\ m.hash = FinishedBy(Other(e), c) /\ e = "client"
    <3>1. d.state = IF c.resume THEN "CLIENT_CHANGE_CIPHER_SPEC" ELSE "FLUSH_BUFFERS"
      BY <1>1, <1>7, <1>8, <2>2, ServerStates DEF AfterReading, FinishedState, Other
    <3>2. Negotiated(c.neg)
      <4>1. s = "SERVER_FINISHED" /\ Other(e) = "server"
        BY <1>1, <2>2 DEF FinishedState, Other
      <4> QED
        BY <1>2, <1>4, <2>2, <4>1, VouchedFor DEF m
    <3> QED
      BY <1>9, <2>2, <3>1, <3>2 DEF ResumedStates
  <2>3. CASE d = right /\ e = "server"
    <3>1. s = "CLIENT_FINISHED"
          /\ d.state = IF c.resume THEN "HANDSHAKE_WRAPUP" ELSE "SERVER_CHANGE_CIPHER_SPEC"
      BY <1>1, <1>7, <1>8, <2>3, ServerStates DEF AfterReading, FinishedState, Other
    <3>2. Sure(e, d) => Sure(e, c)
      BY <1>4, <1>9, <2>3, <3>1 DEF Sure
    <3> QED
      BY <3>1, <3>2 DEF ResumedStates
  <2> QED
    BY <1>3, <2>1, <2>2, <2>3 DEF End
<1>12. s \in ResumedStates
  BY <1>1 DEF FinishedState, Other, End, ResumedStates
<1> QED
  BY <1>2, <1>3, <1>10, <1>11, <1>12, FinishingTurn DEF c

\* The server's Finished: of a session it has found in its cache, or that is its own now.
LEMMA WriteFinishedStep ==
  ASSUME IInv, NEW e \in End, WriteFinished(e)
  PROVE  IInv'
<1> DEFINE n == [msg |-> "Finished", hash |-> FinishedBy(e, ctx[e])]
           q == [ctx[e] EXCEPT !.own = n.hash, !.tout = OutKey(e, ctx[e]),
                               !.state = AfterWriting(e, ctx[e])]
<1>1. PICK c, s, m, b, d : c = ctx[e] /\ s = FinishedState(e) /\ m = n /\ b = q /\ d = Sent(b, m)
  OBVIOUS
<1>2. /\ At(e, s) /\ Becomes(e, d) /\ UNCHANGED <<chain, saved>>
      /\ origin' = IF e = "server" /\ ~c.resume THEN origin \cup {c.neg} ELSE origin
  BY <1>1 DEF WriteFinished, cacheVars
<1>3. EndOK(e, c) /\ Shape(c) /\ c.state = s /\ c.end = "no"
  BY <1>1, <1>2, AtFacts
<1>4. m.msg = "Finished" /\ m.hash[2] = c.neg.master /\ m.hash[3] = c.sum
  BY <1>1 DEF FinishedBy, PRF, Transcript
<1>5. /\ Shape(b) /\ b.resume = c.resume /\ b.ses = c.ses /\ b.neg = c.neg
      /\ b.sum = c.sum /\ b.end = c.end /\ b.state = AfterWriting(e, c)
  <2> HIDE DEF n
  <2> QED
    BY <1>1, <1>3 DEF Shape
<1>6. /\ Keeps(c, d) /\ d.state = AfterWriting(e, c) /\ d.end = "no" /\ d.neg = c.neg
      /\ d.out.body = m
  <2>1. Keeps(c, b)
    BY <1>3, <1>5, KeepsSum
  <2>2. Keeps(b, d) /\ d.state = b.state /\ d.end = b.end /\ d.out.body = m /\ d.neg = b.neg
    <3> HIDE DEF n, q
    <3> QED
      BY <1>1, <1>5, SentKeeps
  <2> QED
    BY <1>3, <1>5, <2>1, <2>2, KeepsTransitive
<1> HIDE DEF n, q
<1>7. c.sum[2].id = c.neg.id /\ c.sum[2].suite = c.neg.suite
  BY <1>1, <1>3 DEF EndOK, HelloSecond, Early, FinishedState
<1>8. origin \subseteq origin' /\ (Negotiated(c.neg) => Negotiated(c.neg)')
  BY <1>2 DEF Negotiated
<1>9. e = "server" => Negotiated(c.neg)'
  <2>1. CASE e = "server" /\ c.resume
    BY <1>1, <1>3, <1>8, <2>1 DEF EndOK, Sure, FinishedState
  <2>2. CASE e = "server" /\ ~c.resume
    BY <1>2, <2>2 DEF Negotiated
  <2> QED
    BY <2>1, <2>2
<1>10. OutVouches(e, d)'
  BY <1>4, <1>6, <1>7, <1>9 DEF OutVouches, Vouches, Negotiated
<1>11. d.state \in ResumedStates \cup {"FLUSH_BUFFERS"} /\ (c.resume => d.state \in ResumedStates)
  BY <1>1, <1>3, <1>6, ServerStates DEF AfterWriting, FinishedState, End, ResumedStates
<1>12. Sure(e, d) => Negotiated(d.neg)'
  <2>1. CASE e = "server"
    BY <1>6, <1>9, <2>1
  <2>2. CASE e = "client"
    <3>1. s = "CLIENT_FINISHED"
          /\ d.state = IF c.resume THEN "HANDSHAKE_WRAPUP" ELSE "SERVER_CHANGE_CIPHER_SPEC"
      BY <1>1, <1>3, <1>6, <2>2, ServerStates DEF AfterWriting, FinishedState
    <3>2. Sure(e, d) => Sure(e, c)
      BY <1>3, <1>6, <2>2, <3>1 DEF Sure, Keeps
    <3> QED
      BY <1>3, <1>6, <1>8, <3>2 DEF EndOK
  <2> QED
    BY <2>1, <2>2 DEF End
<1>13. HelloSecond(d) /\ HelloAtHand(e, d) /\ ResumesShort(d)
  <2>1. s \in ResumedStates
    BY <1>1 DEF FinishedState, End, ResumedStates
  <2>2. HelloSecond(d)
    BY <1>3, <1>6, <1>11, <2>1 DEF EndOK, HelloSecond, Keeps, ResumedStates, Early
  <2> QED
    BY <1>6, <1>11, <2>2 DEF HelloAtHand, ResumesShort, Keeps, ResumedStates
<1>14. SessionOK(d.ses)'
  BY <1>2, <1>3, <1>6, <1>8 DEF EndOK, SessionOK, Negotiated, Keeps
<1>15. EndOK(e, d)'
  BY <1>6, <1>10, <1>12, <1>13, <1>14 DEF EndOK, Keeps
<1> QED
  BY <1>2, <1>8, <1>15, GrowingTurn DEF Becomes

\* ssl_cache_set keeps the cache to sessions the server has negotiated, if the one that
\* comes in is.
LEMMA PutOK ==
  ASSUME CacheOK, NEW s, Negotiated(s), Put(s), origin' = origin
  PROVE  CacheOK'
<1>1. \A p, t : Negotiated(Entry(s, p, t))
  BY DEF Negotiated, Entry
<1>2. \A en : Negotiated(Reused(en, s))
  BY <1>1 DEF Reused
<1>3. PICK en, i : /\ Negotiated(en)
                   /\ chain' = [chain EXCEPT ![i] = en] \/ chain' = Append(chain, en)
  <2>1. CASE Reusable(s) # {}
    BY <1>2, <2>1 DEF Put
  <2>2. CASE Reusable(s) = {} /\ chain # <<>> /\ Len(chain) >= MaxEntries
    BY <1>1, <2>2 DEF Put
  <2>3. CASE Reusable(s) = {} /\ ~(chain # <<>> /\ Len(chain) >= MaxEntries)
    BY <1>1, <2>3 DEF Put
  <2> QED
    BY <2>1, <2>2, <2>3
<1>4. CASE chain' = [chain EXCEPT ![i] = en]
  <2>1. Sequence(chain') /\ Len(chain') = Len(chain)
        /\ \A j \in 1..Len(chain) : chain'[j] = IF j = i THEN en ELSE chain[j]
    <3>1. PICK ch : ch = chain'
      OBVIOUS
    <3>2. Replaces(ch, chain, i, en) /\ Sequence(chain)
      BY <1>4, <3>1 DEF CacheOK, Replaces
    <3>3. Sequence(ch) /\ Len(ch) = Len(chain)
          /\ \A j \in 1..Len(chain) : ch[j] = IF j = i THEN en ELSE chain[j]
      BY <3>2, ReplaceIn
    <3> QED
      BY <3>1, <3>3
  <2>2. \A j \in 1..Len(chain') : Negotiated(chain'[j])
    BY <1>3, <2>1 DEF CacheOK
  <2> QED
    BY <2>1, <2>2 DEF CacheOK, Negotiated
<1>5. CASE chain' = Append(chain, en)
  <2>1. Sequence(chain') /\ Len(chain) \in Nat /\ Len(chain') = Len(chain) + 1
        /\ (\A j \in 1..Len(chain) : chain'[j] = chain[j]) /\ chain'[Len(chain) + 1] = en
    BY <1>5, AppendTo DEF CacheOK
  <2>2. ASSUME NEW j \in 1..Len(chain') PROVE Negotiated(chain'[j])
    <3>1. j \in 1..Len(chain) \/ j = Len(chain) + 1
      BY <2>1
    <3> QED
      BY <1>3, <2>1, <3>1 DEF CacheOK
  <2> QED
    BY <2>1, <2>2 DEF CacheOK, Negotiated
<1> QED
  BY <1>3, <1>4, <1>5

\* Behind the wrapup nothing is left of a handshake.
LEMMA HandshakeInitKeeps ==
  ASSUME NEW c, Shape(c)
  PROVE  /\ Shape(HandshakeInit(c)) /\ HandshakeInit(c).sum = <<>>
         /\ HandshakeInit(c).state = c.state /\ HandshakeInit(c).end = c.end
         /\ HandshakeInit(c).out = c.out /\ HandshakeInit(c).msg = c.msg
         /\ HandshakeInit(c).ses = c.ses /\ HandshakeInit(c).reneg = c.reneg
         /\ HandshakeInit(c).resume = FALSE
<1> DEFINE d == HandshakeInit(c)
<1>1. /\ DOMAIN d = DOMAIN c /\ d.sum = <<>> /\ d.state = c.state /\ d.end = c.end
      /\ d.out = c.out /\ d.msg = c.msg /\ d.ses = c.ses /\ d.reneg = c.reneg
      /\ d.resume = FALSE /\ d.neg = NewSession
  BY DEF HandshakeInit, Shape
<1>2. {"id", "suite", "master"} \subseteq DOMAIN d.neg
  BY <1>1 DEF NewSession
<1>3. Sequence(d.sum)
  BY <1>1, EmptySeq DEF Sequence
<1> QED
  BY <1>1, <1>2, <1>3 DEF Shape

\* ssl_handshake_wrapup, with which the session reaches the cache.
LEMMA WrapupStep ==
  ASSUME IInv, NEW e \in End, Wrapup(e)
  PROVE  IInv'
<1>1. PICK c, a, b, d : /\ c = ctx[e] /\ a = Advance(c) /\ b = [a EXCEPT !.ses = c.neg]
                        /\ d = HandshakeInit(b)
  OBVIOUS
<1>2. /\ At(e, "HANDSHAKE_WRAPUP") /\ Becomes(e, d) /\ UNCHANGED <<saved, origin>>
      /\ IF e = "server" THEN Put(c.neg) ELSE UNCHANGED chain
  BY <1>1 DEF Wrapup, envVars
<1>3. /\ EndOK(e, c) /\ Shape(c) /\ c.end = "no" /\ c.out = None
      /\ c.state = "HANDSHAKE_WRAPUP"
  BY <1>1, <1>2, AtFacts
<1>4. Negotiated(c.neg)
  BY <1>3 DEF EndOK, Sure
<1>5. Shape(a) /\ a.state = "HANDSHAKE_OVER" /\ a.out = None
  BY <1>1, <1>3, AdvanceKeeps, ServerStates DEF Keeps
<1>6. /\ Shape(b) /\ b.state = a.state /\ b.out = a.out /\ b.ses = c.neg
  BY <1>1, <1>5 DEF Shape
<1>7. /\ Shape(d) /\ d.state = "HANDSHAKE_OVER" /\ d.out = None /\ d.ses = c.neg
      /\ d.resume = FALSE
  BY <1>1, <1>5, <1>6, HandshakeInitKeeps
<1>8. SessionOK(d.ses)
  BY <1>3, <1>4, <1>7 DEF SessionOK, Shape
<1>9. EndOK(e, d)
  BY <1>7, <1>8, OtherMessage
  DEF EndOK, HelloSecond, HelloAtHand, ResumesShort, Sure, Early
<1>10. CacheOK'
  BY <1>2, <1>4, PutOK DEF IInv, CacheOK, Negotiated
<1>11. PICK f : f = [ctx EXCEPT ![e] = d]
  OBVIOUS
<1>12. DOMAIN f = End /\ \A x \in End : EndOK(x, f[x])
  BY <1>9, <1>11 DEF IInv
<1>13. /\ ctx' = f /\ net' = net /\ saved' = saved /\ origin' = origin
  BY <1>2, <1>11 DEF Becomes
<1>14. \A x \in End : EndOK(x, f[x])'
  BY <1>12, <1>13, EndOKGrows
<1>15. \A x \in End : EndOK(x, ctx[x])'
  BY <1>13, <1>14 DEF EndOK, SessionOK, Negotiated, OutVouches, Vouches
<1>16. NetOK' /\ SavedOK' /\ DOMAIN net' = End /\ DOMAIN ctx' = End
  BY <1>12, <1>13
  DEF IInv, NetOK, SavedOK, Vouches, SessionOK, Negotiated
<1> QED
  BY <1>10, <1>15, <1>16 DEF IInv

-----------------------------------------------------------------------------
(* The hellos                                                               *)

LEMMA StartStep ==
  ASSUME IInv, NEW e \in End, Start(e)
  PROVE  IInv'
<1>1. PICK c, d : c = ctx[e] /\ d = Advance(c)
  OBVIOUS
<1>2. At(e, "HELLO_REQUEST") /\ Becomes(e, d) /\ UNCHANGED <<chain, saved, origin>>
  BY <1>1 DEF Start, envVars, cacheVars
<1>3. /\ EndOK(e, c) /\ Shape(c) /\ c.end = "no" /\ c.out = None
      /\ c.state = "HELLO_REQUEST"
  BY <1>1, <1>2, AtFacts
<1>4. /\ Shape(d) /\ d.state = "CLIENT_HELLO" /\ d.out = None /\ d.msg = c.msg
      /\ d.reneg = c.reneg /\ d.sum = c.sum /\ d.ses = c.ses
  BY <1>1, <1>3, AdvanceKeeps, ServerStates DEF Keeps
<1>5. HelloSecond(d) /\ HelloAtHand(e, d) /\ ResumesShort(d) /\ ~Sure(e, d)
  BY <1>3, <1>4 DEF EndOK, HelloSecond, HelloAtHand, ResumesShort, Sure, Early
<1>6. EndOK(e, d)
  BY <1>3, <1>4, <1>5, OtherMessage DEF EndOK
<1> QED
  BY <1>2, <1>6, BecomesStep

\* ssl_write_client_hello, the first message of a transcript.
LEMMA WriteClientHelloStep ==
  ASSUME IInv, WriteClientHello
  PROVE  IInv'
<1> DEFINE hello(c) == [msg |-> "ClientHello", max |-> c.max, random |-> nonce,
                        id |-> IF c.reneg \/ ~c.resume THEN None ELSE c.neg.id,
                        suites |-> conf.csuites,
                        info |-> IF c.reneg THEN <<c.own>> ELSE <<>>]
           opened(c) == [Advance(c) EXCEPT !.minor = IF c.reneg THEN @ ELSE conf.cmin,
                                           !.rc = nonce]
<1>1. PICK c, m, a, b, d : /\ c = ctx["client"] /\ m = hello(c) /\ a = Advance(c)
                           /\ b = opened(c) /\ d = Sent(b, m)
  OBVIOUS
<1>2. At("client", "CLIENT_HELLO") /\ Becomes("client", d) /\ UNCHANGED <<chain, saved, origin>>
  BY <1>1 DEF WriteClientHello, envVars, cacheVars
<1>3. m.msg = "ClientHello"
  BY <1>1
<1>4. /\ EndOK("client", c) /\ Shape(c) /\ c.end = "no" /\ c.state = "CLIENT_HELLO"
      /\ c.sum = <<>>
  BY <1>1, <1>2, AtFacts DEF End, EndOK, HelloSecond
<1>5. Shape(a) /\ a.state = "SERVER_HELLO" /\ a.sum = <<>> /\ a.ses = c.ses
  BY <1>1, <1>4, AdvanceKeeps, ServerStates DEF Keeps
<1>6. Shape(b) /\ b.state = a.state /\ b.sum = a.sum /\ b.ses = a.ses
  BY <1>1, <1>5 DEF Shape
<1> HIDE DEF hello, opened
<1>7. /\ Shape(d) /\ d.state = "SERVER_HELLO" /\ d.ses = c.ses /\ d.sum = Append(<<>>, m)
      /\ d.out.body = m
  BY <1>1, <1>3, <1>5, <1>6, SentKeeps DEF Keeps, HandshakeMessages
<1>8. Len(d.sum) = 1
  BY <1>7
<1>9. HelloSecond(d) /\ HelloAtHand("client", d) /\ ResumesShort(d) /\ ~Sure("client", d)
  BY <1>7, <1>8 DEF HelloSecond, HelloAtHand, ResumesShort, Sure, Early
<1>10. EndOK("client", d)
  BY <1>3, <1>4, <1>7, <1>9, OtherMessage DEF EndOK
<1> QED
  BY <1>2, <1>10, BecomesStep DEF End

\* ssl_parse_client_hello.
LEMMA ParseClientHelloStep ==
  ASSUME IInv, ParseClientHello
  PROVE  IInv'
<1>1. PICK c, h : /\ c = ctx["server"]
                  /\ h = IF c.reneg THEN c.msg ELSE Incoming("server")
  OBVIOUS
<1>2. PICK x, b, y, z, w, v, u, t, d :
        /\ x = Hashed(c, h) /\ b = [x EXCEPT !.msg = h, !.minor = y]
        /\ t = [b EXCEPT !.max = z, !.rc = w, !.neg.id = v, !.neg.suite = u]
        /\ \/ d = Abort(b, "version") \/ d = Fail(t, "nocipher")
           \/ d = Abort(t, "renegotiation") \/ d = Advance(t)
        /\ \/ c.reneg /\ Becomes("server", d)
           \/ Gets("server", "CLIENT_HELLO", {"ClientHello"}) /\ Consumes("server", d)
  <2> DEFINE minor == IF h.max <= 3 THEN h.max ELSE 3
             suite == Chosen(h, minor)
             b == [Hashed(c, h) EXCEPT !.msg = h, !.minor = minor]
             t == [b EXCEPT !.max = h.max, !.rc = h.random,
                            !.neg.id = h.id, !.neg.suite = suite]
             d == CASE minor < conf.smin -> Abort(b, "version")
                    [] minor >= conf.smin /\ suite = None -> Fail(t, "nocipher")
                    [] minor >= conf.smin /\ suite # None /\ c.reneg /\ h.info # <<c.peer>>
                         -> Abort(t, "renegotiation")
                    [] OTHER -> Advance(t)
  <2>1. \/ c.reneg /\ Becomes("server", d)
        \/ Gets("server", "CLIENT_HELLO", {"ClientHello"}) /\ Consumes("server", d)
    BY <1>1 DEF ParseClientHello
  <2>2. \/ d = Abort(b, "version") \/ d = Fail(t, "nocipher")
        \/ d = Abort(t, "renegotiation") \/ d = Advance(t)
    <3> HIDE DEF b, t, minor, suite
    <3> QED
      OBVIOUS
  <2> HIDE DEF d
  <2> QED
    BY <2>1, <2>2
<1>3. /\ At("server", "CLIENT_HELLO") /\ UNCHANGED <<chain, saved, origin>>
  BY DEF ParseClientHello, envVars, cacheVars
<1>4. /\ EndOK("server", c) /\ Shape(c) /\ c.end = "no" /\ c.out = None
      /\ c.state = "CLIENT_HELLO" /\ c.sum = <<>>
  BY <1>1, <1>3, AtFacts DEF End, EndOK, HelloSecond
<1>5. Becomes("server", d) \/ (net["server"] # <<>> /\ Consumes("server", d))
  BY <1>2, GetsFacts
<1>6. h.msg = "ClientHello"
  <2>1. CASE c.reneg
    BY <1>1, <1>4, <2>1 DEF EndOK, HelloAtHand
  <2>2. CASE ~c.reneg
    BY <1>1, <1>2, <2>2, GetsFacts
  <2> QED
    BY <2>1, <2>2
<1>7. /\ Shape(x) /\ x.state = c.state /\ x.sum = Append(c.sum, h) /\ x.ses = c.ses
      /\ x.out = None /\ x.neg = c.neg /\ x.end = "no"
  BY <1>2, <1>4, <1>6, HashedKeeps DEF Keeps, HandshakeMessages
<1>8. /\ Shape(b) /\ b.state = "CLIENT_HELLO" /\ b.sum = x.sum /\ b.ses = c.ses
      /\ b.out = None /\ b.neg = c.neg /\ b.end = "no"
  <2>1. b = [x EXCEPT !.msg = h, !.minor = y]
    BY <1>2
  <2> QED
    BY <1>4, <1>7, <2>1 DEF Shape
<1>9. /\ Shape(t) /\ t.state = "CLIENT_HELLO" /\ t.sum = x.sum /\ t.ses = c.ses
      /\ t.out = None /\ t.end = "no"
  <2>1. t = [b EXCEPT !.max = z, !.rc = w, !.neg.id = v, !.neg.suite = u]
    BY <1>2
  <2>2. /\ DOMAIN t = DOMAIN b /\ t.state = b.state /\ t.sum = b.sum /\ t.ses = b.ses
        /\ t.out = b.out /\ t.end = b.end
        /\ t.neg = [[b.neg EXCEPT !.id = v] EXCEPT !.suite = u]
    BY <1>8, <2>1 DEF Shape
  <2>3. DOMAIN t.neg = DOMAIN b.neg
    BY <2>2
  <2> QED
    BY <1>8, <2>2, <2>3 DEF Shape
<1>10. CASE d = Abort(b, "version") \/ d = Fail(t, "nocipher") \/ d = Abort(t, "renegotiation")
  <2>1. Shape(d) /\ d.ses = c.ses /\ d.end # "no" /\ OutVouches("server", d)
    BY <1>8, <1>9, <1>10, AbortKeeps, FailKeeps, OtherMessage DEF Keeps
  <2>2. EndOK("server", d)
    BY <1>4, <2>1 DEF EndOK
  <2> QED
    BY <1>3, <1>5, <2>2, BecomesStep, ConsumesStep DEF End
<1>11. CASE d = Advance(t)
  <2>1. /\ Shape(d) /\ d.state = "SERVER_HELLO" /\ d.sum = x.sum /\ d.ses = c.ses
        /\ d.out = None
    BY <1>9, <1>11, AdvanceKeeps, ServerStates DEF Keeps
  <2>2. Len(d.sum) = 1
    BY <1>4, <1>7, <2>1
  <2>3. HelloSecond(d) /\ HelloAtHand("server", d) /\ ResumesShort(d) /\ ~Sure("server", d)
    BY <2>1, <2>2 DEF HelloSecond, HelloAtHand, ResumesShort, Sure, Early
  <2>4. EndOK("server", d)
    BY <1>4, <2>1, <2>3, OtherMessage DEF EndOK
  <2> QED
    BY <1>3, <1>5, <2>4, BecomesStep, ConsumesStep DEF End
<1> QED
  BY <1>2, <1>10, <1>11

\* The session that ssl_cache_get brings is one the server has negotiated.
LEMMA RestoredNegotiated ==
  ASSUME CacheOK, NEW s, {"id", "suite", "master"} \subseteq DOMAIN s, Matches(s) # {}
  PROVE  /\ Negotiated(Restored(s))
         /\ {"id", "suite", "master"} \subseteq DOMAIN Restored(s)
<1>1. Len(chain) \in Nat
  <2>1. PICK S : chain \in Seq(S)
    BY DEF CacheOK, Sequence
  <2> QED
    BY <2>1
<1>2. Matches(s) \subseteq Nat
  BY <1>1 DEF Matches
<1>3. PICK i : i = First(Matches(s))
  OBVIOUS
<1>4. i \in Matches(s)
  BY <1>2, <1>3, FirstIsFirst
<1>5. Negotiated(chain[i]) /\ chain[i].id = s.id /\ chain[i].suite = s.suite
  BY <1>4 DEF Matches, CacheOK
<1>6. PICK r : r = Restored(s)
  OBVIOUS
<1>7. DOMAIN r = DOMAIN s /\ r.id = s.id /\ r.suite = s.suite /\ r.master = chain[i].master
  BY <1>3, <1>6 DEF Restored
<1> QED
  BY <1>5, <1>6, <1>7 DEF Negotiated

\* The ServerHello goes into a transcript of one message.
LEMMA ServerHelloSecond ==
  ASSUME NEW s, Sequence(s), Len(s) = 1, NEW m
  PROVE  Len(Append(s, m)) >= 2 /\ Append(s, m)[2] = m
<1>1. Len(Append(s, m)) = Len(s) + 1 /\ Append(s, m)[Len(s) + 1] = m
  BY AppendTo
<1> QED
  BY <1>1

\* ssl_write_server_hello: a session from the cache, or a new one.
LEMMA WriteServerHelloStep ==
  ASSUME IInv, WriteServerHello
  PROVE  IInv'
<1>1. PICK o, c : o = ctx["server"] /\ c = [o EXCEPT !.rs = nonce]
  OBVIOUS
<1>2. PICK x, n, m, d :
        /\ \/ /\ Matches(c.neg) # {}
              /\ x = [c EXCEPT !.resume = TRUE, !.neg = Restored(c.neg),
                               !.state = "SERVER_CHANGE_CIPHER_SPEC"]
              /\ n = Derived(x)
           \/ x = Advance(c) /\ n = [x EXCEPT !.resume = FALSE, !.neg.id = nonce + 1]
        /\ m.msg = "ServerHello" /\ m.id = n.neg.id /\ m.suite = n.neg.suite
        /\ d = Sent(n, m)
        /\ Becomes("server", d)
  <2> DEFINE resumes == ~c.reneg /\ Matches(c.neg) # {}
             found == [c EXCEPT !.resume = TRUE, !.neg = Restored(c.neg),
                                !.state = "SERVER_CHANGE_CIPHER_SPEC"]
             fresh == [Advance(c) EXCEPT !.resume = FALSE, !.neg.id = nonce + 1]
             n == IF resumes THEN Derived(found) ELSE fresh
             m == [msg |-> "ServerHello", minor |-> c.minor, random |-> nonce,
                   id |-> n.neg.id, suite |-> n.neg.suite,
                   info |-> IF c.reneg THEN <<c.peer, c.own>> ELSE <<>>]
  <2>1. Becomes("server", Sent(n, m))
    BY <1>1 DEF WriteServerHello
  <2>2. \E x : \/ Matches(c.neg) # {} /\ x = found /\ n = Derived(x)
               \/ x = Advance(c) /\ n = [x EXCEPT !.resume = FALSE, !.neg.id = nonce + 1]
    <3>1. CASE resumes
      BY <3>1
    <3>2. CASE ~resumes
      BY <3>2
    <3> QED
      BY <3>1, <3>2
  <2> HIDE DEF n
  <2>3. m.msg = "ServerHello" /\ m.id = n.neg.id /\ m.suite = n.neg.suite
    OBVIOUS
  <2> HIDE DEF m
  <2> QED
    BY <2>1, <2>2, <2>3
<1>3. At("server", "SERVER_HELLO") /\ UNCHANGED <<chain, saved, origin>>
  BY DEF WriteServerHello, envVars, cacheVars
<1>4. /\ EndOK("server", o) /\ Shape(o) /\ o.state = "SERVER_HELLO" /\ o.end = "no"
      /\ Len(o.sum) = 1
  BY <1>1, <1>3, AtFacts DEF End, EndOK, HelloSecond, Early
<1>5. /\ Shape(c) /\ c.state = "SERVER_HELLO" /\ c.end = "no" /\ c.sum = o.sum
      /\ c.ses = o.ses
  BY <1>1, <1>4 DEF Shape
<1>6. /\ Shape(n) /\ n.sum = o.sum /\ n.ses = o.ses
      /\ \/ n.state = "SERVER_CHANGE_CIPHER_SPEC" /\ Negotiated(n.neg)
         \/ n.state = "SERVER_CERTIFICATE" /\ n.resume = FALSE
  <2>1. CASE /\ Matches(c.neg) # {} /\ n = Derived(x)
             /\ x = [c EXCEPT !.resume = TRUE, !.neg = Restored(c.neg),
                              !.state = "SERVER_CHANGE_CIPHER_SPEC"]
    <3>1. PICK r : r = Restored(c.neg)
      OBVIOUS
    <3>2. Negotiated(r) /\ {"id", "suite", "master"} \subseteq DOMAIN r
      BY <1>5, <2>1, <3>1, RestoredNegotiated DEF IInv, Shape
    <3>3. /\ DOMAIN x = DOMAIN c /\ x.resume = TRUE /\ x.neg = r /\ x.sum = c.sum
          /\ x.ses = c.ses /\ x.state = "SERVER_CHANGE_CIPHER_SPEC"
      BY <1>5, <2>1, <3>1 DEF Shape
    <3>4. Shape(x)
      BY <1>5, <3>2, <3>3 DEF Shape
    <3>5. /\ Shape(n) /\ n.sum = x.sum /\ n.ses = x.ses /\ n.state = x.state
          /\ n.neg.id = r.id /\ n.neg.suite = r.suite /\ n.neg.master = r.master
      BY <2>1, <3>3, <3>4, DerivedKeeps
    <3>6. Negotiated(n.neg)
      BY <3>2, <3>5 DEF Negotiated
    <3> QED
      BY <1>5, <3>3, <3>5, <3>6
  <2>2. CASE x = Advance(c) /\ n = [x EXCEPT !.resume = FALSE, !.neg.id = nonce + 1]
    <3>1. Shape(x) /\ x.state = "SERVER_CERTIFICATE" /\ x.sum = c.sum /\ x.ses = c.ses
      BY <1>5, <2>2, AdvanceKeeps, ServerStates DEF Keeps
    <3>2. n = [x EXCEPT !.resume = FALSE, !.neg.id = nonce + 1]
      BY <2>2
    <3>3. /\ DOMAIN n = DOMAIN x /\ n.sum = x.sum /\ n.ses = x.ses /\ n.state = x.state
          /\ n.resume = FALSE /\ n.neg = [x.neg EXCEPT !.id = nonce + 1]
      BY <3>1, <3>2 DEF Shape
    <3>4. DOMAIN n.neg = DOMAIN x.neg
      BY <3>3
    <3> QED
      BY <1>5, <3>1, <3>3, <3>4 DEF Shape
  <2> QED
    BY <1>2, <2>1, <2>2
<1>7. /\ Shape(d) /\ d.state = n.state /\ d.neg = n.neg /\ d.resume = n.resume
      /\ d.ses = o.ses /\ d.sum = Append(o.sum, m) /\ d.out.body = m
  <2>1. m.msg \in HandshakeMessages /\ d = Sent(n, m)
    BY <1>2 DEF HandshakeMessages
  <2> QED
    BY <1>6, <2>1, SentKeeps DEF Keeps
<1>8. Len(d.sum) >= 2 /\ d.sum[2].id = d.neg.id /\ d.sum[2].suite = d.neg.suite
  <2>1. Len(d.sum) >= 2 /\ d.sum[2] = m
    BY <1>4, <1>7, ServerHelloSecond DEF Shape
  <2>2. m.id = n.neg.id /\ m.suite = n.neg.suite
    BY <1>2
  <2> QED
    BY <1>7, <2>1, <2>2
<1>9. /\ HelloSecond(d) /\ HelloAtHand("server", d) /\ ResumesShort(d)
      /\ Sure("server", d) => Negotiated(d.neg)
  BY <1>6, <1>7, <1>8
  DEF HelloSecond, HelloAtHand, ResumesShort, Sure, Early, ResumedStates
<1>10. OutVouches("server", d)
  <2>1. m.msg = "ServerHello"
    BY <1>2
  <2> QED
    BY <1>7, <2>1, OtherMessage
<1>11. EndOK("server", d) /\ Becomes("server", d)
  BY <1>2, <1>4, <1>7, <1>9, <1>10 DEF EndOK
<1> QED
  BY <1>3, <1>11, BecomesStep DEF End

\* ssl_parse_server_hello.
LEMMA ServerHelloStep ==
  ASSUME IInv, RefuseServerHello \/ ParseServerHello
  PROVE  IInv'
<1>1. PICK o, h, r : o = ctx["client"] /\ h = Incoming("client") /\ r = Received(o, h)
  OBVIOUS
<1>2. /\ At("client", "SERVER_HELLO") /\ net["client"] # <<>> /\ h.msg = "ServerHello"
      /\ UNCHANGED <<chain, saved, origin>>
  BY <1>1, GetsFacts DEF RefuseServerHello, ParseServerHello, envVars, cacheVars
<1>3. /\ EndOK("client", o) /\ Shape(o) /\ o.state = "SERVER_HELLO" /\ o.end = "no"
      /\ o.out = None /\ Len(o.sum) = 1
  BY <1>1, <1>2, AtFacts DEF End, EndOK, HelloSecond, Early
<1>4. /\ Keeps(o, r) /\ Shape(r) /\ r.state = "SERVER_HELLO" /\ r.end = "no" /\ r.out = None
      /\ r.sum = Append(o.sum, h) /\ r.ses = o.ses
  BY <1>1, <1>2, <1>3, ReceivedKeeps DEF Keeps, HandshakeMessages
<1>5. CASE RefuseServerHello
  <2>1. PICK why, d : /\ Consumes("client", d) /\ why # "no"
                      /\ d = Abort(r, why) \/ d = Fail(r, why)
    BY <1>1, <1>5 DEF RefuseServerHello
  <2>2. Keeps(r, d) /\ d.end # "no" /\ OutVouches("client", d)
    BY <1>4, <2>1, AbortKeeps, FailKeeps DEF OutVouches
  <2>3. Keeps(o, d)
    BY <1>4, <2>2, KeepsTransitive
  <2> QED
    BY <1>1, <1>2, <2>1, <2>2, <2>3, EndingTurn DEF End
<1>6. CASE ParseServerHello
  <2>1. PICK c, x, d :
          /\ c = [r EXCEPT !.minor = h.minor, !.rs = h.random]
          /\ \/ /\ c.neg.id = h.id /\ c.neg.suite = h.suite
                /\ x = [c EXCEPT !.state = "SERVER_CHANGE_CIPHER_SPEC"]
                /\ d = Derived(x)
             \/ /\ x = Advance(c)
                /\ d = [x EXCEPT !.resume = FALSE, !.neg.id = h.id, !.neg.suite = h.suite]
          /\ Consumes("client", d)
    <3> DEFINE c == [r EXCEPT !.minor = h.minor, !.rs = h.random]
               resumes == /\ ~c.reneg /\ c.resume
                          /\ c.neg.id = h.id /\ c.neg.suite = h.suite
               x == IF resumes THEN [c EXCEPT !.state = "SERVER_CHANGE_CIPHER_SPEC"]
                    ELSE Advance(c)
               d == IF resumes THEN Derived(x)
                    ELSE [x EXCEPT !.resume = FALSE, !.neg.id = h.id, !.neg.suite = h.suite]
    <3>1. Consumes("client", d)
      BY <1>1, <1>6, Zenon DEF ParseServerHello
    <3>2. \/ /\ c.neg.id = h.id /\ c.neg.suite = h.suite
             /\ x = [c EXCEPT !.state = "SERVER_CHANGE_CIPHER_SPEC"]
             /\ d = Derived(x)
          \/ /\ x = Advance(c)
             /\ d = [x EXCEPT !.resume = FALSE, !.neg.id = h.id, !.neg.suite = h.suite]
      <4> HIDE DEF c
      <4> QED
        OBVIOUS
    <3> HIDE DEF d, x
    <3> QED
      BY <3>1, <3>2
  <2>2. /\ Shape(c) /\ c.state = "SERVER_HELLO" /\ c.sum = r.sum /\ c.ses = r.ses
        /\ c.out = None
    <3>1. c = [r EXCEPT !.minor = h.minor, !.rs = h.random]
      BY <2>1
    <3> QED
      BY <1>4, <3>1 DEF Shape
  <2>3. /\ Shape(d) /\ d.sum = r.sum /\ d.ses = r.ses /\ d.out = None
        /\ d.neg.id = h.id /\ d.neg.suite = h.suite
        /\ \/ d.state = "SERVER_CHANGE_CIPHER_SPEC"
           \/ d.state = "SERVER_CERTIFICATE" /\ d.resume = FALSE
    <3>1. CASE /\ c.neg.id = h.id /\ c.neg.suite = h.suite /\ d = Derived(x)
               /\ x = [c EXCEPT !.state = "SERVER_CHANGE_CIPHER_SPEC"]
      <4>1. /\ Shape(x) /\ x.sum = c.sum /\ x.ses = c.ses /\ x.neg = c.neg /\ x.out = c.out
            /\ x.state = "SERVER_CHANGE_CIPHER_SPEC"
        BY <2>2, <3>1 DEF Shape
      <4>2. d = Derived(x) /\ x.neg.id = h.id /\ x.neg.suite = h.suite
        BY <3>1, <4>1
      <4> QED
        BY <2>2, <4>1, <4>2, DerivedKeeps
    <3>2. CASE /\ x = Advance(c)
               /\ d = [x EXCEPT !.resume = FALSE, !.neg.id = h.id, !.neg.suite = h.suite]
      <4>1. /\ Shape(x) /\ x.state = "SERVER_CERTIFICATE" /\ x.sum = c.sum /\ x.ses = c.ses
            /\ x.out = None
        BY <2>2, <3>2, AdvanceKeeps, ServerStates DEF Keeps
      <4>2. d = [x EXCEPT !.resume = FALSE, !.neg.id = h.id, !.neg.suite = h.suite]
        BY <3>2
      <4>3. /\ DOMAIN d = DOMAIN x /\ d.sum = x.sum /\ d.ses = x.ses /\ d.state = x.state
            /\ d.resume = FALSE /\ d.out = x.out
            /\ d.neg = [[x.neg EXCEPT !.id = h.id] EXCEPT !.suite = h.suite]
        BY <4>1, <4>2 DEF Shape
      <4>4. DOMAIN d.neg = DOMAIN x.neg /\ d.neg.id = h.id /\ d.neg.suite = h.suite
        BY <4>1, <4>3 DEF Shape
      <4> QED
        BY <2>2, <4>1, <4>3, <4>4 DEF Shape
    <3> QED
      BY <2>1, <3>1, <3>2
  <2>4. Len(d.sum) >= 2 /\ d.sum[2] = h
    BY <1>3, <1>4, <2>3, ServerHelloSecond DEF Shape
  <2>5. HelloSecond(d) /\ HelloAtHand("client", d) /\ ResumesShort(d) /\ ~Sure("client", d)
    BY <2>3, <2>4 DEF HelloSecond, HelloAtHand, ResumesShort, Sure, Early, ResumedStates
  <2>6. EndOK("client", d) /\ Consumes("client", d)
    BY <1>3, <1>4, <2>1, <2>3, <2>5, OtherMessage DEF EndOK
  <2> QED
    BY <1>2, <2>6, ConsumesStep DEF End
<1> QED
  BY <1>5, <1>6

-----------------------------------------------------------------------------
(* Records that end a connection, and the applications                      *)

LEMMA FlushStep ==
  ASSUME IInv, NEW e \in End, Flush(e)
  PROVE  IInv'
<1>1. PICK c, d : c = ctx[e] /\ d = [c EXCEPT !.out = None]
  OBVIOUS
<1>2. /\ c.out # None /\ UNCHANGED <<chain, saved, origin>>
      /\ ctx' = [ctx EXCEPT ![e] = d]
      /\ net' = [net EXCEPT ![Other(e)] = Append(@, c.out)]
  BY <1>1 DEF Flush, envVars, cacheVars
<1>3. EndOK(e, c) /\ Shape(c)
  BY <1>1 DEF IInv, EndOK
<1>4. /\ DOMAIN d = DOMAIN c /\ d.state = c.state /\ d.end = c.end /\ d.out = None
      /\ d.sum = c.sum /\ d.ses = c.ses /\ d.neg = c.neg /\ d.resume = c.resume
      /\ d.reneg = c.reneg /\ d.msg = c.msg
  BY <1>1, <1>3 DEF Shape
<1>5. EndOK(e, d)
  BY <1>3, <1>4
  DEF EndOK, Shape, OutVouches, HelloSecond, HelloAtHand, ResumesShort, Sure
<1>6. NetOK'
  <2>1. CASE e = "server"
    <3>1. net'["client"] = Append(net["client"], c.out) /\ Vouches(c.out.body)
      BY <1>2, <1>3, <2>1 DEF Other, IInv, End, EndOK, OutVouches
    <3>2. /\ Sequence(net'["client"]) /\ Len(net["client"]) \in Nat
          /\ Len(net'["client"]) = Len(net["client"]) + 1
          /\ \A i \in 1..Len(net["client"]) : net'["client"][i] = net["client"][i]
          /\ net'["client"][Len(net["client"]) + 1] = c.out
      BY <3>1, AppendTo DEF IInv, NetOK
    <3>3. ASSUME NEW i \in 1..Len(net'["client"]) PROVE Vouches(net'["client"][i].body)
      <4>1. i \in 1..Len(net["client"]) \/ i = Len(net["client"]) + 1
        BY <3>2
      <4> QED
        BY <3>1, <3>2, <4>1 DEF IInv, NetOK
    <3> QED
      BY <1>2, <3>2, <3>3 DEF NetOK, Vouches
  <2>2. CASE e = "client"
    <3>1. net'["client"] = net["client"]
      BY <1>2, <2>2 DEF Other, IInv, End
    <3> QED
      BY <1>2, <3>1 DEF IInv, NetOK, Vouches
  <2> QED
    BY <2>1, <2>2 DEF End
<1>7. PICK f : f = [ctx EXCEPT ![e] = d]
  OBVIOUS
<1>8. /\ ctx' = f /\ DOMAIN f = End /\ DOMAIN net' = End
      /\ \A x \in End : EndOK(x, f[x])
  BY <1>2, <1>5, <1>7 DEF IInv
<1>9. origin \subseteq origin' /\ (\A x \in End : EndOK(x, f[x])')
  BY <1>2, <1>8, EndOKGrows
<1>10. \A x \in End : EndOK(x, ctx[x])'
  BY <1>8, <1>9 DEF EndOK, SessionOK, Negotiated, OutVouches, Vouches
<1>11. CacheOK' /\ SavedOK'
  BY <1>2, <1>9, RestGrows DEF IInv
<1> QED
  BY <1>6, <1>8, <1>10, <1>11 DEF IInv

\* The connection ends.
LEMMA EndingStep ==
  ASSUME IInv, NEW e \in End, RefuseRecord(e) \/ Eof(e) \/ Lose(e)
  PROVE  IInv'
<1>1. PICK c : c = ctx[e]
  OBVIOUS
<1>2. EndOK(e, c) /\ Shape(c)
  BY <1>1 DEF IInv, EndOK
<1>3. CASE RefuseRecord(e)
  <2>1. PICK why, d : /\ Consumes(e, d) /\ why # "no"
                      /\ d = Abort(c, why) \/ d = Fail(c, why)
    <3>1. CASE Consumes(e, Abort(c, "mac"))
      BY <3>1
    <3>2. CASE \E why \in {"alert", "unexpected"} : Consumes(e, Fail(c, why))
      BY <3>2
    <3> QED
      BY <1>1, <1>3, <3>1, <3>2 DEF RefuseRecord
  <2>2. /\ net[e] # <<>> /\ UNCHANGED <<chain, saved, origin>>
    BY <1>3 DEF RefuseRecord, envVars, cacheVars
  <2>3. Keeps(c, d) /\ d.end # "no" /\ OutVouches(e, d)
    <3>1. CASE d = Abort(c, why)
      BY <1>2, <2>1, <3>1, AbortKeeps
    <3>2. CASE d = Fail(c, why)
      BY <1>2, <2>1, <3>2, FailKeeps DEF EndOK, OutVouches
    <3> QED
      BY <2>1, <3>1, <3>2
  <2> QED
    BY <1>1, <2>1, <2>2, <2>3, EndingTurn
<1>4. CASE Eof(e) \/ Lose(e)
  <2>1. PICK why, d : Becomes(e, d) /\ why # "no" /\ d = Fail(c, why)
    <3>1. CASE Becomes(e, Fail(c, "eof"))
      BY <3>1
    <3>2. CASE Becomes(e, Fail(c, "lost"))
      BY <3>2
    <3> QED
      BY <1>1, <1>4, <3>1, <3>2 DEF Eof, Lose
  <2>2. UNCHANGED <<chain, saved, origin>>
    BY <1>4 DEF Eof, Lose, envVars, cacheVars
  <2>3. Keeps(c, d) /\ d.end # "no" /\ OutVouches(e, d)
    BY <1>2, <2>1, FailKeeps DEF EndOK, OutVouches
  <2> QED
    BY <1>1, <2>1, <2>2, <2>3, EndingTurn
<1> QED
  BY <1>3, <1>4

\* Behind a handshake an end writes and reads what is no Finished.
LEMMA OverTurn ==
  ASSUME IInv, NEW e \in End, At(e, "HANDSHAKE_OVER"), UNCHANGED <<chain, saved, origin>>,
         NEW d, Becomes(e, d) \/ (net[e] # <<>> /\ Consumes(e, d)),
         Keeps(ctx[e], d), d.state = "HANDSHAKE_OVER",
         d.out = None \/ d.out.body.msg # "Finished"
  PROVE  IInv'
<1>1. HelloSecond(d) /\ HelloAtHand(e, d) /\ ResumesShort(d) /\ ~Sure(e, d)
  BY DEF HelloSecond, HelloAtHand, ResumesShort, Sure, Early
<1>2. EndOK(e, d)
  BY <1>1, AtFacts, OtherMessage DEF EndOK, Keeps
<1> QED
  BY <1>2, BecomesStep, ConsumesStep

\* ssl_write and ssl_read with data.
LEMMA DataStep ==
  ASSUME IInv, NEW e \in End, WriteData(e) \/ ReadData(e)
  PROVE  IInv'
<1>1. CASE WriteData(e)
  <2> DEFINE m == [msg |-> "Data"]
  <2>1. PICK d : d = Sent(ctx[e], m)
    OBVIOUS
  <2>2. /\ At(e, "HANDSHAKE_OVER") /\ Becomes(e, d) /\ UNCHANGED <<chain, saved, origin>>
    BY <1>1, <2>1 DEF WriteData, cacheVars
  <2>3. m.msg = "Data"
    OBVIOUS
  <2> HIDE DEF m
  <2>4. Keeps(ctx[e], d) /\ d.state = "HANDSHAKE_OVER" /\ d.out.body.msg # "Finished"
    BY <2>1, <2>2, <2>3, AtFacts, SentKeeps
  <2> QED
    BY <2>2, <2>4, OverTurn
<1>2. CASE ReadData(e)
  <2>1. PICK d : d = Received(ctx[e], Incoming(e))
    OBVIOUS
  <2>2. /\ At(e, "HANDSHAKE_OVER") /\ net[e] # <<>> /\ Consumes(e, d)
        /\ UNCHANGED <<chain, saved, origin>>
    BY <1>2, <2>1, GetsFacts DEF ReadData, envVars, cacheVars
  <2>3. Keeps(ctx[e], d) /\ d.state = "HANDSHAKE_OVER" /\ d.out = None
    BY <2>1, <2>2, AtFacts, ReceivedKeeps
  <2> QED
    BY <2>2, <2>3, OverTurn
<1> QED
  BY <1>1, <1>2

\* A renegotiation begins with an empty transcript.
LEMMA RenegotiatingOK ==
  ASSUME NEW e \in End, NEW c, Shape(c), SessionOK(c.ses), OutVouches(e, c),
         e = "server" => c.msg.msg = "ClientHello"
  PROVE  EndOK(e, Renegotiating(c))
<1>1. PICK b, d : b = [c EXCEPT !.state = "HELLO_REQUEST", !.reneg = TRUE]
                  /\ d = HandshakeInit(b)
  OBVIOUS
<1>2. /\ Shape(b) /\ b.state = "HELLO_REQUEST" /\ b.ses = c.ses /\ b.out = c.out
      /\ b.msg = c.msg
  BY <1>1 DEF Shape
<1>3. /\ Shape(d) /\ d.state = "HELLO_REQUEST" /\ d.ses = c.ses /\ d.out = c.out
      /\ d.msg = c.msg /\ d.sum = <<>>
  BY <1>1, <1>2, HandshakeInitKeeps
<1>4. HelloSecond(d) /\ HelloAtHand(e, d) /\ ResumesShort(d) /\ ~Sure(e, d)
  BY <1>3 DEF HelloSecond, HelloAtHand, ResumesShort, Sure, Early
<1>5. EndOK(e, d)
  BY <1>3, <1>4 DEF EndOK, OutVouches
<1> QED
  BY <1>1, <1>5 DEF Renegotiating

\* A ClientHello or a call of ssl_renegotiate starts another handshake.
LEMMA RenegotiationStep ==
  ASSUME IInv, ReadHello \/ Renegotiate
  PROVE  IInv'
<1>1. CASE ReadHello
  <2> DEFINE m == [msg |-> "NoRenegotiation"]
  <2>1. PICK c : c = Received(ctx["server"], Incoming("server"))
    OBVIOUS
  <2>2. PICK d : /\ Consumes("server", d)
                 /\ d = Renegotiating(c) \/ d = Sent(c, m)
    BY <1>1, <2>1 DEF ReadHello
  <2>3. m.msg = "NoRenegotiation"
    OBVIOUS
  <2> HIDE DEF m
  <2>4. /\ At("server", "HANDSHAKE_OVER") /\ net["server"] # <<>>
        /\ Incoming("server").msg = "ClientHello" /\ UNCHANGED <<chain, saved, origin>>
    BY <1>1, GetsFacts DEF ReadHello, envVars, cacheVars
  <2>5. /\ Keeps(ctx["server"], c) /\ Shape(c) /\ c.state = "HANDSHAKE_OVER" /\ c.out = None
        /\ c.msg.msg = "ClientHello" /\ EndOK("server", ctx["server"])
    <3>1. PICK o : o = ctx["server"]
      OBVIOUS
    <3>2. /\ EndOK("server", o) /\ Shape(o) /\ o.state = "HANDSHAKE_OVER" /\ o.out = None
      BY <2>4, <3>1, AtFacts DEF End
    <3>3. /\ Keeps(o, c) /\ c.state = o.state /\ c.out = o.out
          /\ c.msg = Incoming("server")
      BY <2>1, <3>1, <3>2, ReceivedKeeps
    <3> QED
      BY <2>4, <3>1, <3>2, <3>3 DEF Keeps
  <2>6. CASE d = Renegotiating(c)
    <3>1. EndOK("server", d)
      BY <2>5, <2>6, RenegotiatingOK, OtherMessage DEF EndOK, Keeps, End
    <3> QED
      BY <2>2, <2>4, <3>1, ConsumesStep DEF End
  <2>7. CASE d = Sent(c, m)
    <3>1. Keeps(ctx["server"], d) /\ d.state = "HANDSHAKE_OVER"
          /\ d.out.body.msg # "Finished"
      BY <2>3, <2>5, <2>7, SentKeeps, KeepsTransitive
    <3> QED
      BY <2>2, <2>4, <3>1, OverTurn DEF End
  <2> QED
    BY <2>2, <2>6, <2>7
<1>2. CASE Renegotiate
  <2>1. PICK c, d : c = ctx["client"] /\ d = Renegotiating(c)
    OBVIOUS
  <2>2. /\ At("client", "HANDSHAKE_OVER") /\ Becomes("client", d)
        /\ UNCHANGED <<chain, saved, origin>>
    BY <1>2, <2>1 DEF Renegotiate, cacheVars
  <2>3. EndOK("client", c) /\ Shape(c)
    BY <2>1, <2>2, AtFacts DEF End
  <2>4. EndOK("client", d)
    BY <2>1, <2>3, RenegotiatingOK DEF EndOK, End
  <2> QED
    BY <2>2, <2>4, BecomesStep DEF End
<1> QED
  BY <1>1, <1>2

\* The client keeps the session of a connection it closes.
LEMMA CloseStep ==
  ASSUME IInv, NEW e \in End, Close(e)
  PROVE  IInv'
<1>1. PICK c, d : c = ctx[e] /\ d = Fail(c, "closed")
  OBVIOUS
<1>2. /\ At(e, "HANDSHAKE_OVER") /\ Becomes(e, d) /\ UNCHANGED <<chain, origin>>
      /\ saved' = IF e = "client" THEN [saved EXCEPT ![who] = c.ses] ELSE saved
  BY <1>1 DEF Close, cacheVars
<1>3. EndOK(e, c) /\ Shape(c) /\ c.out = None
  BY <1>1, <1>2, AtFacts
<1>4. EndOK(e, d)
  <2>1. Keeps(c, d) /\ d.end = "closed" /\ d.out = None
    BY <1>1, <1>3, FailKeeps
  <2> QED
    BY <1>3, <2>1, KeepsFollows, EndedOK, OtherMessage
<1>5. DOMAIN saved' = Client /\ \A x \in Client : SessionOK(saved'[x])
  BY <1>2, <1>3 DEF IInv, SavedOK, EndOK
<1>6. SavedOK'
  BY <1>2, <1>5 DEF SavedOK, SessionOK, Negotiated
<1>7. PICK f : f = [ctx EXCEPT ![e] = d]
  OBVIOUS
<1>8. /\ ctx' = f /\ net' = net /\ DOMAIN f = End
      /\ \A x \in End : EndOK(x, f[x])
  BY <1>2, <1>4, <1>7 DEF IInv, Becomes
<1>9. \A x \in End : EndOK(x, f[x])'
  BY <1>2, <1>8, EndOKGrows
<1>10. \A x \in End : EndOK(x, ctx[x])'
  BY <1>8, <1>9 DEF EndOK, SessionOK, Negotiated, OutVouches, Vouches
<1>11. NetOK' /\ CacheOK' /\ DOMAIN net' = End /\ DOMAIN ctx' = End
  BY <1>2, <1>8 DEF IInv, NetOK, Vouches, CacheOK, Negotiated
<1> QED
  BY <1>6, <1>10, <1>11 DEF IInv

\* A context that ssl_init has made.
LEMMA NewShape == Shape(New) /\ New.ses = None /\ New.sum = <<>> /\ New.out = None
                  /\ New.state = "HELLO_REQUEST" /\ New.end = "no" /\ New.reneg = FALSE
<1> DEFINE b == [state |-> "", minor |-> 0, max |-> 0, reneg |-> FALSE,
                 own |-> None, peer |-> None, ses |-> None, neg |-> None, resume |-> FALSE,
                 rc |-> None, rs |-> None, dh |-> None, premaster |-> None, sum |-> <<>>,
                 tneg |-> None, tin |-> None, tout |-> None, auth |-> FALSE,
                 verify |-> "unknown", out |-> None, msg |-> None, end |-> "no"]
           r == [b EXCEPT !.state = "HELLO_REQUEST", !.reneg = FALSE,
                          !.own = None, !.peer = None, !.ses = None, !.tin = None,
                          !.tout = None, !.out = None, !.msg = None, !.end = "no"]
<1>1. New = HandshakeInit(r)
  BY DEF New, Reset
<1>2. {"state", "end", "resume", "reneg", "neg", "sum", "ses", "out", "msg"} \subseteq DOMAIN b
  OBVIOUS
<1> HIDE DEF b
<1>3. /\ {"state", "end", "resume", "reneg", "neg", "sum", "ses", "out", "msg"} \subseteq DOMAIN r
      /\ r.ses = None /\ r.out = None /\ r.state = "HELLO_REQUEST" /\ r.end = "no"
      /\ r.reneg = FALSE
  BY <1>2
<1> HIDE DEF r
<1>4. PICK n : n = HandshakeInit(r)
  OBVIOUS
<1>5. /\ DOMAIN n = DOMAIN r /\ n.ses = None /\ n.out = None /\ n.state = "HELLO_REQUEST"
      /\ n.end = "no" /\ n.reneg = FALSE /\ n.sum = <<>> /\ n.neg = NewSession
  BY <1>3, <1>4 DEF HandshakeInit
<1>6. {"id", "suite", "master"} \subseteq DOMAIN n.neg
  BY <1>5 DEF NewSession
<1>7. Sequence(n.sum)
  BY <1>5, EmptySeq DEF Sequence
<1>8. Shape(n)
  BY <1>3, <1>5, <1>6, <1>7 DEF Shape
<1> QED
  BY <1>1, <1>4, <1>5, <1>8

\* An end that stands before its first handshake.
LEMMA FreshOK ==
  ASSUME NEW e, NEW d, Shape(d), d.ses = None, d.sum = <<>>, d.out = None,
         d.state = "HELLO_REQUEST", ~d.reneg
  PROVE  EndOK(e, d)
  BY DEF EndOK, SessionOK, OutVouches, HelloSecond, HelloAtHand, ResumesShort, Sure, Early

\* A new connection, over which the client may offer what it has kept.
LEMMA ConnectStep ==
  ASSUME IInv, NEW c \in Client, Connect(c)
  PROVE  IInv'
<1> DEFINE opened(offers) == [New EXCEPT !.resume = offers, !.max = conf.max,
                                         !.neg = IF offers THEN saved[c] ELSE @]
<1>0. PICK offers \in BOOLEAN :
        /\ offers => saved[c] # None
        /\ ctx' = [client |-> opened(offers), server |-> Reset(ctx["server"])]
  BY DEF Connect
<1>1. PICK d, s :
        /\ d = [New EXCEPT !.resume = offers, !.max = conf.max,
                           !.neg = IF offers THEN saved[c] ELSE @]
        /\ s = Reset(ctx["server"])
        /\ ctx' = [client |-> d, server |-> s]
  BY <1>0
<1>2. net' = [e \in End |-> <<>>] /\ UNCHANGED <<saved, origin, chain>>
  BY DEF Connect, cacheVars
<1>3. EndOK("client", d)
  <2>1. d = [New EXCEPT !.resume = offers, !.max = conf.max,
                        !.neg = IF offers THEN saved[c] ELSE @]
    BY <1>1
  <2>2. /\ DOMAIN d = DOMAIN New /\ d.ses = None /\ d.sum = <<>> /\ d.out = None
        /\ d.state = "HELLO_REQUEST" /\ d.reneg = FALSE
        /\ d.neg = IF offers THEN saved[c] ELSE New.neg
    BY <2>1, NewShape DEF Shape
  <2>3. offers => {"id", "suite", "master"} \subseteq DOMAIN saved[c]
    BY <1>0 DEF IInv, SavedOK, SessionOK
  <2>4. Shape(d)
    BY <2>2, <2>3, NewShape DEF Shape
  <2> QED
    BY <2>2, <2>4, FreshOK
<1>4. EndOK("server", s)
  <2>1. PICK o, b : /\ o = ctx["server"]
                    /\ b = [o EXCEPT !.state = "HELLO_REQUEST", !.reneg = FALSE,
                                     !.own = None, !.peer = None, !.ses = None,
                                     !.tin = None, !.tout = None, !.out = None,
                                     !.msg = None, !.end = "no"]
    OBVIOUS
  <2>2. s = HandshakeInit(b)
    BY <1>1, <2>1 DEF Reset
  <2>3. Shape(o)
    BY <2>1 DEF IInv, EndOK, End
  <2>4. /\ DOMAIN b = DOMAIN o /\ b.ses = None /\ b.out = None /\ b.state = "HELLO_REQUEST"
        /\ b.reneg = FALSE /\ b.sum = o.sum /\ b.neg = o.neg
    BY <2>1, <2>3 DEF Shape
  <2>5. Shape(b)
    BY <2>3, <2>4 DEF Shape
  <2> QED
    BY <2>2, <2>4, <2>5, HandshakeInitKeeps, FreshOK
<1>5. PICK f : f = ctx'
  OBVIOUS
<1>6. DOMAIN f = End /\ \A x \in End : EndOK(x, f[x])
  BY <1>1, <1>3, <1>4, <1>5 DEF End
<1>7. \A x \in End : EndOK(x, f[x])'
  BY <1>2, <1>6, EndOKGrows
<1>8. \A x \in End : EndOK(x, ctx[x])'
  BY <1>5, <1>7 DEF EndOK, SessionOK, Negotiated, OutVouches, Vouches
<1>9. NetOK' /\ DOMAIN net' = End
  <2>1. net'["client"] = <<>>
    BY <1>2 DEF End
  <2>2. Sequence(net'["client"]) /\ Len(net'["client"]) = 0
    BY <2>1, EmptySeq DEF Sequence
  <2> QED
    BY <1>2, <2>2 DEF NetOK
<1>10. CacheOK' /\ SavedOK'
  BY <1>2, RestGrows DEF IInv
<1> QED
  BY <1>5, <1>6, <1>8, <1>9, <1>10 DEF IInv

\* The clock does not matter.
LEMMA StillStep ==
  ASSUME IInv, UNCHANGED <<ctx, net, saved, origin, chain>>
  PROVE  IInv'
  BY DEF IInv, EndOK, SessionOK, Negotiated, OutVouches, Vouches, NetOK, CacheOK, SavedOK

\* The invariant holds at the start.
LEMMA InitIInv == Init => IInv
<1> SUFFICES ASSUME Init PROVE IInv
  OBVIOUS
<1>1. PICK d : d = Fail(New, "closed")
  OBVIOUS
<1>2. Keeps(New, d) /\ d.end = "closed" /\ d.out = None
  BY <1>1, NewShape, FailKeeps
<1>3. \A e \in End : EndOK(e, d)
  BY <1>2, NewShape, OtherMessage DEF EndOK, Keeps, SessionOK
<1>4. ctx = [e \in End |-> d] /\ net = [e \in End |-> <<>>]
      /\ saved = [c \in Client |-> None] /\ chain = <<>>
  BY <1>1 DEF Init
<1>5. Sequence(<<>>) /\ Len(<<>>) = 0
  BY EmptySeq DEF Sequence
<1>6. NetOK /\ CacheOK /\ SavedOK
  BY <1>4, <1>5 DEF NetOK, CacheOK, SavedOK, SessionOK, End
<1> QED
  BY <1>3, <1>4, <1>6 DEF IInv

\* The turns of the client.
LEMMA ClientTurnStep ==
  ASSUME IInv, ClientTurn
  PROVE  IInv'
  BY WriteClientHelloStep, ServerHelloStep, ParseServerKeyExchangeStep,
     CertificateRequestStep, ServerHelloDoneStep, WriteClientKeyExchangeStep,
     CertificateVerifyStep
  DEF ClientTurn

\* The turns of the server.
LEMMA ServerTurnStep ==
  ASSUME IInv, ServerTurn
  PROVE  IInv'
  BY ParseClientHelloStep, WriteServerHelloStep, SkipCertificateStep,
     WriteServerKeyExchangeStep, CertificateRequestStep, ServerHelloDoneStep,
     ParseClientKeyExchangeStep, CertificateVerifyStep, RenegotiationStep
  DEF ServerTurn

\* The turns of either end.
LEMMA CommonTurnStep ==
  ASSUME IInv, NEW e \in End, CommonTurn(e)
  PROVE  IInv'
  BY StartStep, WriteCertificateStep, ParseCertificateStep, ChangeCipherSpecStep,
     WriteFinishedStep, ParseFinishedStep, FlushBuffersStep, WrapupStep, FlushStep,
     EndingStep, DataStep
  DEF CommonTurn

\* Every step keeps the invariant.
LEMMA NextIInv == IInv /\ [Next]_vars => IInv'
<1> SUFFICES ASSUME IInv, [Next]_vars PROVE IInv'
  OBVIOUS
<1>1. ASSUME NEW e \in End, Turn(e) PROVE IInv'
  BY <1>1, ClientTurnStep, ServerTurnStep, CommonTurnStep DEF Turn
<1>2. ASSUME NEW e \in End, Application(e) PROVE IInv'
  BY <1>2, DataStep, CloseStep, EndingStep DEF Application
<1>3. CASE \E c \in Client : Connect(c)
  BY <1>3, ConnectStep
<1>4. CASE Renegotiate
  BY <1>4, RenegotiationStep
<1>5. CASE Tick \/ UNCHANGED vars
  BY <1>5, StillStep DEF Tick, vars
<1> QED
  BY <1>1, <1>2, <1>3, <1>4, <1>5 DEF Next

\* The invariant says what the property says.
LEMMA IInvSessions == IInv => SessionsAreNegotiated
  BY DEF IInv, CacheOK, SavedOK, SessionOK, SessionsAreNegotiated

\* What the cache holds and what the clients have kept are sessions the server has
\* negotiated, with the master secret of their id, whatever the settings, however often
\* sessions are resumed and renegotiated, and wherever a connection breaks
\* (ssl_cache_set, ssl_handshake_wrapup, ssl_parse_finished).
THEOREM SessionsAreNegotiatedAlways == Spec => []SessionsAreNegotiated
<1>1. Init => IInv
  BY InitIInv
<1>2. IInv /\ [Next]_vars => IInv'
  BY NextIInv
<1>3. IInv => SessionsAreNegotiated
  BY IInvSessions
<1> QED
  BY <1>1, <1>2, <1>3, PTL DEF Spec

-----------------------------------------------------------------------------
(* The bound of the cache                                                   *)

\* Only ssl_cache_set changes the chain.
LEMMA ChainMoves == [Next]_vars => chain' = chain \/ \E s : Put(s)
<1> SUFFICES ASSUME [Next]_vars PROVE chain' = chain \/ \E s : Put(s)
  OBVIOUS
<1> USE DEF cacheVars
<1>1. CASE ClientTurn
  BY <1>1
  DEF ClientTurn, WriteClientHello, RefuseServerHello, ParseServerHello,
      ParseServerKeyExchange, ParseCertificateRequest, ParseServerHelloDone,
      WriteClientKeyExchange, WriteCertificateVerify
<1>2. CASE ServerTurn
  BY <1>2
  DEF ServerTurn, ParseClientHello, WriteServerHello, SkipCertificate,
      WriteServerKeyExchange, WriteCertificateRequest, WriteServerHelloDone,
      ParseClientKeyExchange, ParseCertificateVerify, ReadHello
<1>3. ASSUME NEW e \in End, CommonTurn(e) PROVE chain' = chain \/ \E s : Put(s)
  BY <1>3
  DEF CommonTurn, Start, WriteCertificate, ParseCertificate, WriteChangeCipherSpec,
      ParseChangeCipherSpec, WriteFinished, ParseFinished, FlushBuffers, Wrapup, Flush,
      RefuseRecord, Eof, ReadData
<1>4. ASSUME NEW e \in End, Application(e) PROVE chain' = chain
  BY <1>4 DEF Application, WriteData, Close, Lose
<1>5. CASE (\E c \in Client : Connect(c)) \/ Renegotiate \/ Tick \/ UNCHANGED vars
  BY <1>5 DEF Connect, Renegotiate, Tick, vars
<1> QED
  BY <1>1, <1>2, <1>3, <1>4, <1>5 DEF Next, Turn

\* ssl_cache_set replaces an entry, or appends one while there is room.
LEMMA PutBounded ==
  ASSUME Sequence(chain), CacheBounded, NEW s, Put(s)
  PROVE  Sequence(chain)' /\ CacheBounded'
<1>1. PICK ch : ch = chain'
  OBVIOUS
<1>2. \/ \E i, en : Replaces(ch, chain, i, en)
      \/ (chain = <<>> \/ Len(chain) < MaxEntries) /\ \E en : ch = Append(chain, en)
  <2>1. Len(chain) \in Nat
    <3>1. PICK S : chain \in Seq(S)
      BY DEF Sequence
    <3> QED
      BY <3>1
  <2>2. CASE Reusable(s) # {}
    BY <1>1, <2>2 DEF Put, Replaces
  <2>3. CASE Reusable(s) = {} /\ chain # <<>> /\ Len(chain) >= MaxEntries
    BY <1>1, <2>3 DEF Put, Replaces
  <2>4. CASE Reusable(s) = {} /\ ~(chain # <<>> /\ Len(chain) >= MaxEntries)
    BY <1>1, <2>1, <2>4, CacheAssumption DEF Put
  <2> QED
    BY <2>2, <2>3, <2>4
<1>3. CASE \E i, en : Replaces(ch, chain, i, en)
  BY <1>1, <1>3, ReplaceIn DEF CacheBounded, Sequence
<1>4. CASE (chain = <<>> \/ Len(chain) < MaxEntries) /\ \E en : ch = Append(chain, en)
  <2>1. Sequence(ch) /\ Len(chain) \in Nat /\ Len(ch) = Len(chain) + 1
    BY <1>4, AppendTo
  <2>2. chain = <<>> => Len(chain) = 0
    BY EmptySeq
  <2> QED
    BY <1>1, <1>4, <2>1, <2>2, CacheAssumption DEF CacheBounded, Sequence
<1> QED
  BY <1>2, <1>3, <1>4

\* The cache never grows past max_entries, whatever comes in and whatever expires, except
\* for the one entry it takes when max_entries is 0 (ssl_cache_set).
THEOREM CacheBoundedAlways == Spec => []CacheBounded
<1> DEFINE Inv == Sequence(chain) /\ CacheBounded
<1>1. Init => Inv
  BY EmptySeq, CacheAssumption DEF Init, Sequence, CacheBounded
<1>2. Inv /\ [Next]_vars => Inv'
  <2> SUFFICES ASSUME Inv, [Next]_vars PROVE Inv'
    OBVIOUS
  <2>1. CASE chain' = chain
    BY <2>1 DEF Sequence, CacheBounded
  <2>2. ASSUME NEW s, Put(s) PROVE Inv'
    BY <2>2, PutBounded
  <2> QED
    BY <2>1, <2>2, ChainMoves
<1>3. Inv => CacheBounded
  OBVIOUS
<1> QED
  BY <1>1, <1>2, <1>3, PTL DEF Spec
=============================================================================

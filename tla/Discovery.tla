------------------------------ MODULE Discovery ------------------------------
(***************************************************************************)
(* Local discovery of a peer PZP (localDiscovery.c): findPzp sends one     *)
(* multicast DNS question for _pzp._tcp.local and then listens, without    *)
(* end, for a response whose owner name is the service, alone or with the  *)
(* machine name in front of it.  The first such response ends the search:  *)
(* its machine name and the address in its first A record are what the     *)
(* enrolment connects to.                                                  *)
(*                                                                         *)
(* The local network is modelled as mDNS uses it: datagrams may be lost or *)
(* overtaken, the sender hears its own question (multicast loopback), and  *)
(* a peer answers a question it hears and announces itself when it boots.  *)
(* An address is represented by the peer that has it.                      *)
(***************************************************************************)
EXTENDS Naturals, Sequences, FiniteSets

CONSTANTS
  Peers,      \* the mDNS responders of the local network
  Owner,      \* the owner name each of them answers with, see OwnerNames
  Records,    \* Records[p]: the record lists the responses of p may carry
  UpAtStart,  \* the peers that are running when the search starts
  LossyFrom,  \* the peers to and from which datagrams may be lost
  BindFails   \* may setMulticastConnection fail?

\* Owner names of responses: the service with the machine name in front, the
\* service alone, and any other service.
OwnerNames == {"machine.service", "service", "other"}

\* What the record walk tells apart: an A record, another record of fewer than
\* 256 bytes, another record of at least 256 bytes (only the low byte of the
\* length field is read).
RecordKinds == {"A", "short", "long"}

\* The machine name or the address that was not found, and four bytes that are
\* not the data of an A record.
None == "none"
Garbage == "garbage"

ASSUME ConfigAssumption ==
  /\ Owner \in [Peers -> OwnerNames]
  /\ Records \in [Peers -> SUBSET Seq(RecordKinds)]
  /\ UpAtStart \subseteq Peers
  /\ LossyFrom \subseteq Peers
  /\ BindFails \in BOOLEAN
  /\ {None, Garbage} \cap Peers = {}

VARIABLES
  pc,         \* where findPzp is: "open", "ask", "listen" or "returned"
  sock,       \* socketDesc: "mcast", or "stdin" for the 0 a failure leaves
  timer,      \* t, the time select still waits: "full", "part" or "zero"
  up,         \* the peers that are running
  asked,      \* the peers the question is travelling to
  inflight,   \* datagrams travelling to this machine
  rcvq,       \* datagrams the kernel holds for the multicast socket
  name,       \* the machine name findPzp returns
  ip          \* the buffer its caller passed for the address

searchVars == <<pc, sock, timer, name, ip>>
netVars == <<up, asked, inflight, rcvq>>
vars == <<pc, sock, timer, up, asked, inflight, rcvq, name, ip>>

\* buf[2] = 0x84 marks a response; the only other datagram is the question.
Question == [response |-> FALSE]
Response(p, rs) == [response |-> TRUE, from |-> p, records |-> rs]
Responses == UNION {{Response(p, rs) : rs \in Records[p]} : p \in Peers}
Datagrams == {Question} \cup Responses

\* Defects of the comparison: the owner name is not looked at; the machine name
\* in front of the service is not allowed for.
MatchesAnyService(d) == d.response
MatchesBareService(d) == d.response /\ Owner[d.from] = "service"

\* The owner name ends with the service the question asked for.
Matches(d) == d.response /\ Owner[d.from] # "other"

\* Defect: the service is not cut off the owner name.
UncutMachineName(d) == Owner[d.from]

\* The machine name is what stands in front of the service, if anything does.
MachineName(d) == IF Owner[d.from] = "machine.service" THEN d.from ELSE None

\* The addresses the record walk of a matching response may end with.  The walk
\* stops at the first A record.  A long record before it makes the walk resume
\* inside the record's data, where it may take four bytes for an address, find
\* its way back or run off the end of the packet.
WalkResults(d) ==
  LET kinds   == {d.records[i] : i \in DOMAIN d.records}
      IsFirst(i) == \A j \in 1..(i - 1) : d.records[j] = "short"
  IN  CASE \E i \in DOMAIN d.records : d.records[i] = "A" /\ IsFirst(i)
             -> {d.from}
        [] \E i \in DOMAIN d.records : d.records[i] = "long" /\ IsFirst(i)
             -> {None, Garbage} \cup (IF "A" \in kinds THEN {d.from} ELSE {})
        [] OTHER -> {None}

\* What select leaves of the waiting time when a datagram ends the wait.
Remaining(t) == IF t = "zero" THEN {"zero"} ELSE {"part", "zero"}

Init ==
  /\ pc = "open"
  /\ sock = "stdin"
  /\ timer = "full"
  /\ up = UpAtStart
  /\ asked = {}
  /\ inflight = {}
  /\ rcvq = <<>>
  /\ name = None
  /\ ip = None

-----------------------------------------------------------------------------
(* findPzp *)

\* setMulticastConnection opens, binds and joins the group; when socket or bind
\* fails it returns 0, which its caller takes for a descriptor.
SetMulticastConnection ==
  /\ pc = "open"
  /\ pc' = "ask"
  /\ \/ sock' = "mcast"
     \/ BindFails /\ sock' = "stdin"
  /\ UNCHANGED <<timer, name, ip>>
  /\ UNCHANGED netVars

\* Defect: the question is prepared and never sent.
SendQueryDropped ==
  /\ pc = "ask"
  /\ pc' = "listen"
  /\ UNCHANGED <<sock, timer, up, asked, inflight, rcvq, name, ip>>

\* The question is sent once, and the result of sendto is ignored.
SendQuery ==
  /\ pc = "ask"
  /\ pc' = "listen"
  /\ IF sock = "mcast"
       THEN /\ asked' = Peers
            /\ inflight' = inflight \cup {Question}
       ELSE UNCHANGED <<asked, inflight>>
  /\ UNCHANGED <<sock, timer, up, rcvq, name, ip>>

\* select waits until its time is up and leaves 0 there, so that from then on
\* every call of select returns at once.
SelectTimeout ==
  /\ pc = "listen"
  /\ rcvq = <<>>
  /\ timer # "zero"
  /\ timer' = "zero"
  /\ UNCHANGED <<pc, sock, name, ip>>
  /\ UNCHANGED netVars

\* A datagram that is not a matching response is dropped and the loop goes on.
SkipDatagram ==
  /\ pc = "listen"
  /\ rcvq # <<>>
  /\ ~Matches(Head(rcvq))
  /\ rcvq' = Tail(rcvq)
  /\ timer' \in Remaining(timer)
  /\ UNCHANGED <<pc, sock, up, asked, inflight, name, ip>>

\* Defect: the loop gives up once the waiting time is over.
TakeResponseInTime ==
  /\ pc = "listen"
  /\ rcvq # <<>>
  /\ Matches(Head(rcvq))
  /\ timer # "zero"
  /\ pc' = "returned"
  /\ name' = MachineName(Head(rcvq))
  /\ ip' \in WalkResults(Head(rcvq))
  /\ rcvq' = Tail(rcvq)
  /\ timer' \in Remaining(timer)
  /\ UNCHANGED <<sock, up, asked, inflight>>

\* The first matching response ends the search, whether or not the walk of its
\* records finds an address to write into the caller's buffer.
TakeResponse ==
  /\ pc = "listen"
  /\ rcvq # <<>>
  /\ Matches(Head(rcvq))
  /\ pc' = "returned"
  /\ name' = MachineName(Head(rcvq))
  /\ ip' \in WalkResults(Head(rcvq))
  /\ rcvq' = Tail(rcvq)
  /\ timer' \in Remaining(timer)
  /\ UNCHANGED <<sock, up, asked, inflight>>

FindPzp ==
  \/ SetMulticastConnection
  \/ SendQuery
  \/ SelectTimeout
  \/ SkipDatagram
  \/ TakeResponse

-----------------------------------------------------------------------------
(* The network and its responders (external) *)

\* A running peer hears the question and answers it.
HearQuery(p) ==
  /\ p \in asked \cap up
  /\ asked' = asked \ {p}
  /\ \E rs \in Records[p] : inflight' = inflight \cup {Response(p, rs)}
  /\ UNCHANGED <<up, rcvq>>
  /\ UNCHANGED searchVars

\* A question that reaches a machine that is not running, or that the network
\* loses, is gone.
LoseQuery(p) ==
  /\ p \in asked
  /\ p \in LossyFrom \/ p \notin up
  /\ asked' = asked \ {p}
  /\ UNCHANGED <<up, inflight, rcvq>>
  /\ UNCHANGED searchVars

\* A peer boots and announces its service.
Boot(p) ==
  /\ p \notin up
  /\ up' = up \cup {p}
  /\ \E rs \in Records[p] : inflight' = inflight \cup {Response(p, rs)}
  /\ UNCHANGED <<asked, rcvq>>
  /\ UNCHANGED searchVars

\* A datagram reaches this machine; without a socket bound to the mDNS port
\* nobody keeps it.
Deliver(d) ==
  /\ d \in inflight
  /\ inflight' = inflight \ {d}
  /\ rcvq' = IF sock = "mcast" THEN Append(rcvq, d) ELSE rcvq
  /\ UNCHANGED <<up, asked>>
  /\ UNCHANGED searchVars

LoseDatagram(d) ==
  /\ d \in inflight
  /\ d.response /\ d.from \in LossyFrom
  /\ inflight' = inflight \ {d}
  /\ UNCHANGED <<up, asked, rcvq>>
  /\ UNCHANGED searchVars

Network ==
  \/ \E p \in Peers : HearQuery(p) \/ LoseQuery(p) \/ Boot(p)
  \/ \E d \in Datagrams : Deliver(d) \/ LoseDatagram(d)

-----------------------------------------------------------------------------

Next == FindPzp \/ Network

\* The loop of findPzp never blocks for good, a datagram that stays in flight
\* arrives, and a running peer answers.
Fairness ==
  /\ WF_vars(FindPzp)
  /\ WF_vars(\E p \in Peers : HearQuery(p))
  /\ WF_vars(\E d \in Datagrams : Deliver(d))

Spec == Init /\ [][Next]_vars /\ Fairness

-----------------------------------------------------------------------------

TypeOK ==
  /\ pc \in {"open", "ask", "listen", "returned"}
  /\ sock \in {"mcast", "stdin"}
  /\ timer \in {"full", "part", "zero"}
  /\ up \subseteq Peers
  /\ asked \subseteq Peers
  /\ inflight \subseteq Datagrams
  /\ rcvq \in Seq(Datagrams)
  /\ name \in Peers \cup {None}
  /\ ip \in Peers \cup {None, Garbage}

-----------------------------------------------------------------------------

\* What findPzp hands to connectPzp belongs together (localDiscovery.c:163-188):
\* an address is that of a peer that offers the service, and the machine name, if
\* there is one, is the name of the same peer.  A response of another service, or
\* bytes that are no address, never become the PZP to enrol with.
ReturnsOnePeer ==
  pc = "returned" =>
    /\ ip # None => ip \in Peers /\ Owner[ip] # "other"
    /\ {name, ip} \subseteq Peers => name = ip

\* Once the kernel holds a matching response findPzp returns, however late it
\* came: the decayed waiting time of select (localDiscovery.c:135) ends nothing.
AnswerEndsSearch ==
  (\E i \in DOMAIN rcvq : Matches(rcvq[i])) ~> (pc = "returned")

\* Where nothing is lost one question is enough: a peer that runs, or boots at
\* any moment of the search, ends it (localDiscovery.c:129-207).
RunningPeerIsFound ==
  (\E p \in up \ LossyFrom : Owner[p] # "other") ~> (pc = "returned")

\* "Every 30 sec look for a PZP" (localDiscovery.c:68): when the waiting time is
\* over the search asks again, unless a response ended it.
LooksAgainAfterTimeout ==
  (pc = "listen" /\ timer = "zero") ~> (pc # "listen")

\* No response in use carries a record whose length the walk misreads.
NoLongRecords ==
  \A p \in Peers : \A rs \in Records[p] : \A i \in DOMAIN rs : rs[i] # "long"

=============================================================================

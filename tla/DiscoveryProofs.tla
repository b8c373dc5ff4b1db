--------------------------- MODULE DiscoveryProofs ---------------------------
(***************************************************************************)
(* Proofs about Discovery, for any set of responders, any owner names and  *)
(* any record lists.                                                       *)
(***************************************************************************)
EXTENDS Discovery, SequenceTheorems, TLAPS

\* What a response carries: its sender is a peer, and its records are among
\* those the peer may send.
LEMMA ResponseOfPeer ==
  ASSUME NEW d \in Datagrams, d.response
  PROVE  d.from \in Peers /\ d.records \in Records[d.from]
  BY DEF Datagrams, Question, Responses, Response

\* Every response a peer may send is a datagram of the model.
LEMMA ResponseIsDatagram ==
  ASSUME NEW p \in Peers, NEW rs \in Records[p]
  PROVE  Response(p, rs) \in Datagrams
  BY DEF Datagrams, Responses

\* The walk ends with the sender's address, with none or with garbage, and the
\* latter only behind a long record.
LEMMA WalkResultsProperties ==
  ASSUME NEW d \in Datagrams, d.response
  PROVE  /\ WalkResults(d) \subseteq {d.from, None, Garbage}
         /\ NoLongRecords => Garbage \notin WalkResults(d) \/ d.from = Garbage
<1>1. d.from \in Peers /\ d.records \in Records[d.from]
  BY ResponseOfPeer
<1>2. DOMAIN d.records = 1..Len(d.records)
  BY <1>1, ConfigAssumption, LenProperties DEF ConfigAssumption
<1>3. ASSUME NoLongRecords
      PROVE  ~ \E i \in DOMAIN d.records : d.records[i] = "long"
  BY <1>1, <1>3 DEF NoLongRecords
<1> QED
  BY <1>1, <1>3, ConfigAssumption DEF WalkResults, None, Garbage, ConfigAssumption

\* The variables of Discovery keep their types whatever the network does.
THEOREM TypeCorrect == Spec => []TypeOK
<1>1. Init => TypeOK
  BY ConfigAssumption DEF Init, TypeOK, ConfigAssumption, None, Datagrams
<1>2. TypeOK /\ [Next]_vars => TypeOK'
  <2> SUFFICES ASSUME TypeOK, [Next]_vars PROVE TypeOK'
    OBVIOUS
  <2> USE DEF TypeOK, searchVars, netVars
  <2>1. CASE SetMulticastConnection
    BY <2>1 DEF SetMulticastConnection
  <2>2. CASE SendQuery
    BY <2>2 DEF SendQuery, Datagrams
  <2>3. CASE SelectTimeout
    BY <2>3 DEF SelectTimeout
  <2>4. CASE SkipDatagram
    <3>1. rcvq' \in Seq(Datagrams)
      BY <2>4, HeadTailProperties DEF SkipDatagram
    <3> QED
      BY <2>4, <3>1 DEF SkipDatagram, Remaining
  <2>5. CASE TakeResponse
    <3> DEFINE d == Head(rcvq)
    <3>1. rcvq' \in Seq(Datagrams) /\ d \in Datagrams /\ d.response
      BY <2>5, HeadTailProperties DEF TakeResponse, Matches
    <3>2. d.from \in Peers
      BY <3>1, ResponseOfPeer
    <3>3. name' \in Peers \cup {None}
      BY <2>5, <3>2 DEF TakeResponse, MachineName
    <3>4. ip' \in Peers \cup {None, Garbage}
      BY <2>5, <3>1, <3>2, WalkResultsProperties DEF TakeResponse
    <3> QED
      BY <2>5, <3>1, <3>3, <3>4 DEF TakeResponse, Remaining
  <2>6. ASSUME NEW p \in Peers, HearQuery(p) PROVE TypeOK'
    BY <2>6, ResponseIsDatagram DEF HearQuery
  <2>7. ASSUME NEW p \in Peers, LoseQuery(p) PROVE TypeOK'
    BY <2>7 DEF LoseQuery
  <2>8. ASSUME NEW p \in Peers, Boot(p) PROVE TypeOK'
    BY <2>8, ResponseIsDatagram DEF Boot
  <2>9. ASSUME NEW d \in Datagrams, Deliver(d) PROVE TypeOK'
    <3>1. rcvq' \in Seq(Datagrams)
      BY <2>9, AppendProperties DEF Deliver
    <3> QED
      BY <2>9, <3>1 DEF Deliver
  <2>10. ASSUME NEW d \in Datagrams, LoseDatagram(d) PROVE TypeOK'
    BY <2>10 DEF LoseDatagram
  <2>11. CASE UNCHANGED vars
    BY <2>11 DEF vars
  <2> QED
    BY <2>1, <2>2, <2>3, <2>4, <2>5, <2>6, <2>7, <2>8, <2>9, <2>10, <2>11
    DEF Next, FindPzp, Network
<1> QED
  BY <1>1, <1>2, PTL DEF Spec

\* Without long records, what findPzp returns is the name and the address of one
\* peer that offers the service.
THEOREM ReturnsOnePeerAlways ==
  ASSUME NoLongRecords
  PROVE  Spec => []ReturnsOnePeer
<1>1. Init => ReturnsOnePeer
  BY DEF Init, ReturnsOnePeer
<1>2. TypeOK /\ ReturnsOnePeer /\ [Next]_vars => ReturnsOnePeer'
  <2> SUFFICES ASSUME TypeOK, ReturnsOnePeer, [Next]_vars PROVE ReturnsOnePeer'
    OBVIOUS
  <2>1. CASE TakeResponse
    <3> DEFINE d == Head(rcvq)
    <3>1. d \in Datagrams /\ Matches(d)
      BY <2>1, HeadTailProperties DEF TakeResponse, TypeOK
    <3>2. d.from \in Peers /\ Owner[d.from] # "other"
      BY <3>1, ResponseOfPeer DEF Matches
    <3>3. ip' \in {d.from, None}
      BY <2>1, <3>1, <3>2, WalkResultsProperties, ConfigAssumption
      DEF TakeResponse, Matches, ConfigAssumption
    <3>4. name' \in {d.from, None}
      BY <2>1 DEF TakeResponse, MachineName
    <3> QED
      BY <3>2, <3>3, <3>4, ConfigAssumption DEF ReturnsOnePeer, ConfigAssumption
  <2>2. CASE SetMulticastConnection \/ SendQuery \/ SelectTimeout \/ SkipDatagram
    BY <2>2 DEF SetMulticastConnection, SendQuery, SelectTimeout, SkipDatagram,
                ReturnsOnePeer
  <2>3. CASE Network
    BY <2>3 DEF Network, HearQuery, LoseQuery, Boot, Deliver, LoseDatagram,
                searchVars, ReturnsOnePeer
  <2>4. CASE UNCHANGED vars
    BY <2>4 DEF vars, ReturnsOnePeer
  <2> QED
    BY <2>1, <2>2, <2>3, <2>4 DEF Next, FindPzp
<1> QED
  BY <1>1, <1>2, TypeCorrect, PTL DEF Spec

=============================================================================

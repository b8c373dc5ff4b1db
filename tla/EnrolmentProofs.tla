--------------------------- MODULE EnrolmentProofs ---------------------------
(***************************************************************************)
(* Proofs about Enrolment, for any network, any peers and any number of    *)
(* runs, with crashes anywhere and peers that fail.                        *)
(***************************************************************************)
EXTENDS Enrolment, SequenceTheorems, TLAPS

USE DEF searchVars, netVars, fileVars, linkVars

\* The invariant holds before the first run.
LEMMA KeyAndInboxInit == Init => KeyInv /\ InboxInv
  BY RunAssumption DEF RunAssumption, Init, KeyInv, InboxInv, OfRun, Steps, HasKey,
     HasCsr, HasRequest, HasSent

\* The end of a run, orderly or not, leaves nothing the invariant speaks of.
LEMMA ExitKeepsKeyAndInbox == KeyInv /\ InboxInv /\ Exit => KeyInv' /\ InboxInv'
  BY DEF Exit, KeyInv, InboxInv, OfRun, Steps, HasKey, HasCsr, HasRequest, HasSent

\* A step that touches neither the connection nor the request keeps InboxInv.
LEMMA InboxKept ==
  ASSUME InboxInv, UNCHANGED <<run, inbox, sent>>,
         pc' = "writeConfig" => pc = "writeConfig",
         pc' # "exit" => pc # "exit"
  PROVE  InboxInv'
  BY DEF InboxInv, OfRun

\* A message that is taken from the inbox leaves the others as they were.
LEMMA TailKeepsInbox ==
  ASSUME InboxInv, inbox # <<>>, inbox' = Tail(inbox), UNCHANGED <<run, sent>>,
         pc' # "writeConfig", pc # "exit"
  PROVE  InboxInv'
<1>1. /\ inbox' \in Seq(Chunk)
      /\ \A i \in 1..Len(inbox') : inbox'[i] = inbox[i + 1] /\ i + 1 \in 1..Len(inbox)
  BY HeadTailProperties DEF InboxInv
<1> QED
  BY <1>1 DEF InboxInv, OfRun

\* What the peer sends goes behind what is there, and its certificates are for
\* the key of the request it was sent.
LEMMA SendKeepsInbox ==
  ASSUME InboxInv, inbox' \in Seq(Chunk), Len(inbox') > Len(inbox), sent,
         \A i \in 1..Len(inbox) : inbox'[i] = inbox[i],
         \A i \in Len(inbox) + 1..Len(inbox') : OfRun(inbox'[i]),
         UNCHANGED <<pc, run, sent>>
  PROVE  InboxInv'
<1>1. Len(inbox) \in Nat /\ Len(inbox') \in Nat
  BY LenProperties DEF InboxInv
<1>2. \A i \in 1..Len(inbox') : OfRun(inbox'[i])
  BY <1>1 DEF InboxInv
<1>3. inbox # <<>> => 1 \in 1..Len(inbox)
  BY <1>1, EmptySeq DEF InboxInv
<1>4. inbox' # <<>>
  BY <1>1
<1>5. pc' = "writeConfig" => inbox'[1].kind \in {"certificate", "typed"}
  BY <1>3 DEF InboxInv
<1> QED
  BY <1>2, <1>4, <1>5 DEF InboxInv, OfRun

\* The two parts of an answer to the request of this run.
LEMMA PartsOfRun ==
  ASSUME NEW typed \in SUBSET (1..2), SplitReply, request.csr = {run}, run \in 1..MaxRuns
  PROVE  /\ Parts(typed) \in Seq(Chunk) /\ Len(Parts(typed)) = 2
         /\ \A i \in 1..2 : OfRun(Parts(typed)[i])
  BY DEF Parts, Chunk, OfRun

\* Two records behind those that are there.
LEMMA ConcatParts ==
  ASSUME NEW s \in Seq(Chunk), NEW p \in Seq(Chunk), Len(p) = 2
  PROVE  /\ s \o p \in Seq(Chunk) /\ Len(s \o p) = Len(s) + 2
         /\ \A i \in 1..Len(s) : (s \o p)[i] = s[i]
         /\ \A i \in Len(s) + 1..Len(s \o p) : (s \o p)[i] = p[i - Len(s)]
<1>1. s \o p \in Seq(Chunk) /\ Len(s \o p) = Len(s) + Len(p)
  BY ConcatProperties
<1>2. \A i \in 1..Len(s) + Len(p) :
        (s \o p)[i] = IF i <= Len(s) THEN s[i] ELSE p[i - Len(s)]
  BY ConcatProperties
<1>3. Len(s) \in Nat
  BY LenProperties
<1> QED
  BY <1>1, <1>2, <1>3

\* Every step keeps the first two parts.
LEMMA KeyAndInboxStep == KeyInv /\ InboxInv /\ [Next]_vars => KeyInv' /\ InboxInv'
<1> SUFFICES ASSUME KeyInv, InboxInv, [Next]_vars PROVE KeyInv' /\ InboxInv'
  OBVIOUS
<1> USE DEF KeyInv, Steps, HasKey, HasCsr, HasRequest, HasSent
<1>1. CASE Start
  <2>1. run' \in 1..MaxRuns
    BY <1>1, RunAssumption DEF Start, InboxInv, RunAssumption
  <2>2. InboxInv'
    BY <1>1, <2>1 DEF Start, InboxInv, OfRun
  <2> QED
    BY <1>1, <2>2 DEF Start
<1>2. CASE GeneratePrivateKey
  BY <1>2, InboxKept DEF GeneratePrivateKey
<1>3. CASE OpenCsr
  BY <1>3, InboxKept DEF OpenCsr
<1>4. CASE CloseCsr
  BY <1>4, InboxKept DEF CloseCsr
<1>5. CASE FindPzp
  BY <1>5, InboxKept DEF FindPzp
<1>6. CASE NetConnect
  BY <1>6, InboxKept DEF NetConnect
<1>7. CASE ComposeCrashes
  BY <1>7, ExitKeepsKeyAndInbox DEF ComposeCrashes
<1>8. CASE Compose
  BY <1>8, InboxKept DEF Compose
<1>9. CASE SslWrite
  <2>1. ~sent /\ inbox = <<>>
    BY <1>9 DEF SslWrite, InboxInv
  <2>2. InboxInv'
    BY <1>9, <2>1 DEF SslWrite, InboxInv, OfRun
  <2> QED
    BY <1>9, <2>2 DEF SslWrite
<1>10. CASE ReadMessage
  BY <1>10, TailKeepsInbox DEF ReadMessage
<1>11. CASE ReadCertificate
  <2>1. inbox[1] = Head(inbox)
    BY <1>11, HeadTailProperties DEF ReadCertificate, InboxInv
  <2>2. InboxInv'
    BY <1>11, <2>1 DEF ReadCertificate, InboxInv, OfRun
  <2> QED
    BY <1>11, <2>2 DEF ReadCertificate
<1>12. CASE WriteConfig
  <2>1. inbox # <<>>
    BY <1>12 DEF WriteConfig, InboxInv
  <2> QED
    BY <1>12, <2>1, TailKeepsInbox DEF WriteConfig
<1>13. CASE ReadPart
  <2>1. CASE Exit
    BY <2>1, ExitKeepsKeyAndInbox
  <2>2. CASE ~Exit
    BY <1>13, <2>2, TailKeepsInbox DEF ReadPart
  <2> QED
    BY <2>1, <2>2
<1>14. CASE ReadEnds
  BY <1>14, InboxKept DEF ReadEnds
<1>15. CASE SslCloseNotify
  BY <1>15, ExitKeepsKeyAndInbox DEF SslCloseNotify
<1>16. CASE Crash
  BY <1>16, ExitKeepsKeyAndInbox DEF Crash
<1>17. CASE StrayFails
  BY <1>17, InboxKept DEF StrayFails
<1>18. CASE HubGreets
  <2> DEFINE c == [kind |-> "other", for |-> {}]
  <2>1. inbox \in Seq(Chunk) /\ c \in Chunk
    BY DEF InboxInv, Chunk
  <2>2. inbox' = Append(inbox, c)
    BY <1>18 DEF HubGreets
  <2>3. /\ inbox' \in Seq(Chunk) /\ Len(inbox') = Len(inbox) + 1
        /\ \A i \in 1..Len(inbox) : inbox'[i] = inbox[i]
        /\ inbox'[Len(inbox) + 1] = c
    BY <2>1, <2>2, AppendProperties
  <2>4. Len(inbox) \in Nat
    BY <2>1, LenProperties
  <2>5. \A i \in Len(inbox) + 1..Len(inbox') : OfRun(inbox'[i])
    BY <2>3, <2>4 DEF OfRun
  <2>6. InboxInv'
    BY <1>18, <2>3, <2>4, <2>5, SendKeepsInbox DEF HubGreets
  <2> QED
    BY <1>18, <2>6 DEF HubGreets
<1>19. CASE HubSigns
  <2> DEFINE c == [kind |-> "certificate", for |-> request.csr]
  <2>1. sent /\ request.csr = {run} /\ run \in 1..MaxRuns /\ inbox \in Seq(Chunk)
    BY <1>19 DEF HubSigns, InboxInv
  <2>2. c \in Chunk /\ OfRun(c)
    BY <2>1 DEF Chunk, OfRun
  <2> HIDE DEF c
  <2>3. ASSUME inbox' = Append(inbox, c)
        PROVE  InboxInv'
    <3>1. /\ inbox' \in Seq(Chunk) /\ Len(inbox') = Len(inbox) + 1
          /\ \A i \in 1..Len(inbox) : inbox'[i] = inbox[i]
          /\ inbox'[Len(inbox) + 1] = c
      BY <2>1, <2>2, <2>3, AppendProperties
    <3>2. Len(inbox) \in Nat
      BY <2>1, LenProperties
    <3>3. \A i \in Len(inbox) + 1..Len(inbox') : OfRun(inbox'[i])
      BY <2>2, <3>1, <3>2
    <3>4. Len(inbox') > Len(inbox)
      BY <3>1, <3>2
    <3> QED
      BY <1>19, <2>1, <3>1, <3>3, <3>4, SendKeepsInbox DEF HubSigns
  <2>4. ASSUME NEW typed \in SUBSET (1..2), SplitReply, inbox' = inbox \o Parts(typed)
        PROVE  InboxInv'
    <3>1. /\ Parts(typed) \in Seq(Chunk) /\ Len(Parts(typed)) = 2
          /\ \A i \in 1..2 : OfRun(Parts(typed)[i])
      BY <2>1, <2>4, PartsOfRun
    <3>2. /\ inbox' \in Seq(Chunk) /\ Len(inbox') = Len(inbox) + 2
          /\ \A i \in 1..Len(inbox) : inbox'[i] = inbox[i]
          /\ \A i \in Len(inbox) + 1..Len(inbox') : inbox'[i] = Parts(typed)[i - Len(inbox)]
      BY <2>1, <2>4, <3>1, ConcatParts
    <3>3. Len(inbox) \in Nat
      BY <2>1, LenProperties
    <3>4. \A i \in Len(inbox) + 1..Len(inbox') : OfRun(inbox'[i])
      <4> SUFFICES ASSUME NEW i \in Len(inbox) + 1..Len(inbox') PROVE OfRun(inbox'[i])
        OBVIOUS
      <4>1. i - Len(inbox) \in 1..2
        BY <3>2, <3>3
      <4> QED
        BY <3>1, <3>2, <4>1
    <3>5. Len(inbox') > Len(inbox)
      BY <3>2, <3>3
    <3> QED
      BY <1>19, <2>1, <3>2, <3>4, <3>5, SendKeepsInbox DEF HubSigns
  <2>5. InboxInv'
    BY <1>19, <2>3, <2>4 DEF HubSigns, c
  <2> QED
    BY <1>19, <2>5 DEF HubSigns
<1>20. CASE HubCloses
  BY <1>20, InboxKept DEF HubCloses
<1>21. CASE Network
  BY <1>21, InboxKept DEF Network
<1>22. CASE UNCHANGED vars
  BY <1>22, InboxKept DEF vars
<1> QED
  BY <1>1, <1>2, <1>3, <1>4, <1>5, <1>6, <1>7, <1>8, <1>9, <1>10, <1>11, <1>12,
     <1>13, <1>14, <1>15, <1>16, <1>17, <1>18, <1>19, <1>20, <1>21, <1>22
     DEF Next, Running

\* The machine name and the address are of one machine when they are found, and the
\* connection is to the one that has the address.
LEMMA AddressInit == Init => AddressInv
  BY NetworkAssumption
  DEF Init, AddressInv, HasRequest, HasCsr, HasKey, Steps, D!Init, D!ConfigAssumption

\* What the walk over a response and its owner name give is of its sender, or of nobody.
LEMMA ResponseOfSender ==
  ASSUME NEW d
  PROVE  /\ D!WalkResults(d) \subseteq {d.from, D!None, D!Garbage}
         /\ D!MachineName(d) \in {d.from, D!None}
  BY DEF D!WalkResults, D!MachineName

\* The end of a run forgets what was found.
LEMMA ExitKeepsAddress == AddressInv /\ Exit => AddressInv'
  BY DEF Exit, AddressInv, NoRequest, HasRequest, HasCsr, HasKey, Steps

\* A step that changes neither what was found nor the connection.
LEMMA AddressKept ==
  ASSUME AddressInv, UNCHANGED <<name, ip, link, hub, request, sent>>, up' \subseteq Peers,
         link # "none" => pc' \in HasRequest \cup {"compose"},
         pc' \in HasRequest => pc \in HasRequest
  PROVE  AddressInv'
  BY DEF AddressInv, HasRequest, HasCsr, HasKey, Steps

\* Every step keeps it.
LEMMA AddressStep == AddressInv /\ [Next]_vars => AddressInv'
<1> SUFFICES ASSUME AddressInv, [Next]_vars PROVE AddressInv'
  OBVIOUS
<1> USE DEF HasRequest, HasCsr, HasKey, Steps
<1>1. CASE FindPzp
  <2>1. link = "none" /\ ~ sent /\ link' = "none" /\ ~ sent' /\ up' \subseteq Peers
        /\ pc' \in {"findPzp", "net_connect"}
    <3>1. link = "none" /\ ~ sent
      BY <1>1 DEF FindPzp, AddressInv
    <3>2. up' = up
      BY <1>1 DEF FindPzp, D!FindPzp, D!SetMulticastConnection, D!SendQuery, D!SelectTimeout,
         D!SkipDatagram, D!TakeResponse, D!netVars
    <3> QED
      BY <1>1, <3>1, <3>2 DEF FindPzp, AddressInv
  <2>2. name' # D!None => ip' \in {name', D!None, D!Garbage}
    <3>1. CASE D!TakeResponse
      BY <3>1, ResponseOfSender DEF D!TakeResponse
    <3>2. CASE ~ D!TakeResponse
      <4>1. name' = name /\ ip' = ip
        BY <1>1, <3>2 DEF FindPzp, D!FindPzp, D!SetMulticastConnection, D!SendQuery,
           D!SelectTimeout, D!SkipDatagram
      <4> QED
        BY <4>1 DEF AddressInv
    <3> QED
      BY <3>1, <3>2
  <2> QED
    BY <2>1, <2>2 DEF AddressInv
<1>2. CASE NetConnect
  <2>1. /\ link' \in {"peer", "closed", "stray"} /\ pc' = "compose"
        /\ link' = "peer" => hub' \in up /\ ip \in {hub', D!Garbage}
        /\ UNCHANGED <<name, ip, up, request, sent>>
    BY <1>2 DEF NetConnect, Behind
  <2>2. ~ sent
    BY <1>2 DEF NetConnect, AddressInv
  <2> QED
    BY <2>1, <2>2 DEF AddressInv
<1>3. CASE Compose
  BY <1>3 DEF Compose, AddressInv
<1>4. CASE SslWrite
  BY <1>4 DEF SslWrite, AddressInv
<1>5. CASE StrayFails
  BY <1>5 DEF StrayFails, AddressInv
<1>6. CASE Network
  <2>1. up' \subseteq Peers /\ UNCHANGED <<name, ip, pc, link, hub, request, sent>>
    BY <1>6 DEF Network, D!Network, D!HearQuery, D!LoseQuery, D!Boot, D!Deliver,
       D!LoseDatagram, D!searchVars, AddressInv
  <2> QED
    BY <2>1, AddressKept DEF AddressInv
<1>7. CASE Exit
  BY <1>7, ExitKeepsAddress
<1>8. CASE Start \/ GeneratePrivateKey \/ OpenCsr \/ CloseCsr
  BY <1>8, AddressKept DEF Start, GeneratePrivateKey, OpenCsr, CloseCsr, AddressInv
<1>9. CASE ReadMessage \/ ReadCertificate \/ WriteConfig \/ (ReadPart /\ ~ Exit) \/ ReadEnds
  BY <1>9, AddressKept
  DEF ReadMessage, ReadCertificate, WriteConfig, ReadPart, ReadEnds, AddressInv
<1>10. CASE HubGreets \/ HubSigns \/ HubCloses \/ UNCHANGED vars
  BY <1>10, AddressKept DEF HubGreets, HubSigns, HubCloses, AddressInv, vars
<1> QED
  BY <1>1, <1>2, <1>3, <1>4, <1>5, <1>6, <1>7, <1>8, <1>9, <1>10
  DEF Next, Running, ComposeCrashes, SslCloseNotify, Crash

\* The three parts together.
LEMMA IInvInductive == (Init => IInv) /\ (IInv /\ [Next]_vars => IInv')
  BY KeyAndInboxInit, AddressInit, KeyAndInboxStep, AddressStep DEF IInv

\* The strengthening that the theorems below follow from.
THEOREM IInvAlways == Spec => []IInv
  BY IInvInductive, PTL DEF Spec

\* The peer only ever holds a request for the key the run has in memory, whatever
\* earlier runs left in pzp_csr (certificate.c:73-84, connect.c:52).
THEOREM RequestsOwnKeyAlways == Spec => []RequestsOwnKey
<1>1. IInv => RequestsOwnKey
  BY DEF IInv, KeyInv, RequestsOwnKey, Steps, HasKey, HasCsr, HasRequest, HasSent
<1> QED
  BY <1>1, IInvAlways, PTL

\* A request that reaches a peer names that peer, whatever the responses, lost, cut or
\* misread, have put into name and address, unless the address itself is misread bytes
\* (localDiscovery.c:163-195, connect.c:27, connect.c:48).
THEOREM ReachesItsAddresseeAlways == Spec => []ReachesItsAddressee
<1>1. IInv => ReachesItsAddressee
  <2> SUFFICES ASSUME IInv, sent, ip # D!Garbage PROVE request.to = hub
    BY DEF ReachesItsAddressee
  <2>1. pc \in HasRequest /\ link = "peer"
    BY DEF IInv, KeyInv, AddressInv, HasSent
  <2>2. request.to = name /\ name # D!None /\ hub \in Peers /\ hub = ip
    BY <2>1 DEF IInv, AddressInv
  <2>3. ip # D!None
    BY <2>2, NetworkAssumption DEF D!ConfigAssumption
  <2> QED
    BY <2>2, <2>3 DEF IInv, AddressInv
<1> QED
  BY <1>1, IInvAlways, PTL

\* certificate.json changes only to be emptied by writeConfig with an answer for the
\* key in memory at hand, and then to a certificate for that key or, if answers are
\* cut, to what is made of a part of one (connect.c:89-93, configuration.c:80-82).
THEOREM SavesOwnCertificateAlways == Spec => SavesOwnCertificate
<1> DEFINE Emptied == saved' = {} /\ pc' = "writeConfig" /\ inbox # <<>> /\ Head(inbox).for = key
           Written == pc = "writeConfig" /\ (saved' = key \/ (SplitReply /\ saved' = Torn))
<1>1. IInv /\ [Next]_vars => [Emptied \/ Written]_saved
  <2> SUFFICES ASSUME IInv, [Next]_vars
               PROVE  Emptied \/ Written \/ saved' = saved
    OBVIOUS
  <2>1. CASE ReadCertificate \/ WriteConfig
    <3>1. inbox \in Seq(Chunk) /\ inbox # <<>> /\ Head(inbox) = inbox[1]
      BY <2>1, HeadTailProperties DEF ReadCertificate, WriteConfig, IInv, InboxInv
    <3>2. inbox[1].kind \in {"certificate", "typed"}
      BY <2>1, <3>1 DEF ReadCertificate, WriteConfig, IInv, InboxInv
    <3>3. OfRun(inbox[1])
      <4>1. 1 \in 1..Len(inbox)
        BY <3>1, EmptySeq, LenProperties
      <4> QED
        BY <4>1 DEF IInv, InboxInv
    <3>4. key = {run}
      BY <2>1 DEF ReadCertificate, WriteConfig, IInv, KeyInv, Steps, HasKey
    <3>5. Head(inbox).for = key /\ (Head(inbox).kind = "typed" => SplitReply)
      BY <3>1, <3>2, <3>3, <3>4 DEF OfRun
    <3> QED
      BY <2>1, <3>1, <3>5 DEF ReadCertificate, WriteConfig
  <2>2. CASE ~ReadCertificate /\ ~WriteConfig
    BY <2>2 DEF Next, Running, Start, GeneratePrivateKey, OpenCsr, CloseCsr, FindPzp,
       NetConnect, ComposeCrashes, Compose, SslWrite, ReadMessage, ReadPart,
       ReadEnds, SslCloseNotify, Crash, Exit, StrayFails, HubGreets, HubSigns,
       HubCloses, Network, vars
  <2> QED
    BY <2>1, <2>2
<1> QED
  BY <1>1, IInvAlways, PTL DEF Spec, SavesOwnCertificate

-----------------------------------------------------------------------------
(* Types                                                                    *)

\* What a response of the network carries.
LEMMA ResponseOfPeer ==
  ASSUME NEW d \in D!Datagrams, d.response
  PROVE  d.from \in Peers
  BY DEF D!Datagrams, D!Question, D!Responses, D!Response

\* Every response a peer may send is a datagram.
LEMMA ResponseIsDatagram ==
  ASSUME NEW p \in Peers, NEW rs \in Records[p]
  PROVE  D!Response(p, rs) \in D!Datagrams
  BY DEF D!Datagrams, D!Responses

\* The search keeps the types of its own variables, inside a run as on its own.
LEMMA SearchTypes == D!TypeOK /\ (D!FindPzp \/ D!Network) => D!TypeOK'
<1> SUFFICES ASSUME D!TypeOK, D!FindPzp \/ D!Network PROVE D!TypeOK'
  OBVIOUS
<1> USE DEF D!TypeOK, D!searchVars, D!netVars
<1>1. CASE D!SetMulticastConnection \/ D!SendQuery \/ D!SelectTimeout
  BY <1>1 DEF D!SetMulticastConnection, D!SendQuery, D!SelectTimeout, D!Datagrams
<1>2. CASE D!SkipDatagram
  <2>1. rcvq' \in Seq(D!Datagrams)
    BY <1>2, HeadTailProperties DEF D!SkipDatagram
  <2> QED
    BY <1>2, <2>1 DEF D!SkipDatagram, D!Remaining
<1>3. CASE D!TakeResponse
  <2> DEFINE d == Head(rcvq)
  <2>1. rcvq' \in Seq(D!Datagrams) /\ d \in D!Datagrams /\ d.response
    BY <1>3, HeadTailProperties DEF D!TakeResponse, D!Matches
  <2>2. d.from \in Peers
    BY <2>1, ResponseOfPeer
  <2>3. name' \in Peers \cup {D!None} /\ ip' \in Peers \cup {D!None, D!Garbage}
    BY <1>3, <2>2, ResponseOfSender DEF D!TakeResponse
  <2> QED
    BY <1>3, <2>1, <2>3 DEF D!TakeResponse, D!Remaining
<1>4. ASSUME NEW p \in Peers, D!HearQuery(p) \/ D!LoseQuery(p) \/ D!Boot(p) PROVE D!TypeOK'
  BY <1>4, ResponseIsDatagram DEF D!HearQuery, D!LoseQuery, D!Boot
<1>5. ASSUME NEW d \in D!Datagrams, D!Deliver(d) \/ D!LoseDatagram(d) PROVE D!TypeOK'
  <2>1. rcvq' \in Seq(D!Datagrams)
    BY <1>5, AppendProperties DEF D!Deliver, D!LoseDatagram
  <2> QED
    BY <1>5, <2>1 DEF D!Deliver, D!LoseDatagram
<1> QED
  BY <1>1, <1>2, <1>3, <1>4, <1>5 DEF D!FindPzp, D!Network

\* The variables of the run itself.
RunTypes ==
  /\ key \in SUBSET (1..MaxRuns)
  /\ csrFile \in SUBSET (1..MaxRuns)
  /\ link \in Links
  /\ hub \in Peers \cup {D!None}
  /\ request \in Requests
  /\ sent \in BOOLEAN
  /\ hubSent \in 0..2
  /\ hubClosed \in BOOLEAN
  /\ saved \in SUBSET (0..MaxRuns)

\* Where the run is, its number and the inbox have their types by the invariant.
LEMMA TypeOKParts == IInv /\ D!TypeOK /\ RunTypes => TypeOK
  BY DEF IInv, KeyInv, InboxInv, RunTypes, TypeOK

\* A run that is over leaves nothing but its files.
LEMMA ExitTypes == D!TypeOK /\ RunTypes /\ Exit => D!TypeOK' /\ RunTypes'
<1> SUFFICES ASSUME D!TypeOK, RunTypes, Exit PROVE D!TypeOK' /\ RunTypes'
  OBVIOUS
<1>1. D!TypeOK'
  BY EmptySeq DEF Exit, D!TypeOK
<1>2. NoRequest \in Requests
  BY DEF NoRequest, Requests
<1>3. RunTypes'
  <2>1. request' \in Requests /\ link' \in Links /\ hub' \in Peers \cup {D!None}
    BY <1>2 DEF Exit, Links
  <2>2. sent' \in BOOLEAN /\ hubClosed' \in BOOLEAN
    BY DEF Exit
  <2>3. hubSent' \in 0..2
    BY DEF Exit
  <2>4. key' \in SUBSET (1..MaxRuns) /\ csrFile' \in SUBSET (1..MaxRuns)
        /\ saved' \in SUBSET (0..MaxRuns)
    BY DEF Exit, RunTypes
  <2> QED
    BY <2>1, <2>2, <2>3, <2>4 DEF RunTypes
<1> QED
  BY <1>1, <1>3

\* What a certificate in the inbox is for is a set of keys.
LEMMA HeadIsChunk ==
  ASSUME InboxInv, inbox # <<>>
  PROVE  Head(inbox).for \in SUBSET (1..MaxRuns) /\ Head(inbox).for \in SUBSET (0..MaxRuns)
<1>1. Head(inbox) \in Chunk
  BY HeadTailProperties DEF InboxInv
<1>2. SUBSET (1..MaxRuns) \subseteq SUBSET (0..MaxRuns)
  BY RunAssumption
<1> QED
  BY <1>1, <1>2 DEF Chunk

\* The variables keep their types for any network, any number of runs and any deaths.
THEOREM TypeCorrect == Spec => []TypeOK
<1> DEFINE Types == D!TypeOK /\ RunTypes
<1>1. Init => Types
  <2> SUFFICES ASSUME Init PROVE D!TypeOK /\ RunTypes
    OBVIOUS
  <2>1. D!TypeOK
    BY NetworkAssumption, EmptySeq DEF Init, D!Init, D!TypeOK, D!ConfigAssumption
  <2>2. NoRequest \in Requests
    BY DEF NoRequest, Requests
  <2>3. RunTypes
    <3>1. request \in Requests /\ link \in Links /\ hub \in Peers \cup {D!None}
      BY <2>2 DEF Init, Links
    <3>2. sent \in BOOLEAN /\ hubClosed \in BOOLEAN
      BY DEF Init
    <3>3. hubSent \in 0..2
      BY DEF Init
    <3>4. key \in SUBSET (1..MaxRuns) /\ csrFile \in SUBSET (1..MaxRuns)
          /\ saved \in SUBSET (0..MaxRuns)
      BY DEF Init
    <3> QED
      BY <3>1, <3>2, <3>3, <3>4 DEF RunTypes
  <2> QED
    BY <2>1, <2>3
<1>2. IInv /\ Types /\ [Next]_vars => Types'
  <2> SUFFICES ASSUME IInv, D!TypeOK, RunTypes, [Next]_vars PROVE D!TypeOK' /\ RunTypes'
    OBVIOUS
  <2>1. CASE FindPzp \/ Network
    BY <2>1, SearchTypes DEF FindPzp, Network, RunTypes
  <2>2. CASE Exit
    BY <2>2, ExitTypes
  <2>3. CASE Start \/ GeneratePrivateKey \/ OpenCsr \/ CloseCsr \/ NetConnect
    <3>1. run \in 0..MaxRuns /\ (pc # "exit" => run # 0)
      BY DEF IInv, InboxInv
    <3>2. D!TypeOK'
      BY <2>3 DEF Start, GeneratePrivateKey, OpenCsr, CloseCsr, NetConnect, D!TypeOK
    <3>3. CASE GeneratePrivateKey
      <4>1. {run} \in SUBSET (1..MaxRuns)
        BY <3>1, <3>3, RunAssumption DEF GeneratePrivateKey
      <4> QED
        BY <3>2, <3>3, <4>1 DEF GeneratePrivateKey, RunTypes
    <3>4. CASE ~ GeneratePrivateKey
      <4>1. NetConnect => link' \in Links /\ hub' \in Peers \cup {D!None}
        BY DEF NetConnect, Behind, RunTypes, Links, IInv, AddressInv
      <4> QED
        BY <2>3, <3>2, <3>4, <4>1 DEF Start, OpenCsr, CloseCsr, NetConnect, RunTypes
    <3> QED
      BY <3>3, <3>4
  <2>4. CASE Compose
    <3>1. name \in Peers \cup {D!None}
      BY DEF D!TypeOK
    <3> QED
      BY <2>4, <3>1 DEF Compose, D!TypeOK, RunTypes, Requests
  <2>5. CASE WriteConfig
    <3>1. Head(inbox).for \in SUBSET (0..MaxRuns) /\ Torn \in SUBSET (0..MaxRuns)
      BY <2>5, HeadIsChunk, RunAssumption DEF WriteConfig, IInv, InboxInv, Torn
    <3> QED
      BY <2>5, <3>1 DEF WriteConfig, D!TypeOK, RunTypes
  <2>6. CASE SslWrite \/ ReadMessage \/ ReadCertificate \/ (ReadPart /\ ~ Exit) \/ ReadEnds
    <3>1. D!TypeOK'
      BY <2>6 DEF SslWrite, ReadMessage, ReadCertificate, ReadPart, ReadEnds, D!TypeOK
    <3>2. UNCHANGED <<key, csrFile, link, hub, request, hubSent, hubClosed>>
      BY <2>6 DEF SslWrite, ReadMessage, ReadCertificate, ReadPart, ReadEnds
    <3>3. sent' \in BOOLEAN
      BY <2>6 DEF SslWrite, ReadMessage, ReadCertificate, ReadPart, ReadEnds, RunTypes
    <3>4. saved' \in SUBSET (0..MaxRuns)
      BY <2>6 DEF SslWrite, ReadMessage, ReadCertificate, ReadPart, ReadEnds, RunTypes
    <3> QED
      BY <3>1, <3>2, <3>3, <3>4 DEF RunTypes
  <2>7. CASE StrayFails \/ HubGreets \/ HubSigns \/ HubCloses \/ UNCHANGED vars
    <3>1. D!TypeOK'
      BY <2>7 DEF StrayFails, HubGreets, HubSigns, HubCloses, vars, D!TypeOK
    <3>2. UNCHANGED <<key, csrFile, hub, request, sent, saved>>
      BY <2>7 DEF StrayFails, HubGreets, HubSigns, HubCloses, vars
    <3>3. link' \in Links
      BY <2>7 DEF StrayFails, HubGreets, HubSigns, HubCloses, vars, RunTypes, Links
    <3>4. hubSent' \in 0..2
      BY <2>7 DEF StrayFails, HubGreets, HubSigns, HubCloses, vars, RunTypes
    <3>5. hubClosed' \in BOOLEAN
      BY <2>7 DEF StrayFails, HubGreets, HubSigns, HubCloses, vars, RunTypes
    <3>6. RunTypes'
      BY <3>2, <3>3, <3>4, <3>5 DEF RunTypes
    <3> QED
      BY <3>1, <3>6
  <2> QED
    BY <2>1, <2>2, <2>3, <2>4, <2>5, <2>6, <2>7
    DEF Next, Running, ComposeCrashes, SslCloseNotify, Crash
<1>3. Spec => []IInv
  BY IInvAlways
<1>4. IInv /\ Types => TypeOK
  BY TypeOKParts
<1> QED
  BY <1>1, <1>2, <1>3, <1>4, PTL DEF Spec

-----------------------------------------------------------------------------
(* A network without long records                                           *)

\* Without a long record there is nothing to misread for an address.
LEMMA NothingMisread ==
  ASSUME D!NoLongRecords, NEW d \in D!Datagrams, d.response
  PROVE  D!Garbage \notin D!WalkResults(d)
<1>1. d.from \in Peers /\ d.records \in Records[d.from]
  BY DEF D!Datagrams, D!Question, D!Responses, D!Response
<1>2. d.from \in Peers /\ (\A i \in DOMAIN d.records : d.records[i] # "long")
  BY <1>1 DEF D!NoLongRecords
<1>3. D!WalkResults(d) \subseteq {d.from, D!None}
  BY <1>2 DEF D!WalkResults
<1> QED
  BY <1>2, <1>3, NetworkAssumption DEF D!ConfigAssumption, D!None, D!Garbage

\* Where no response has a record of 256 bytes or more, every request that reaches a
\* peer names that peer: misread addresses are all that stands against it
\* (localDiscovery.c:190-195, connect.c:27, connect.c:48).
THEOREM AlwaysTheAddressee ==
  ASSUME D!NoLongRecords
  PROVE  Spec => [](sent => request.to = hub)
<1> DEFINE WellRead == ip # D!Garbage
<1>1. Init => WellRead
  BY DEF Init, D!Init, D!None, D!Garbage
<1>2. TypeOK /\ WellRead /\ [Next]_vars => WellRead'
  <2> SUFFICES ASSUME TypeOK, ip # D!Garbage, [Next]_vars PROVE ip' # D!Garbage
    OBVIOUS
  <2>1. CASE D!TakeResponse
    <3>1. Head(rcvq) \in D!Datagrams /\ Head(rcvq).response
      BY <2>1, HeadTailProperties DEF D!TakeResponse, D!Matches, TypeOK, D!TypeOK
    <3> QED
      BY <2>1, <3>1, NothingMisread DEF D!TakeResponse
  <2>2. CASE Exit
    BY <2>2 DEF Exit, D!None, D!Garbage
  <2>3. CASE ~ D!TakeResponse /\ ~ Exit
    <3>1. UNCHANGED ip
      BY <2>3 DEF Next, Running, Start, GeneratePrivateKey, OpenCsr, CloseCsr, FindPzp,
         D!FindPzp, D!SetMulticastConnection, D!SendQuery, D!SelectTimeout, D!SkipDatagram,
         NetConnect, ComposeCrashes, Compose, SslWrite, ReadMessage, ReadCertificate,
         WriteConfig, ReadPart, ReadEnds, SslCloseNotify, Crash, StrayFails, HubGreets,
         HubSigns, HubCloses, Network, D!Network, D!HearQuery, D!LoseQuery, D!Boot,
         D!Deliver, D!LoseDatagram, D!searchVars, vars
    <3> QED
      BY <3>1
  <2> QED
    BY <2>1, <2>2, <2>3
<1>3. ReachesItsAddressee /\ WellRead => (sent => request.to = hub)
  BY DEF ReachesItsAddressee
<1> QED
  BY <1>1, <1>2, <1>3, TypeCorrect, ReachesItsAddresseeAlways, PTL DEF Spec

=============================================================================

------------------------------ MODULE Enrolment ------------------------------
(***************************************************************************)
(* A run of the native PZP (main.c, connect.c, certificate.c): it makes a  *)
(* fresh key, writes the request for its certificate to pzp_csr, searches  *)
(* for a peer PZP, sends the request it reads back to what it found, and   *)
(* reads until the peer ends the connection, saving the certificate it is  *)
(* sent.  The program may die anywhere and be started again.               *)
(*                                                                         *)
(* findPzp is the module Discovery, step by step.  TLS is what it promises *)
(* its callers (module ByteStream), a record at a time: one ssl_read       *)
(* returns one record of the peer.                                         *)
(***************************************************************************)
EXTENDS Naturals, Sequences, FiniteSets

CONSTANTS
  Peers, Owner, Records, UpAtStart, LossyFrom, BindFails,  \* see Discovery
  MaxRuns,     \* bound: how often the program is started
  Crashes,     \* may the program die at any moment, killed or by a memory fault?
  HubFails,    \* may the peer refuse a connection or close it unanswered?
  SplitReply   \* may the peer's answer be cut into two records?

ASSUME RunAssumption ==
  /\ MaxRuns \in Nat \ {0}
  /\ {Crashes, HubFails, SplitReply} \subseteq BOOLEAN

VARIABLES
  searching, sock, timer, up, asked, inflight, rcvq, name, ip,  \* see Discovery
  pc,        \* where the run is, see Steps
  run,       \* the number of runs so far
  key,       \* the private key in memory, {run} or none
  csrFile,   \* pzp_csr: {k} when it is the request for key k, {} when empty
  link,      \* what server_fd is, see Links
  hub,       \* the peer the connection is to, if there is one
  request,   \* sendBuf: the machine it names and the key it is for
  sent,      \* has ssl_write sent the request?
  hubSent,   \* how often the peer has sent something on this connection
  inbox,     \* records of the peer that ssl_read has not returned
  hubClosed, \* the peer has closed the connection
  saved      \* certificate.json: {k} when it is a certificate for key k, {} when
             \* empty, Torn when it holds what was made of a part of one

searchVars == <<searching, sock, timer, name, ip>>
netVars == <<up, asked, inflight, rcvq>>
fileVars == <<csrFile, saved>>
linkVars == <<link, hub, request, sent, hubSent, inbox, hubClosed>>
vars == <<searching, sock, timer, up, asked, inflight, rcvq, name, ip,
          pc, run, key, csrFile, link, hub, request, sent, hubSent, inbox, hubClosed,
          saved>>

D == INSTANCE Discovery WITH pc <- searching

ASSUME NetworkAssumption == D!ConfigAssumption

\* The functions of a run, in the order initializePzp and connectPzp call them.
\* A run that is over is in "exit", one that loops in parseJSON in "hung".
Steps == {"genkey", "fopen", "fclose", "findPzp", "net_connect", "compose",
          "ssl_write", "ssl_read", "writeConfig", "ssl_close_notify", "exit",
          "hung"}

\* No descriptor yet, the connection to a peer, a closed descriptor, or, when
\* net_connect has set none, a descriptor of something else.
Links == {"none", "peer", "closed", "stray"}

NoRequest == [to |-> D!None, csr |-> {}]
Requests == [to : Peers \cup {D!None}, csr : SUBSET (1..MaxRuns)]

\* A record of the peer: a certificate for the key, a part of one, with the type of
\* the message in it or without, or another message.
Chunk == [kind : {"certificate", "typed", "part", "other"}, for : SUBSET (1..MaxRuns)]

\* What certificate.json holds when it is not what the peer sent: no key is 0.
Torn == {0}

\* The run is over: its memory, its key and its sockets are gone.
Exit ==
  /\ pc' = "exit"
  /\ key' = {}
  /\ searching' = "open" /\ sock' = "stdin" /\ timer' = "full"
  /\ rcvq' = <<>> /\ name' = D!None /\ ip' = D!None
  /\ link' = "none" /\ hub' = D!None /\ request' = NoRequest /\ sent' = FALSE
  /\ hubSent' = 0 /\ inbox' = <<>> /\ hubClosed' = FALSE
  /\ UNCHANGED <<run, up, asked, inflight>>
  /\ UNCHANGED fileVars

-----------------------------------------------------------------------------
(* initializePzp *)

\* main starts over each time, whatever an earlier run has left behind.
Start ==
  /\ pc = "exit"
  /\ run < MaxRuns
  /\ run' = run + 1
  /\ pc' = "genkey"
  /\ UNCHANGED <<key>>
  /\ UNCHANGED fileVars
  /\ UNCHANGED linkVars
  /\ UNCHANGED searchVars
  /\ UNCHANGED netVars

GeneratePrivateKey ==
  /\ pc = "genkey"
  /\ key' = {run}
  /\ pc' = "fopen"
  /\ UNCHANGED <<run>>
  /\ UNCHANGED fileVars
  /\ UNCHANGED linkVars
  /\ UNCHANGED searchVars
  /\ UNCHANGED netVars

\* Defect: a request that is there already is taken over.
OpenCsrOnce ==
  /\ pc = "fopen"
  /\ pc' = IF csrFile = {} THEN "fclose" ELSE "findPzp"
  /\ UNCHANGED <<run, key>>
  /\ UNCHANGED fileVars
  /\ UNCHANGED linkVars
  /\ UNCHANGED searchVars
  /\ UNCHANGED netVars

\* fopen empties pzp_csr; what is written to it stays in the stream's buffer.
OpenCsr ==
  /\ pc = "fopen"
  /\ csrFile' = {}
  /\ pc' = "fclose"
  /\ UNCHANGED <<run, key, saved>>
  /\ UNCHANGED linkVars
  /\ UNCHANGED searchVars
  /\ UNCHANGED netVars

CloseCsr ==
  /\ pc = "fclose"
  /\ csrFile' = key
  /\ pc' = "findPzp"
  /\ UNCHANGED <<run, key, saved>>
  /\ UNCHANGED linkVars
  /\ UNCHANGED searchVars
  /\ UNCHANGED netVars

FindPzp ==
  /\ pc = "findPzp"
  /\ D!FindPzp
  /\ pc' = IF searching' = "returned" THEN "net_connect" ELSE "findPzp"
  /\ UNCHANGED <<run, key>>
  /\ UNCHANGED fileVars
  /\ UNCHANGED linkVars

-----------------------------------------------------------------------------
(* connectPzp *)

\* Who accepts a connection to the address: a peer that offers the service, while
\* it runs.  Four bytes of a response that were misread are an address all the
\* same, and anybody's.
Behind(a) == {p \in up : Owner[p] # "other" /\ a \in {p, D!Garbage}}

\* The result of net_connect is ignored.  When connect fails the descriptor is
\* closed; when the address is empty it was never set and is whatever the stack
\* holds.
NetConnect ==
  /\ pc = "net_connect"
  /\ \/ \E p \in Behind(ip) : link' = "peer" /\ hub' = p
     \/ /\ HubFails \/ ip = D!Garbage \/ Behind(ip) = {}
        /\ link' = "closed" /\ hub' = hub
     \/ ip = D!None /\ link' = "stray" /\ hub' = hub
  /\ pc' = "compose"
  /\ UNCHANGED <<run, key, request, sent, hubSent, inbox, hubClosed>>
  /\ UNCHANGED fileVars
  /\ UNCHANGED searchVars
  /\ UNCHANGED netVars

\* LOG(connMachineName) reads through the pointer, which findPzp leaves NULL
\* when the response has the bare service for its owner name.
ComposeCrashes ==
  /\ pc = "compose"
  /\ name = D!None
  /\ Exit

\* Defect: the request names the machine that answered, not the one found.
ComposeAnyName ==
  /\ pc = "compose"
  /\ name # D!None
  /\ \E p \in up : request' = [to |-> p, csr |-> csrFile]
  /\ pc' = "ssl_write"
  /\ UNCHANGED <<run, key, link, hub, sent, hubSent, inbox, hubClosed>>
  /\ UNCHANGED fileVars
  /\ UNCHANGED searchVars
  /\ UNCHANGED netVars

\* The request is read back from the file.
Compose ==
  /\ pc = "compose"
  /\ name # D!None
  /\ request' = [to |-> name, csr |-> csrFile]
  /\ pc' = "ssl_write"
  /\ UNCHANGED <<run, key, link, hub, sent, hubSent, inbox, hubClosed>>
  /\ UNCHANGED fileVars
  /\ UNCHANGED searchVars
  /\ UNCHANGED netVars

\* ssl_write performs the handshake and sends the request; its result is ignored.
\* On a descriptor that is something else it waits for a ServerHello.
SslWrite ==
  /\ pc = "ssl_write"
  /\ link # "stray"
  /\ sent' = (link = "peer" /\ ~hubClosed)
  /\ pc' = "ssl_read"
  /\ UNCHANGED <<run, key, link, hub, request, hubSent, inbox, hubClosed>>
  /\ UNCHANGED fileVars
  /\ UNCHANGED searchVars
  /\ UNCHANGED netVars

\* Defect: the type of the message is not looked at.
ReadMessageUnchecked ==
  /\ pc = "ssl_read"
  /\ inbox # <<>> /\ Head(inbox).kind = "other"
  /\ inbox' = Tail(inbox)
  /\ saved' = Head(inbox).for
  /\ UNCHANGED <<pc, run, key, csrFile, link, hub, request, sent, hubSent, hubClosed>>
  /\ UNCHANGED searchVars
  /\ UNCHANGED netVars

\* Defect: the loop ends with the first record, whatever it is.
ReadOnce ==
  /\ pc = "ssl_read"
  /\ inbox # <<>> /\ Head(inbox).kind = "other"
  /\ inbox' = Tail(inbox)
  /\ pc' = "ssl_close_notify"
  /\ UNCHANGED <<run, key, link, hub, request, sent, hubSent, hubClosed>>
  /\ UNCHANGED fileVars
  /\ UNCHANGED searchVars
  /\ UNCHANGED netVars

\* A record with a whole message in it is parsed; the loop goes on.
ReadMessage ==
  /\ pc = "ssl_read"
  /\ inbox # <<>> /\ Head(inbox).kind = "other"
  /\ inbox' = Tail(inbox)
  /\ UNCHANGED <<pc, run, key, link, hub, request, sent, hubSent, hubClosed>>
  /\ UNCHANGED fileVars
  /\ UNCHANGED searchVars
  /\ UNCHANGED netVars

\* The record has the type of the certificate's message in it: writeConfig empties
\* the file first.  A part that is cut behind a delimiter is parsed to its end, and
\* its type is found like that of a whole message.
ReadCertificate ==
  /\ pc = "ssl_read"
  /\ inbox # <<>> /\ Head(inbox).kind \in {"certificate", "typed"}
  /\ saved' = {}
  /\ pc' = "writeConfig"
  /\ UNCHANGED <<run, key, csrFile>>
  /\ UNCHANGED linkVars
  /\ UNCHANGED searchVars
  /\ UNCHANGED netVars

\* The file has its content with fclose: the message, of which a part may lack
\* the certificate or an end of it.
WriteConfig ==
  /\ pc = "writeConfig"
  /\ \/ saved' = Head(inbox).for
     \/ Head(inbox).kind = "typed" /\ saved' = Torn
  /\ inbox' = Tail(inbox)
  /\ pc' = "ssl_read"
  /\ UNCHANGED <<run, key, csrFile, link, hub, request, sent, hubSent, hubClosed>>
  /\ UNCHANGED searchVars
  /\ UNCHANGED netVars

\* A part of a message is parsed as if it were one: findValue runs past its end
\* in search of a closing brace, and parseJSON may not get on any more.  What is
\* not saved (ReadCertificate) is passed over.
ReadPart ==
  /\ pc = "ssl_read"
  /\ inbox # <<>>
  /\ Head(inbox).kind \in {"typed", "part"}
  /\ \/ /\ inbox' = Tail(inbox)
        /\ pc' \in {"ssl_read", "hung"}
        /\ UNCHANGED <<run, key, link, hub, request, sent, hubSent, hubClosed>>
        /\ UNCHANGED fileVars
        /\ UNCHANGED searchVars
        /\ UNCHANGED netVars
     \/ Exit

\* Defect: only an orderly close ends the loop.
ReadEndsOrderly ==
  /\ pc = "ssl_read"
  /\ link = "peer" /\ hubClosed /\ inbox = <<>>
  /\ pc' = "ssl_close_notify"
  /\ UNCHANGED <<run, key>>
  /\ UNCHANGED linkVars
  /\ UNCHANGED fileVars
  /\ UNCHANGED searchVars
  /\ UNCHANGED netVars

\* PEER_CLOSE_NOTIFY, 0 or an error ends the loop; the handshake over a closed
\* descriptor fails.
ReadEnds ==
  /\ pc = "ssl_read"
  /\ link = "closed" \/ (hubClosed /\ inbox = <<>>)
  /\ pc' = "ssl_close_notify"
  /\ UNCHANGED <<run, key>>
  /\ UNCHANGED linkVars
  /\ UNCHANGED fileVars
  /\ UNCHANGED searchVars
  /\ UNCHANGED netVars

\* connectPzp returns, and main frees the key and returns as well.
SslCloseNotify ==
  /\ pc = "ssl_close_notify"
  /\ Exit

-----------------------------------------------------------------------------
(* The surroundings (external) *)

Crash ==
  /\ Crashes
  /\ pc # "exit"
  /\ Exit

\* The stray descriptor delivers something, which is no ServerHello.
StrayFails ==
  /\ link = "stray"
  /\ link' = "closed"
  /\ UNCHANGED <<pc, run, key, hub, request, sent, hubSent, inbox, hubClosed>>
  /\ UNCHANGED fileVars
  /\ UNCHANGED searchVars
  /\ UNCHANGED netVars

\* The peer may send another message first.
HubGreets ==
  /\ sent /\ ~hubClosed /\ hubSent = 0
  /\ hubSent' = 1
  /\ inbox' = Append(inbox, [kind |-> "other", for |-> {}])
  /\ UNCHANGED <<pc, run, key, csrFile, link, hub, request, sent, hubClosed, saved>>
  /\ UNCHANGED searchVars
  /\ UNCHANGED netVars

\* The two records of an answer that is cut, those of typed with its type.
Parts(typed) ==
  [i \in 1..2 |-> [kind |-> IF i \in typed THEN "typed" ELSE "part", for |-> request.csr]]

\* It signs the request it was sent.  The type of its answer is in one of the two
\* parts, or is cut itself.
HubSigns ==
  /\ sent /\ ~hubClosed /\ hubSent < 2
  /\ hubSent' = 2
  /\ \/ inbox' = Append(inbox, [kind |-> "certificate", for |-> request.csr])
     \/ /\ SplitReply
        /\ \E typed \in SUBSET (1..2) :
             /\ typed # 1..2
             /\ inbox' = inbox \o Parts(typed)
  /\ UNCHANGED <<pc, run, key, csrFile, link, hub, request, sent, hubClosed, saved>>
  /\ UNCHANGED searchVars
  /\ UNCHANGED netVars

HubCloses ==
  /\ link = "peer" /\ ~hubClosed
  /\ HubFails \/ hubSent = 2
  /\ hubClosed' = TRUE
  /\ UNCHANGED <<pc, run, key, csrFile, link, hub, request, sent, hubSent, inbox, saved>>
  /\ UNCHANGED searchVars
  /\ UNCHANGED netVars

Network ==
  /\ D!Network
  /\ UNCHANGED <<pc, run, key>>
  /\ UNCHANGED fileVars
  /\ UNCHANGED linkVars

-----------------------------------------------------------------------------

Init ==
  /\ D!Init
  /\ pc = "exit"
  /\ run = 0
  /\ key = {}
  /\ csrFile = {}
  /\ link = "none"
  /\ hub = D!None
  /\ request = NoRequest
  /\ sent = FALSE
  /\ hubSent = 0
  /\ inbox = <<>>
  /\ hubClosed = FALSE
  /\ saved = {}

Running ==
  \/ GeneratePrivateKey \/ OpenCsr \/ CloseCsr \/ FindPzp
  \/ NetConnect \/ ComposeCrashes \/ Compose \/ SslWrite
  \/ ReadMessage \/ ReadCertificate \/ WriteConfig \/ ReadPart
  \/ ReadEnds \/ SslCloseNotify

Next ==
  \/ Start \/ Running \/ Crash
  \/ StrayFails \/ HubGreets \/ HubSigns \/ HubCloses
  \/ Network

Spec == Init /\ [][Next]_vars

\* The program does not stop by itself, the network is Discovery's, and a peer
\* that has the request signs it.  Nothing makes a peer close a connection.
Fairness ==
  /\ WF_vars(Start)
  /\ WF_vars(Running)
  /\ WF_vars(HubSigns)
  /\ WF_vars(\E p \in Peers : D!HearQuery(p) /\ Network)
  /\ WF_vars(\E d \in D!Datagrams : D!Deliver(d) /\ Network)

FairSpec == Spec /\ Fairness

-----------------------------------------------------------------------------

TypeOK ==
  /\ D!TypeOK
  /\ pc \in Steps
  /\ run \in 0..MaxRuns
  /\ key \in SUBSET (1..MaxRuns)
  /\ csrFile \in SUBSET (1..MaxRuns)
  /\ link \in Links
  /\ hub \in Peers \cup {D!None}
  /\ request \in Requests
  /\ sent \in BOOLEAN
  /\ hubSent \in 0..2
  /\ inbox \in Seq(Chunk)
  /\ hubClosed \in BOOLEAN
  /\ saved \in SUBSET (0..MaxRuns)

-----------------------------------------------------------------------------

\* The peer is asked to sign the key this run holds, although the request goes
\* through a file that earlier runs, killed at any moment, have left in any state
\* (certificate.c:73-84, configuration.c:44-47, connect.c:52).
RequestsOwnKey == sent => request.csr = {run} /\ key = {run}

\* A request that reaches a peer names that peer, as the address and the machine
\* name findPzp returned are those of one machine.  Bytes misread for an address
\* (localDiscovery.c:190-195) are the one way to another (connect.c:27, connect.c:48).
ReachesItsAddressee == sent => request.to = hub \/ ip = D!Garbage

\* A certificate that is saved is one for the key in memory at that moment, or, when
\* the answer was cut, what was made of a part of one; and the older one is given up
\* only with an answer for that key at hand.  That a run which dies between emptying
\* the file and writing it leaves no certificate at all is what the code does
\* (connect.c:91-93, configuration.c:80-82).
SavesOwnCertificate ==
  [][\/ saved' = {} /\ pc' = "writeConfig" /\ inbox # <<>> /\ Head(inbox).for = key
     \/ pc = "writeConfig" /\ (saved' = key \/ (SplitReply /\ saved' = Torn))]_saved

\* The peer refuses the connection or closes it unanswered.
Refused == link = "closed" \/ (hubClosed /\ hubSent < 2)

\* On a network that loses nothing, with peers that answer with machine name and
\* address, each run saves a certificate for its key, or is refused
\* (main.c:7-35, connect.c:63-99).
Enrols ==
  \A k \in 1..MaxRuns :
    (run = k /\ pc = "genkey") ~> (saved = {k} \/ (run = k /\ Refused))

\* What makes RequestsOwnKey and SavesOwnCertificate inductive: where in a run the
\* key, the file and the request are those of this run (main.c:20-29), and every
\* certificate under way is for the key of the connection's run.
HasKey == Steps \ {"exit", "genkey"}
HasCsr == HasKey \ {"fopen", "fclose"}
HasRequest == HasCsr \ {"findPzp", "net_connect", "compose"}
HasSent == HasRequest \ {"ssl_write"}

KeyInv ==
  /\ pc \in Steps
  /\ pc \in HasKey => key = {run}
  /\ pc \in HasCsr => csrFile = {run}
  /\ pc \in HasRequest => request.csr = {run}
  /\ sent => pc \in HasSent

OfRun(chunk) ==
  /\ chunk.kind \in {"certificate", "typed"} => chunk.for = {run}
  /\ chunk.kind = "typed" => SplitReply

InboxInv ==
  /\ run \in 0..MaxRuns
  /\ pc # "exit" => run # 0
  /\ inbox \in Seq(Chunk)
  /\ inbox # <<>> => sent
  /\ \A i \in 1..Len(inbox) : OfRun(inbox[i])
  /\ pc = "writeConfig" => inbox # <<>> /\ inbox[1].kind \in {"certificate", "typed"}

\* What ReachesItsAddressee rests on: the machine name and the address belong to one
\* machine, unless the address was misread, the connection is to who has it, and both
\* stay what they are from net_connect on (localDiscovery.c:163-195, connect.c:27-48).
AddressInv ==
  /\ up \subseteq Peers
  /\ name # D!None => ip \in {name, D!None, D!Garbage}
  /\ link # "none" => pc \in HasRequest \cup {"compose"}
  /\ link = "peer" => hub \in Peers /\ (hub = ip \/ ip = D!Garbage)
  /\ pc \in HasRequest => name # D!None /\ request.to = name
  /\ sent => link = "peer"

IInv == KeyInv /\ InboxInv /\ AddressInv

\* Once the peer has closed the connection, or did not accept it, the run ends,
\* or hangs in what it makes of half a message (connect.c:65-94).
RunEnds == (link = "closed" \/ hubClosed) ~> (pc \in {"exit", "hung"})

=============================================================================

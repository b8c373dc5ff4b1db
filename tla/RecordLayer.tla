----------------------------- MODULE RecordLayer -----------------------------
(***************************************************************************)
(* The record layer of an established TLS connection (ssl_tls.c): ssl_read, *)
(* ssl_write and ssl_close_notify at both ends, on top of the partial reads *)
(* and writes of a socket (net.c).                                         *)
(*                                                                         *)
(* Every f_send and every f_recv is a step of its own, so the ends          *)
(* interleave inside their calls.  A call that would block returns and     *)
(* leaves its buffers for the next one, as the library's users rely on.    *)
(*                                                                         *)
(* Application data is the stream 1, 2, 3, ... of byte positions, and a     *)
(* byte on the wire is <<k, j>>, byte j of the k-th record of its sender:   *)
(* encryption and MAC make any other byte useless to the receiver.          *)
(***************************************************************************)
EXTENDS Integers, Sequences

CONSTANTS
  End,          \* the two ends of the connection
  Peer,         \* Peer[e]: the other end
  HdrLen,       \* bytes of a record header (5)
  MacLen,       \* bytes the cipher adds to a payload
  MaxContent,   \* SSL_MAX_CONTENT_LEN, the most data one record carries
  WriteLens,    \* the lengths applications pass to ssl_write
  ReadLens,     \* the lengths applications pass to ssl_read
  MaxRecords,   \* bound: ssl_write prepares records while e has fewer than these
  MayBlock,     \* may f_send or f_recv return WANT_WRITE or WANT_READ?
  ShortHeader,  \* may f_send take a part of a record header only?
  HelloFrom     \* the ends whose TLS stack may send a HelloRequest

ASSUME EndAssumption ==
  /\ Peer \in [End -> End]
  /\ \A e \in End : Peer[e] # e /\ Peer[Peer[e]] = e

ASSUME LengthAssumption ==
  /\ HdrLen \in Nat \ {0}
  /\ MacLen \in Nat \ {0}
  /\ MaxContent \in Nat \ {0}
  /\ WriteLens \subseteq Nat
  /\ ReadLens \subseteq Nat \ {0}
  /\ MaxRecords \in [End -> Nat]

ASSUME SocketAssumption ==
  /\ MayBlock \in BOOLEAN
  /\ ShortHeader \in BOOLEAN
  /\ HelloFrom \subseteq End

VARIABLES
  call,      \* the library call in progress, see Calls
  records,   \* every record prepared in out_msg, oldest first
  outLeft,   \* out_left, what the newest record still lacks on the wire
  atHeader,  \* is the header branch of ssl_flush_output's loop the next one?
  writing,   \* the length passed to the ssl_write that has not yet succeeded
  acked,     \* the bytes ssl_write has reported as written
  wire,      \* the bytes f_send took
  shut,      \* net_close was called
  got,       \* the bytes f_recv returned
  inLeft,    \* in_left, the bytes of the record being fetched
  nread,     \* the records read completely
  pending,   \* in_msg from in_offt on, the data not yet handed out
  rcvd,      \* the bytes ssl_read has returned
  eof,       \* ssl_read has returned 0
  ended      \* why the application stopped using the connection, see Reasons

outVars == <<records, outLeft, atHeader, wire>>
inVars == <<got, inLeft, nread, pending, rcvd, eof>>
vars == <<call, records, outLeft, atHeader, writing, acked, wire, shut,
          got, inLeft, nread, pending, rcvd, eof, ended>>

\* "again" is ssl_read behind an empty record, "refuse" is ssl_read sending
\* the no_renegotiation alert, "alert" is ssl_read sending the bad_record_mac
\* alert, and "flush" and "close" are ssl_close_notify before and after it has
\* prepared its own alert.
Calls == {"idle", "write", "read", "again", "refuse", "alert", "flush", "close"}

\* It closed the connection itself, read the peer's close_notify, read bytes
\* that are no record of the peer's, read another alert, or lost the socket.
Reasons == {"no", "closed", "notified", "refused", "alert", "reset"}

\* A record carries bytes lo+1..hi of its sender's stream, or none; its plen
\* payload bytes follow HdrLen header bytes from wire offset off on.
Types == {"data", "hello", "refuse", "fatal", "close"}
Record == [type : Types, lo : Nat, hi : Nat, plen : Nat, off : Nat]

Garbage == <<0, 0>>
Byte == Nat \X Nat

Least(a, b) == IF a < b THEN a ELSE b
Size(r) == HdrLen + r.plen
Newest(e) == records[e][Len(records[e])]

\* The bytes of e's stream that its records carry up to now.
Issued(e) == IF records[e] = <<>> THEN 0 ELSE Newest(e).hi

-----------------------------------------------------------------------------
(* Outgoing records *)

\* ssl_write_record fills out_hdr and out_msg, whatever they held before, and
\* sets out_left; ssl_flush_output follows.
WriteRecord(e, type, lo, hi, plen) ==
  /\ records' = [records EXCEPT ![e] =
                   Append(@, [type |-> type, lo |-> lo, hi |-> hi,
                              plen |-> plen + MacLen, off |-> Len(wire[e])])]
  /\ outLeft' = [outLeft EXCEPT ![e] = HdrLen + plen + MacLen]

\* ssl_send_alert_message; the handshake message HelloRequest likewise.
WriteMessage(e, type, plen) == WriteRecord(e, type, Issued(e), Issued(e), plen)

\* What one f_send of n bytes from out_msg + out_msglen - out_left puts on the
\* wire.  When a part of the header is still to be sent that address lies in
\* front of out_msg, where the header is not.
BodyBytes(e, n) ==
  LET over == outLeft[e] - Newest(e).plen
      k    == Len(records[e])
  IN  [i \in 1..n |->
         IF i <= over THEN Garbage ELSE <<k, Size(Newest(e)) - outLeft[e] + i>>]

HeaderBytes(e, n) ==
  [i \in 1..n |-> <<Len(records[e]), Size(Newest(e)) - outLeft[e] + i>>]

Flushing(e) ==
  /\ call[e] \in {"write", "refuse", "alert", "flush", "close"}
  /\ outLeft[e] > 0
HeaderLeft(e) == outLeft[e] - Newest(e).plen

\* The first f_send of the loop of ssl_flush_output sends the header's rest.
SendHeader(e) ==
  /\ Flushing(e)
  /\ atHeader[e]
  /\ HeaderLeft(e) > 0
  /\ \E n \in 1..HeaderLeft(e) :
       /\ ShortHeader \/ n = HeaderLeft(e)
       /\ wire' = [wire EXCEPT ![e] = @ \o HeaderBytes(e, n)]
       /\ outLeft' = [outLeft EXCEPT ![e] = @ - n]
  /\ atHeader' = [atHeader EXCEPT ![e] = FALSE]
  /\ UNCHANGED <<call, records, writing, acked, shut, ended>>
  /\ UNCHANGED inVars

\* The second one sends from the payload, and the loop starts over.
SendBody(e) ==
  /\ Flushing(e)
  /\ ~atHeader[e] \/ HeaderLeft(e) <= 0
  /\ \E n \in 1..outLeft[e] :
       /\ wire' = [wire EXCEPT ![e] = @ \o BodyBytes(e, n)]
       /\ outLeft' = [outLeft EXCEPT ![e] = @ - n]
  /\ atHeader' = [atHeader EXCEPT ![e] = TRUE]
  /\ UNCHANGED <<call, records, writing, acked, shut, ended>>
  /\ UNCHANGED inVars

\* The application stops; the first reason counts.
Stop(e, why) == ended' = [ended EXCEPT ![e] = IF @ = "no" THEN why ELSE @]

\* f_send returns WANT_WRITE and so does the call; the next flush enters its
\* loop at the top.  Nobody looks at the results of sending the bad_record_mac
\* alert and of ssl_close_notify, which is called last: net_close follows.
SendWouldBlock(e) ==
  /\ MayBlock
  /\ Flushing(e)
  /\ call' = [call EXCEPT ![e] = IF @ = "alert" THEN "flush" ELSE "idle"]
  /\ atHeader' = [atHeader EXCEPT ![e] = TRUE]
  /\ IF call[e] \in {"flush", "close"}
       THEN /\ shut' = [shut EXCEPT ![e] = TRUE]
            /\ Stop(e, "closed")
       ELSE UNCHANGED <<shut, ended>>
  /\ UNCHANGED <<records, outLeft, writing, acked, wire>>
  /\ UNCHANGED inVars

\* Once the peer's socket is closed f_send may return CONN_RESET; so does the
\* call, and ssl_close_notify cannot send either.
SendReset(e) ==
  /\ Flushing(e)
  /\ shut[Peer[e]]
  /\ call' = [call EXCEPT ![e] = "idle"]
  /\ shut' = [shut EXCEPT ![e] = TRUE]
  /\ Stop(e, "reset")
  /\ UNCHANGED <<writing, acked>>
  /\ UNCHANGED outVars
  /\ UNCHANGED inVars

-----------------------------------------------------------------------------
(* ssl_write *)

Usable(e) == call[e] = "idle" /\ ended[e] = "no"

\* Defect: ssl_write does not look at out_left.
WriteOverPending(e) ==
  /\ Usable(e)
  /\ Len(records[e]) < MaxRecords[e]
  /\ \E len \in WriteLens :
       /\ writing' = [writing EXCEPT ![e] = {len}]
       /\ WriteRecord(e, "data", acked[e], acked[e] + Least(len, MaxContent),
                      Least(len, MaxContent))
  /\ call' = [call EXCEPT ![e] = "write"]
  /\ UNCHANGED <<atHeader, acked, wire, shut, ended>>
  /\ UNCHANGED inVars

\* ssl_write prepares a record, or only flushes when something is left over.
\* The application repeats a call that would have blocked with its arguments.
Write(e) ==
  /\ Usable(e)
  /\ \E len \in WriteLens :
       /\ writing[e] # {} => writing[e] = {len}
       /\ outLeft[e] # 0 \/ Len(records[e]) < MaxRecords[e]
       /\ writing' = [writing EXCEPT ![e] = {len}]
       /\ IF outLeft[e] # 0
            THEN UNCHANGED <<records, outLeft>>
            ELSE WriteRecord(e, "data", acked[e], acked[e] + Least(len, MaxContent),
                             Least(len, MaxContent))
  /\ call' = [call EXCEPT ![e] = "write"]
  /\ UNCHANGED <<atHeader, acked, wire, shut, ended>>
  /\ UNCHANGED inVars

\* It returns the number of bytes it was asked to write, at most one record's.
WriteReturn(e) ==
  /\ call[e] = "write"
  /\ outLeft[e] = 0
  /\ \E len \in writing[e] :
       acked' = [acked EXCEPT ![e] = @ + Least(len, MaxContent)]
  /\ writing' = [writing EXCEPT ![e] = {}]
  /\ call' = [call EXCEPT ![e] = "idle"]
  /\ UNCHANGED <<shut, ended>>
  /\ UNCHANGED outVars
  /\ UNCHANGED inVars

-----------------------------------------------------------------------------
(* ssl_read *)

\* Defect: in_offt stays where it is.
ReadPendingAgain(e) ==
  /\ Usable(e)
  /\ pending[e] # <<>>
  /\ \E len \in ReadLens :
       LET n == Least(len, Len(pending[e]))
       IN  /\ rcvd' = [rcvd EXCEPT ![e] = @ \o SubSeq(pending[e], 1, n)]
           /\ pending' = [pending EXCEPT ![e] = SubSeq(@, 1, Len(@) - n)]
  /\ UNCHANGED <<call, writing, acked, shut, got, inLeft, nread, eof, ended>>
  /\ UNCHANGED outVars

\* Defect: what does not fit into the caller's buffer is dropped.
ReadPendingOnce(e) ==
  /\ Usable(e)
  /\ pending[e] # <<>>
  /\ \E len \in ReadLens :
       rcvd' = [rcvd EXCEPT ![e] =
                  @ \o SubSeq(pending[e], 1, Least(len, Len(pending[e])))]
  /\ pending' = [pending EXCEPT ![e] = <<>>]
  /\ UNCHANGED <<call, writing, acked, shut, got, inLeft, nread, eof, ended>>
  /\ UNCHANGED outVars

\* ssl_read hands out what an earlier record left in in_msg.
ReadPending(e) ==
  /\ Usable(e)
  /\ pending[e] # <<>>
  /\ \E len \in ReadLens :
       LET n == Least(len, Len(pending[e]))
       IN  /\ rcvd' = [rcvd EXCEPT ![e] = @ \o SubSeq(pending[e], 1, n)]
           /\ pending' = [pending EXCEPT ![e] = SubSeq(@, n + 1, Len(@))]
  /\ UNCHANGED <<call, writing, acked, shut, got, inLeft, nread, eof, ended>>
  /\ UNCHANGED outVars

\* Otherwise it fetches a record.
Read(e) ==
  /\ Usable(e)
  /\ ~eof[e]
  /\ pending[e] = <<>>
  /\ call' = [call EXCEPT ![e] = "read"]
  /\ UNCHANGED <<writing, acked, shut, ended>>
  /\ UNCHANGED outVars
  /\ UNCHANGED inVars

Reading(e) == call[e] \in {"read", "again"}

\* Byte j of the record being fetched, as it came off the wire.
Fetched(e, j) == wire[Peer[e]][got[e] - inLeft[e] + j]

\* The bytes fetched so far are those of the next record, in order.
Intact(e) == \A j \in 1..inLeft[e] : Fetched(e, j) = <<nread[e] + 1, j>>

\* The size ssl_fetch_input waits for: the header's, then the one it announces.
Wanted(e) ==
  IF inLeft[e] < HdrLen THEN HdrLen ELSE Size(records[Peer[e]][nread[e] + 1])

InTransit(e) == Len(wire[Peer[e]]) - got[e]

Recv(e) ==
  /\ Reading(e)
  /\ Intact(e)
  /\ inLeft[e] < Wanted(e)
  /\ \E n \in 1..Least(Wanted(e) - inLeft[e], InTransit(e)) :
       /\ got' = [got EXCEPT ![e] = @ + n]
       /\ inLeft' = [inLeft EXCEPT ![e] = @ + n]
  /\ UNCHANGED <<call, writing, acked, shut, nread, pending, rcvd, eof, ended>>
  /\ UNCHANGED outVars

\* Defect: WANT_READ forgets the bytes fetched so far.
RecvWouldBlockForgets(e) ==
  /\ MayBlock
  /\ Reading(e)
  /\ Intact(e)
  /\ inLeft[e] < Wanted(e)
  /\ call' = [call EXCEPT ![e] = "idle"]
  /\ inLeft' = [inLeft EXCEPT ![e] = 0]
  /\ UNCHANGED <<writing, acked, shut, got, nread, pending, rcvd, eof, ended>>
  /\ UNCHANGED outVars

\* WANT_READ leaves in_left for the next call, but not that an empty record
\* was read before.
RecvWouldBlock(e) ==
  /\ MayBlock
  /\ Reading(e)
  /\ Intact(e)
  /\ inLeft[e] < Wanted(e)
  /\ call' = [call EXCEPT ![e] = "idle"]
  /\ UNCHANGED <<writing, acked, shut, ended>>
  /\ UNCHANGED outVars
  /\ UNCHANGED inVars

\* f_recv returns 0 at the end of the peer's stream, and so does ssl_read, in
\* the middle of a record too.
RecvEof(e) ==
  /\ Reading(e)
  /\ Intact(e)
  /\ inLeft[e] < Wanted(e)
  /\ shut[Peer[e]]
  /\ InTransit(e) = 0
  /\ eof' = [eof EXCEPT ![e] = TRUE]
  /\ call' = [call EXCEPT ![e] = "idle"]
  /\ UNCHANGED <<writing, acked, shut, got, inLeft, nread, pending, rcvd, ended>>
  /\ UNCHANGED outVars

\* The peer closed its socket with unread bytes: what is in transit is lost and
\* f_recv returns CONN_RESET.
RecvReset(e) ==
  /\ Reading(e)
  /\ inLeft[e] < Wanted(e)
  /\ shut[Peer[e]]
  /\ got[Peer[e]] < Len(wire[e])
  /\ call' = [call EXCEPT ![e] = "idle"]
  /\ shut' = [shut EXCEPT ![e] = TRUE]
  /\ Stop(e, "reset")
  /\ UNCHANGED <<writing, acked>>
  /\ UNCHANGED outVars
  /\ UNCHANGED inVars

\* Bytes that are not those of the next record fail the header checks, or the
\* MAC, which a fatal alert reports in place of whatever out_msg held.  Either
\* way ssl_read returns an error and the application calls ssl_close_notify.
RefuseRecord(e) ==
  /\ Reading(e)
  /\ ~Intact(e)
  /\ \/ /\ call' = [call EXCEPT ![e] = "flush"]
        /\ UNCHANGED <<records, outLeft>>
     \/ /\ call' = [call EXCEPT ![e] = "alert"]
        /\ WriteMessage(e, "fatal", 2)
  /\ Stop(e, "refused")
  /\ UNCHANGED <<atHeader, writing, acked, wire, shut>>
  /\ UNCHANGED inVars

\* The record being fetched is complete.
Complete(e, type) ==
  /\ Reading(e)
  /\ Intact(e)
  /\ inLeft[e] >= HdrLen
  /\ inLeft[e] = Wanted(e)
  /\ records[Peer[e]][nread[e] + 1].type = type

Consume(e) ==
  /\ nread' = [nread EXCEPT ![e] = @ + 1]
  /\ inLeft' = [inLeft EXCEPT ![e] = 0]

\* Application data goes to in_msg and from there to the caller.
ReadData(e) ==
  LET r == records[Peer[e]][nread[e] + 1]
  IN  /\ Complete(e, "data")
      /\ r.lo < r.hi
      /\ Consume(e)
      /\ pending' = [pending EXCEPT ![e] = [i \in 1..(r.hi - r.lo) |-> r.lo + i]]
      /\ call' = [call EXCEPT ![e] = "idle"]
      /\ UNCHANGED <<writing, acked, shut, got, rcvd, eof, ended>>
      /\ UNCHANGED outVars

\* Defect: the first empty record makes ssl_read return 0.
ReadEmptyEnds(e) ==
  LET r == records[Peer[e]][nread[e] + 1]
  IN  /\ Complete(e, "data")
      /\ r.lo = r.hi
      /\ Consume(e)
      /\ call' = [call EXCEPT ![e] = "idle"]
      /\ eof' = [eof EXCEPT ![e] = TRUE]
      /\ UNCHANGED <<writing, acked, shut, got, pending, rcvd, ended>>
      /\ UNCHANGED outVars

\* An empty record is skipped once; a second one makes ssl_read return 0.
ReadEmpty(e) ==
  LET r == records[Peer[e]][nread[e] + 1]
  IN  /\ Complete(e, "data")
      /\ r.lo = r.hi
      /\ Consume(e)
      /\ IF call[e] = "read"
           THEN /\ call' = [call EXCEPT ![e] = "again"]
                /\ UNCHANGED eof
           ELSE /\ call' = [call EXCEPT ![e] = "idle"]
                /\ eof' = [eof EXCEPT ![e] = TRUE]
      /\ UNCHANGED <<writing, acked, shut, got, pending, rcvd, ended>>
      /\ UNCHANGED outVars

\* A HelloRequest is answered with a no_renegotiation alert, which takes the
\* place of whatever out_msg held.
ReadHello(e) ==
  /\ Complete(e, "hello")
  /\ Consume(e)
  /\ WriteMessage(e, "refuse", 2)
  /\ call' = [call EXCEPT ![e] = "refuse"]
  /\ UNCHANGED <<atHeader, writing, acked, wire, shut, got, pending, rcvd, eof,
                 ended>>

\* Once the alert is out, ssl_read treats the HelloRequest as its data.
RefuseReturn(e) ==
  /\ call[e] = "refuse"
  /\ outLeft[e] = 0
  /\ pending' = [pending EXCEPT ![e] = <<0, 0, 0, 0>>]
  /\ call' = [call EXCEPT ![e] = "idle"]
  /\ UNCHANGED <<writing, acked, shut, got, inLeft, nread, rcvd, eof, ended>>
  /\ UNCHANGED outVars

\* A fatal alert makes ssl_read_record return an error.  A warning other than
\* close_notify passes it, and ssl_read returns UNEXPECTED_MESSAGE.
ReadAlert(e) ==
  /\ \/ Complete(e, "refuse") /\ Consume(e)
     \/ Complete(e, "fatal") /\ UNCHANGED <<inLeft, nread>>
  /\ call' = [call EXCEPT ![e] = "flush"]
  /\ Stop(e, "alert")
  /\ UNCHANGED <<writing, acked, shut, got, pending, rcvd, eof>>
  /\ UNCHANGED outVars

\* close_notify: ssl_read returns PEER_CLOSE_NOTIFY without resetting in_left,
\* and the application calls ssl_close_notify.
ReadCloseNotify(e) ==
  /\ Complete(e, "close")
  /\ call' = [call EXCEPT ![e] = "flush"]
  /\ Stop(e, "notified")
  /\ UNCHANGED <<writing, acked, shut>>
  /\ UNCHANGED outVars
  /\ UNCHANGED inVars

-----------------------------------------------------------------------------
(* ssl_close_notify and net_close *)

\* Anything left over goes first.
CloseNotify(e) ==
  /\ Usable(e)
  /\ call' = [call EXCEPT ![e] = "flush"]
  /\ UNCHANGED <<writing, acked, shut, ended>>
  /\ UNCHANGED outVars
  /\ UNCHANGED inVars

CloseAlert(e) ==
  /\ call[e] \in {"alert", "flush"}
  /\ outLeft[e] = 0
  /\ WriteMessage(e, "close", 2)
  /\ call' = [call EXCEPT ![e] = "close"]
  /\ UNCHANGED <<atHeader, writing, acked, wire, shut, ended>>
  /\ UNCHANGED inVars

NetClose(e) ==
  /\ call[e] = "close"
  /\ outLeft[e] = 0
  /\ call' = [call EXCEPT ![e] = "idle"]
  /\ shut' = [shut EXCEPT ![e] = TRUE]
  /\ Stop(e, "closed")
  /\ UNCHANGED <<writing, acked>>
  /\ UNCHANGED outVars
  /\ UNCHANGED inVars

-----------------------------------------------------------------------------
(* External: the TLS stack of the PZP hub asks for a renegotiation once. *)

HelloRequest(e) ==
  /\ e \in HelloFrom
  /\ Usable(e)
  /\ outLeft[e] = 0
  /\ \A k \in DOMAIN records[e] : records[e][k].type # "hello"
  /\ records' = [records EXCEPT ![e] =
                   Append(@, [type |-> "hello", lo |-> Issued(e), hi |-> Issued(e),
                              plen |-> 4 + MacLen, off |-> Len(wire[e])])]
  /\ wire' = [wire EXCEPT ![e] =
                @ \o [j \in 1..(HdrLen + 4 + MacLen) |-> <<Len(records[e]) + 1, j>>]]
  /\ UNCHANGED <<call, outLeft, atHeader, writing, acked, shut, ended>>
  /\ UNCHANGED inVars

-----------------------------------------------------------------------------

Init ==
  /\ call = [e \in End |-> "idle"]
  /\ records = [e \in End |-> <<>>]
  /\ outLeft = [e \in End |-> 0]
  /\ atHeader = [e \in End |-> TRUE]
  /\ writing = [e \in End |-> {}]
  /\ acked = [e \in End |-> 0]
  /\ wire = [e \in End |-> <<>>]
  /\ shut = [e \in End |-> FALSE]
  /\ got = [e \in End |-> 0]
  /\ inLeft = [e \in End |-> 0]
  /\ nread = [e \in End |-> 0]
  /\ pending = [e \in End |-> <<>>]
  /\ rcvd = [e \in End |-> <<>>]
  /\ eof = [e \in End |-> FALSE]
  /\ ended = [e \in End |-> "no"]

Sends(e) == SendHeader(e) \/ SendBody(e)

Reads(e) == \/ ReadData(e)  \/ ReadEmpty(e) \/ ReadHello(e)
            \/ ReadAlert(e) \/ ReadCloseNotify(e)

Returns(e) == WriteReturn(e) \/ RefuseReturn(e) \/ CloseAlert(e) \/ NetClose(e)

Next ==
  \E e \in End :
    \/ Sends(e) \/ SendWouldBlock(e) \/ SendReset(e)
    \/ Recv(e) \/ RecvWouldBlock(e) \/ RecvEof(e) \/ RecvReset(e)
    \/ RefuseRecord(e)
    \/ Reads(e)
    \/ Returns(e)
    \/ Write(e) \/ Read(e) \/ ReadPending(e) \/ CloseNotify(e)
    \/ HelloRequest(e)

Spec == Init /\ [][Next]_vars

\* A call in progress goes on.  A socket that would block does not do so for
\* ever, as TCP moves the bytes on, so f_send and f_recv make progress when they
\* are tried again and again.  Applications read as long as there is a stream
\* and repeat a write that would have blocked; nobody has to start one or to
\* close.
Fairness ==
  \A e \in End :
    /\ SF_vars(Sends(e))
    /\ SF_vars(Recv(e))
    /\ SF_vars(Reads(e))
    /\ WF_vars(Returns(e))
    /\ WF_vars(Read(e))
    /\ WF_vars(ReadPending(e))
    /\ WF_vars(writing[e] # {} /\ Write(e))

FairSpec == Spec /\ Fairness

-----------------------------------------------------------------------------
(* Properties *)

\* Types, and the bounds of out_left and in_left by the record they belong to.
TypeOK ==
  /\ call \in [End -> Calls]
  /\ records \in [End -> Seq(Record)]
  /\ outLeft \in [End -> Nat]
  /\ atHeader \in [End -> BOOLEAN]
  /\ writing \in [End -> SUBSET WriteLens]
  /\ acked \in [End -> Nat]
  /\ wire \in [End -> Seq(Byte)]
  /\ shut \in [End -> BOOLEAN]
  /\ got \in [End -> Nat]
  /\ inLeft \in [End -> Nat]
  /\ nread \in [End -> Nat]
  /\ pending \in [End -> Seq(Nat)]
  /\ rcvd \in [End -> Seq(Nat)]
  /\ eof \in [End -> BOOLEAN]
  /\ ended \in [End -> Reasons]
  /\ \A e \in End :
       outLeft[e] > 0 => records[e] # <<>> /\ outLeft[e] <= Size(Newest(e))

\* What ssl_read has returned and still holds is the peer's stream from its
\* first byte on, each byte once and in order, however the reads, the writes and
\* the socket cut it, and never more than the peer gave to ssl_write.
DeliveredInOrder ==
  \A e \in End :
    LET data == rcvd[e] \o pending[e]
    IN  /\ \A i \in DOMAIN data : data[i] = i
        /\ Len(data) <= Issued(Peer[e])

\* No interleaving of partial sends, repeated calls and alerts makes an end put
\* bytes on the wire that its peer must refuse.
NeverRefused == \A e \in End : ended[e] # "refused"

\* The bytes ssl_write has reported as written have left out_msg completely.
AckedIsOnWire ==
  \A e \in End :
    acked[e] > 0 =>
      \E k \in DOMAIN records[e] :
        LET r == records[e][k]
        IN  acked[e] <= r.hi /\ r.off + Size(r) <= Len(wire[e])

\* When ssl_read tells the application that the stream is over (0, or
\* PEER_CLOSE_NOTIFY), it has returned every byte the peer's ssl_write reported
\* as written: the middle of the stream is never taken for its end, nor an empty
\* record among the data.  Two empty ones in a row are (ReadEmpty), if data follow.
EofMeansEnd ==
  \A e \in End :
    eof[e] \/ ended[e] = "notified" => Len(rcvd[e]) >= acked[Peer[e]]

\* The two calls implement the byte streams ssl.h promises.
Stream == INSTANCE ByteStream WITH
            sent <- [e \in End |-> Issued(e)],
            over <- [e \in End |-> eof[e] \/ ended[e] = "notified"]

ImplementsByteStream == Stream!Spec

\* Even with a peer that asks for renegotiation no byte comes twice or before an
\* earlier one: only HelloRequests and gaps get in (ssl_tls.c:3752-3793).
NothingReordered ==
  \A e \in End : \A i, j \in DOMAIN rcvd[e] :
    i < j /\ rcvd[e][j] > 0 => rcvd[e][i] < rcvd[e][j]

\* Every byte ssl_write has reported as written reaches the peer's application,
\* unless that one closes the connection or the socket is reset.
AckedArrives ==
  \A e \in End : \A n \in 1..(MaxRecords[e] * MaxContent) :
    acked[e] >= n ~> \/ Len(rcvd[Peer[e]]) >= n
                     \/ ended[Peer[e]] \in {"closed", "reset"}

-----------------------------------------------------------------------------
(* TypeOK is inductive together with what the reader relies on: a byte on    *)
(* the wire names a record of its sender, and the reader stays behind it.    *)

Known ==
  \A e \in End :
    /\ \A i \in 1..Len(wire[e]) : wire[e][i][1] <= Len(records[e])
    /\ inLeft[e] <= got[e]
    /\ got[e] <= Len(wire[Peer[e]])

TypeInv == TypeOK /\ Known

-----------------------------------------------------------------------------
(* The inductive invariant behind NeverRefused, for a socket that takes a     *)
(* header whole and a peer that does not ask for renegotiation.              *)

\* The wire offset behind the first k records of R, and the stream position.
EndOf(R, k) == IF k = 0 THEN 0 ELSE R[k].off + Size(R[k])
UpTo(R, k) == IF k = 0 THEN 0 ELSE R[k].hi

\* Records follow each other on the wire and in the stream without a gap, the
\* newest one behind all others.
Layout(R) ==
  \A k \in 1..Len(R) :
    /\ R[k].type \in {"data", "close"}
    /\ R[k].plen >= MacLen
    /\ R[k].lo <= R[k].hi
    /\ R[k].off = EndOf(R, k - 1)
    /\ R[k].lo = UpTo(R, k - 1)
    /\ R[k].hi <= UpTo(R, Len(R))
    /\ k < Len(R) => EndOf(R, k) <= R[Len(R)].off

\* What is on the wire and what is left make up the records prepared so far.
WireLength(e) ==
  Len(wire[e]) + outLeft[e] = EndOf(records[e], Len(records[e]))

\* Every byte of a record in R that is on the wire W is in its place.
WireBytes(R, W) ==
  \A k \in 1..Len(R) : \A j \in 1..Size(R[k]) :
    R[k].off + j <= Len(W) => W[R[k].off + j] = <<k, j>>

\* The body branch of the loop is reached with the header sent.
HeaderFirst(e) ==
  ~atHeader[e] => records[e] # <<>> /\ outLeft[e] \in 1..Newest(e).plen

\* The reader has consumed nread records and a part of the next one.
Position(e) ==
  /\ nread[e] <= Len(records[Peer[e]])
  /\ got[e] = EndOf(records[Peer[e]], nread[e]) + inLeft[e]
  /\ inLeft[e] > 0 =>
       /\ nread[e] < Len(records[Peer[e]])
       /\ inLeft[e] <= Size(records[Peer[e]][nread[e] + 1])

\* The records consumed are what ssl_read returned or still holds.
Data(e) ==
  /\ Len(rcvd[e]) + Len(pending[e]) = UpTo(records[Peer[e]], nread[e])
  /\ \A i \in 1..Len(rcvd[e]) : rcvd[e][i] = i
  /\ \A i \in 1..Len(pending[e]) : pending[e][i] = Len(rcvd[e]) + i

\* The newest record is the write that has not succeeded yet, if there is one.
Unfinished(e) ==
  /\ acked[e] <= Issued(e)
  /\ writing[e] = {} => acked[e] = Issued(e)
  /\ call[e] \in {"idle", "write", "read", "again"} /\ ended[e] = "no" =>
       /\ \A len \in writing[e] :
            /\ writing[e] = {len}
            /\ Issued(e) = acked[e] + Least(len, MaxContent)
       /\ writing[e] = {} => outLeft[e] = 0
       /\ writing[e] # {} /\ call[e] # "write" => outLeft[e] > 0

CallOK(e) ==
  /\ call[e] \notin {"refuse", "alert"}
  /\ call[e] \in {"write", "read", "again"} => ended[e] = "no"
  /\ call[e] \in {"read", "again"} => pending[e] = <<>>
  /\ call[e] = "write" => writing[e] # {}
  /\ ended[e] \notin {"refused", "alert"}

IInv ==
  /\ TypeInv
  /\ \A e \in End :
       /\ Layout(records[e])
       /\ WireLength(e)
       /\ WireBytes(records[e], wire[e])
       /\ HeaderFirst(e)
       /\ Position(e)
       /\ Data(e)
       /\ Unfinished(e)
       /\ CallOK(e)
  /\ AckedIsOnWire

-----------------------------------------------------------------------------
(* The inductive invariant behind NothingReordered, whatever the socket takes *)
(* at a time and whoever asks for a renegotiation.                           *)

\* A byte of the wire W that is a record's is where that record of R has it.
Tagged(R, W) ==
  \A i \in 1..Len(W) : W[i][1] # 0 => i = R[W[i][1]].off + W[i][2]

\* No one of the first k records took the place of an unsent part of another.
Uncut(R, k) == \A i \in 1..k : R[i].off = EndOf(R, i - 1)

\* e prepares no application data any more.
Closing(e) == call[e] \in {"alert", "flush", "close"} \/ ended[e] # "no"

\* The newest record is of a write that has not succeeded, and that the
\* application is in or has to repeat.
InWrite(e) ==
  /\ call[e] = "write" \/ (call[e] # "refuse" /\ outLeft[e] > 0)
  /\ \E len \in writing[e] :
       writing[e] = {len} /\ Issued(e) = acked[e] + Least(len, MaxContent)

\* As long as the records follow each other on the wire, they do in the stream.
Ordered(R) ==
  \A k \in 1..Len(R) :
    /\ R[k].lo <= R[k].hi
    /\ Uncut(R, k) => UpTo(R, k - 1) <= R[k].lo

\* The next record of e goes on behind the last one.
Resumes(e) ==
  Uncut(records[e], Len(records[e])) =>
    Issued(e) <= acked[e] \/ InWrite(e) \/ Closing(e)

\* What ssl_read has returned and still holds.
DataOf(e) == rcvd[e] \o pending[e]

\* Every byte of data but those of a HelloRequest is greater than all before it.
Ascends(data, top) ==
  \A i \in 1..Len(data) :
    /\ data[i] <= top
    /\ data[i] > 0 => \A j \in 1..(i - 1) : data[j] < data[i]

\* The reader is behind nread records that follow each other, and has of their
\* stream, in its order, at most what they carry.
Following(e) ==
  LET R == records[Peer[e]]
  IN  /\ nread[e] <= Len(R)
      /\ Uncut(R, nread[e])
      /\ got[e] = EndOf(R, nread[e]) + inLeft[e]
      /\ Ascends(DataOf(e), UpTo(R, nread[e]))
      /\ call[e] \in {"read", "again", "refuse"} => pending[e] = <<>>

SocketInv ==
  /\ TypeInv
  /\ \A e \in End :
       /\ WireLength(e)
       /\ Tagged(records[e], wire[e])
       /\ Ordered(records[e])
       /\ Resumes(e)
       /\ Following(e)

-----------------------------------------------------------------------------
(* What it takes for EofMeansEnd and ImplementsByteStream on top of it, when  *)
(* no end asks for a renegotiation: only an alert cuts a record, and no data  *)
(* come behind one.                                                          *)

Chain(e) ==
  \A k \in 1..Len(records[e]) :
    LET r == records[e][k]
    IN  /\ r.type \in {"data", "fatal", "close"}
        /\ r.lo = UpTo(records[e], k - 1)
        /\ r.hi <= Issued(e)
        /\ r.type = "data" => r.off = EndOf(records[e], k - 1)
        /\ r.type # "data" => r.lo = Issued(e) /\ Closing(e)
        /\ k < Len(records[e]) => Closing(e) \/ EndOf(records[e], k) <= Len(wire[e])
        /\ r.lo < acked[e] => EndOf(records[e], k) <= Len(wire[e])

\* Between two writes everything is acknowledged.
Settled(e) ==
  /\ acked[e] <= Issued(e)
  /\ \/ acked[e] = Issued(e) /\ writing[e] = {} /\ outLeft[e] = 0
     \/ InWrite(e)
     \/ Closing(e)

\* What the reader has is the peer's stream up to the records it has read.
Prefix(e) ==
  /\ Len(DataOf(e)) = UpTo(records[Peer[e]], nread[e])
  /\ \A i \in 1..Len(DataOf(e)) : DataOf(e)[i] = i

\* No call that goes on in a connection that is over.
Calling(e) ==
  /\ call[e] # "refuse"
  /\ call[e] \in {"write", "read", "again"} => ended[e] = "no"
  /\ call[e] \in {"read", "again"} => ~eof[e]
  /\ shut[e] => ended[e] # "no"

StreamInv ==
  /\ SocketInv
  /\ \A e \in End : Chain(e) /\ Settled(e) /\ Prefix(e) /\ Calling(e)
  /\ AckedIsOnWire

\* An end that was told of the end of the stream has all of it, and its peer
\* writes no more.  Applications that write nothing at all are excluded: their
\* empty records look like the end of the stream.
Over(e) ==
  /\ \A k \in 1..Len(records[e]) :
       records[e][k].type = "data" => records[e][k].lo < records[e][k].hi
  /\ eof[e] \/ ended[e] = "notified" =>
       /\ pending[e] = <<>>
       /\ acked[Peer[e]] <= Len(rcvd[e])
       /\ Closing(Peer[e])

EndInv == StreamInv /\ \A e \in End : Over(e)

=============================================================================

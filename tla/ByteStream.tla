----------------------------- MODULE ByteStream -----------------------------
(***************************************************************************)
(* What ssl_read and ssl_write promise their callers (ssl.h): one reliable  *)
(* ordered stream of bytes in each direction.  A write is accepted, later   *)
(* reported as written; the other end is handed the accepted bytes in       *)
(* order; and the end of the stream is reported only behind every byte      *)
(* that was reported as written.                                           *)
(***************************************************************************)
EXTENDS Integers, Sequences

CONSTANTS
  End,    \* the two ends of the connection
  Peer    \* Peer[e]: the other end

VARIABLES
  sent,   \* the bytes e has passed to ssl_write that may reach the peer
  acked,  \* those of them that ssl_write has reported as written
  rcvd,   \* what ssl_read has returned to e
  over    \* has e been told that the peer's stream is over?

vars == <<sent, acked, rcvd, over>>

Init ==
  /\ sent = [e \in End |-> 0]
  /\ acked = [e \in End |-> 0]
  /\ rcvd = [e \in End |-> <<>>]
  /\ over = [e \in End |-> FALSE]

\* One write at a time.
Accept(e) ==
  /\ acked[e] = sent[e]
  /\ sent'[e] > sent[e]
  /\ sent' = [sent EXCEPT ![e] = sent'[e]]
  /\ UNCHANGED <<acked, rcvd, over>>

Acknowledge(e) ==
  /\ ~over[Peer[e]]
  /\ acked[e] < sent[e]
  /\ acked' = [acked EXCEPT ![e] = sent[e]]
  /\ UNCHANGED <<sent, rcvd, over>>

\* The next n bytes of the stream are its positions Len(rcvd[e]) + 1 and so on.
Deliver(e) ==
  /\ ~over[e]
  /\ \E n \in 1..(sent[Peer[e]] - Len(rcvd[e])) :
       rcvd' = [rcvd EXCEPT ![e] = @ \o [i \in 1..n |-> Len(@) + i]]
  /\ UNCHANGED <<sent, acked, over>>

Finish(e) ==
  /\ ~over[e]
  /\ Len(rcvd[e]) >= acked[Peer[e]]
  /\ over' = [over EXCEPT ![e] = TRUE]
  /\ UNCHANGED <<sent, acked, rcvd>>

Next == \E e \in End : Accept(e) \/ Acknowledge(e) \/ Deliver(e) \/ Finish(e)

Spec == Init /\ [][Next]_vars

=============================================================================

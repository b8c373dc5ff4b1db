-------------------------- MODULE RecordLayerProofs --------------------------
(***************************************************************************)
(* Proofs about RecordLayer.  TypeOK holds for every socket and every peer. *)
(* For a socket that takes a record header whole, and a peer that does not  *)
(* ask for renegotiation, IInv is inductive and no record is refused.       *)
(* When the socket cuts the stream anywhere, a header included, and the     *)
(* peer asks for a renegotiation, nothing is reordered; without             *)
(* renegotiation the two calls implement ByteStream.                        *)
(***************************************************************************)
EXTENDS RecordLayer, SequenceTheorems, TLAPS

USE EndAssumption, LengthAssumption, SocketAssumption

-----------------------------------------------------------------------------
(* Types *)

\* A function on 1..n is a sequence of length n.
LEMMA FunctionIsSeq ==
  ASSUME NEW S, NEW n \in Nat, NEW f \in [1..n -> S]
  PROVE  f \in Seq(S) /\ Len(f) = n
<1>1. f \in Seq(S)
      BY SeqDef
<1>2. DOMAIN f = 1..Len(f) /\ Len(f) \in Nat
      BY <1>1, LenProperties
<1>3. 1..n = 1..Len(f)
      BY <1>2
<1> QED
  BY <1>1, <1>2, <1>3

\* A byte on the wire names a record by a number.
LEMMA ByteFirst ==
  ASSUME NEW b \in Byte
  PROVE  b[1] \in Nat
  BY DEF Byte

\* The newest record, when something of it is left.
LEMMA NewestType ==
  ASSUME TypeInv, NEW e \in End, records[e] # <<>>
  PROVE  /\ Newest(e) \in Record
         /\ Len(records[e]) \in Nat \ {0}
<1>1. records[e] \in Seq(Record)
      BY DEF TypeInv, TypeOK
<1>2. Len(records[e]) \in 1..Len(records[e]) /\ Len(records[e]) \in Nat \ {0}
      BY <1>1, EmptySeq, LenProperties
<1> QED
  BY <1>1, <1>2, ElementOfSeq DEF Newest

\* What the two kinds of f_send put on the wire names the newest record.
LEMMA BytesType ==
  ASSUME TypeInv, NEW e \in End, outLeft[e] > 0, NEW n \in 1..outLeft[e]
  PROVE  /\ BodyBytes(e, n) \in Seq(Byte)
         /\ Len(BodyBytes(e, n)) = n
         /\ \A i \in 1..n : BodyBytes(e, n)[i][1] <= Len(records[e])
         /\ HeaderBytes(e, n) \in Seq(Byte)
         /\ Len(HeaderBytes(e, n)) = n
         /\ \A i \in 1..n : HeaderBytes(e, n)[i][1] <= Len(records[e])
<1>0. outLeft[e] \in Nat /\ records[e] # <<>> /\ outLeft[e] <= Size(Newest(e))
      BY DEF TypeInv, TypeOK
<1>1. /\ Newest(e) \in Record
      /\ outLeft[e] \in 1..Size(Newest(e))
      /\ Len(records[e]) \in Nat
      /\ Newest(e).plen \in Nat
      /\ Size(Newest(e)) \in Nat
      BY <1>0, NewestType DEF Size, Record
<1>2. ASSUME NEW i \in 1..n
      PROVE  <<Len(records[e]), Size(Newest(e)) - outLeft[e] + i>> \in Byte
      BY <1>1 DEF Byte
<1>3. Garbage \in Byte /\ Garbage[1] = 0
      BY DEF Garbage, Byte
<1>4. /\ BodyBytes(e, n) \in [1..n -> Byte]
      /\ \A i \in 1..n : BodyBytes(e, n)[i][1] <= Len(records[e])
      BY <1>1, <1>2, <1>3 DEF BodyBytes
<1>5. /\ HeaderBytes(e, n) \in [1..n -> Byte]
      /\ \A i \in 1..n : HeaderBytes(e, n)[i][1] <= Len(records[e])
      BY <1>1, <1>2 DEF HeaderBytes
<1>6. n \in Nat
      BY <1>1
<1> QED
  BY <1>4, <1>5, <1>6, FunctionIsSeq

\* A sequence of known bytes may be appended to the wire.
LEMMA WireGrows ==
  ASSUME TypeInv, NEW e \in End, NEW s \in Seq(Byte),
         \A i \in 1..Len(s) : s[i][1] <= Len(records'[e]),
         Len(records[e]) <= Len(records'[e]),
         records' \in [End -> Seq(Record)],
         \A f \in End \ {e} : records'[f] = records[f],
         wire' = [wire EXCEPT ![e] = @ \o s]
  PROVE  /\ wire' \in [End -> Seq(Byte)]
         /\ \A f \in End : /\ Len(wire[f]) <= Len(wire'[f])
                           /\ \A i \in 1..Len(wire'[f]) : wire'[f][i][1] <= Len(records'[f])
<1>1. wire \in [End -> Seq(Byte)]
      BY DEF TypeInv, TypeOK
<1>2. wire'[e] = wire[e] \o s /\ wire'[e] \in Seq(Byte)
      BY <1>1
<1>3. Len(wire'[e]) = Len(wire[e]) + Len(s)
      BY <1>1, <1>2
<1>4. ASSUME NEW i \in 1..Len(wire'[e])
      PROVE  wire'[e][i][1] <= Len(records'[e])
  <2>1. CASE i <= Len(wire[e])
    <3>1. wire'[e][i] = wire[e][i] /\ i \in 1..Len(wire[e])
          BY <1>1, <1>2, <2>1
    <3>2. wire[e][i][1] \in Nat /\ wire[e][i][1] <= Len(records[e])
          BY <1>1, <3>1, ElementOfSeq, ByteFirst DEF TypeInv, Known
    <3>3. records[e] \in Seq(Record) /\ records'[e] \in Seq(Record)
          BY DEF TypeInv, TypeOK
    <3>4. Len(records[e]) \in Nat /\ Len(records'[e]) \in Nat
          BY <3>3, LenProperties
    <3> QED
      BY <3>1, <3>2, <3>4
  <2>2. CASE i > Len(wire[e])
    <3>1. wire'[e][i] = s[i - Len(wire[e])] /\ i - Len(wire[e]) \in 1..Len(s)
          BY <1>1, <1>2, <1>3, <2>2
    <3> QED
      BY <3>1
  <2> QED
    BY <2>1, <2>2, <1>1, <1>2
<1>5. ASSUME NEW f \in End \ {e}
      PROVE  /\ wire'[f] = wire[f]
             /\ \A i \in 1..Len(wire'[f]) : wire'[f][i][1] <= Len(records'[f])
      BY <1>1 DEF TypeInv, Known
<1>6. wire' \in [End -> Seq(Byte)]
      BY <1>1, <1>2
<1> QED
  BY <1>1, <1>3, <1>4, <1>5, <1>6

\* WriteRecord appends a record, and out_left is its size.
LEMMA WriteRecordType ==
  ASSUME TypeInv, NEW e \in End, NEW type \in Types, NEW lo \in Nat, NEW hi \in Nat,
         NEW plen \in Nat, WriteRecord(e, type, lo, hi, plen)
  PROVE  /\ records' \in [End -> Seq(Record)]
         /\ outLeft' \in [End -> Nat]
         /\ \A f \in End : Len(records[f]) <= Len(records'[f])
         /\ \A f \in End :
              outLeft'[f] > 0 =>
                records'[f] # <<>>
                /\ outLeft'[f] <= Size(records'[f][Len(records'[f])])
<1> DEFINE r == [type |-> type, lo |-> lo, hi |-> hi, plen |-> plen + MacLen,
                 off |-> Len(wire[e])]
<1>1. /\ records \in [End -> Seq(Record)]
      /\ outLeft \in [End -> Nat]
      /\ wire[e] \in Seq(Byte)
      BY DEF TypeInv, TypeOK
<1>2. r \in Record
      BY <1>1 DEF Record
<1>3. records' = [records EXCEPT ![e] = Append(@, r)]
      BY DEF WriteRecord
<1>4. outLeft' = [outLeft EXCEPT ![e] = Size(r)] /\ Size(r) \in Nat
  <2>1. Size(r) = HdrLen + plen + MacLen
        BY DEF Size
  <2>2. outLeft' = [outLeft EXCEPT ![e] = HdrLen + plen + MacLen]
        BY DEF WriteRecord
  <2>3. HdrLen + plen + MacLen \in Nat
        OBVIOUS
  <2> HIDE DEF r
  <2> QED
    BY <2>1, <2>2, <2>3
<1>5. /\ records'[e] = Append(records[e], r)
      /\ records'[e] \in Seq(Record)
      /\ Len(records'[e]) = Len(records[e]) + 1
      /\ records'[e][Len(records'[e])] = r
      /\ Len(records[e]) \in Nat
  <2> HIDE DEF r
  <2>1. records[e] \in Seq(Record) /\ records'[e] = Append(records[e], r)
        BY <1>1, <1>3
  <2>2. Len(records[e]) \in Nat
        BY <2>1, LenProperties
  <2>3. Append(records[e], r) # <<>> /\ Append(records[e], r) \in Seq(Record)
        BY <2>1, <1>2, AppendProperties
  <2>4. /\ Len(Append(records[e], r)) = Len(records[e]) + 1
        /\ Append(records[e], r)[Len(records[e]) + 1] = r
        BY <2>1, <1>2, AppendProperties
  <2> QED
    BY <2>1, <2>2, <2>3, <2>4
<1>6. records' \in [End -> Seq(Record)]
  <2> HIDE DEF r
  <2> QED
    BY <1>1, <1>3, <1>5
<1>7. \A f \in End \ {e} : records'[f] = records[f] /\ outLeft'[f] = outLeft[f]
      BY <1>1, <1>3, <1>4
<1>8. \A f \in End : Len(records[f]) \in Nat
      BY <1>1, LenProperties
<1>9. \A f \in End : outLeft[f] > 0 =>
        records[f] # <<>> /\ outLeft[f] <= Size(records[f][Len(records[f])])
      BY DEF TypeInv, TypeOK, Newest
<1>10. records'[e] # <<>> /\ outLeft'[e] = Size(r)
  <2> HIDE DEF r
  <2>1. Len(records'[e]) # 0
        BY <1>5
  <2>2. records'[e] # <<>>
        BY <2>1, EmptySeq
  <2> QED
    BY <1>1, <1>4, <2>2
<1> HIDE DEF r
<1>11. outLeft'[e] <= Size(records'[e][Len(records'[e])])
      BY <1>4, <1>5, <1>10
<1>12. outLeft' \in [End -> Nat]
      BY <1>1, <1>4
<1>13. \A f \in End : Len(records[f]) <= Len(records'[f])
      BY <1>5, <1>7, <1>8
<1>14. ASSUME NEW f \in End, outLeft'[f] > 0
       PROVE  /\ records'[f] # <<>>
              /\ outLeft'[f] <= Size(records'[f][Len(records'[f])])
      BY <1>7, <1>9, <1>10, <1>11, <1>14
<1> QED
  BY <1>6, <1>12, <1>13, <1>14

\* A stream position is a number.
LEMMA IssuedType ==
  ASSUME TypeInv, NEW e \in End
  PROVE  Issued(e) \in Nat
<1>1. records[e] \in Seq(Record)
      BY DEF TypeInv, TypeOK
<1>2. CASE records[e] = <<>>
      BY <1>2 DEF Issued
<1>3. CASE records[e] # <<>>
  BY <1>3, NewestType DEF Issued, Record
<1> QED
  BY <1>2, <1>3

\* A record prepared on an unchanged wire.
LEMMA WriteRecordKeeps ==
  ASSUME TypeInv, NEW e \in End, NEW type \in Types, NEW lo \in Nat, NEW hi \in Nat,
         NEW plen \in Nat, WriteRecord(e, type, lo, hi, plen),
         wire' = wire
  PROVE  \A f \in End : \A i \in 1..Len(wire'[f]) :
           wire'[f][i][1] <= Len(records'[f])
<1> SUFFICES ASSUME NEW f \in End, NEW i \in 1..Len(wire[f])
             PROVE  wire[f][i][1] <= Len(records'[f])
      OBVIOUS
<1>1. wire[f] \in Seq(Byte) /\ records[f] \in Seq(Record)
      BY DEF TypeInv, TypeOK
<1>2. wire[f][i] \in Byte
      BY <1>1, ElementOfSeq
<1>3. wire[f][i][1] <= Len(records[f])
      BY DEF TypeInv, Known
<1>4. Len(records[f]) <= Len(records'[f]) /\ records'[f] \in Seq(Record)
      BY WriteRecordType
<1>5. /\ wire[f][i][1] \in Nat
      /\ Len(records[f]) \in Nat
      /\ Len(records'[f]) \in Nat
      BY <1>1, <1>2, <1>4, ByteFirst, LenProperties
<1> QED
  BY <1>3, <1>4, <1>5

\* A flush moves n bytes of the newest record from out_left to the wire.
LEMMA FlushType ==
  ASSUME TypeInv, NEW e \in End, outLeft[e] > 0, NEW n \in 1..outLeft[e],
         records' = records,
         outLeft' = [outLeft EXCEPT ![e] = @ - n],
         \/ wire' = [wire EXCEPT ![e] = @ \o HeaderBytes(e, n)]
         \/ wire' = [wire EXCEPT ![e] = @ \o BodyBytes(e, n)]
  PROVE  /\ wire' \in [End -> Seq(Byte)]
         /\ outLeft' \in [End -> Nat]
         /\ \A f \in End : outLeft'[f] > 0 =>
              records'[f] # <<>> /\ outLeft'[f] <= Size(Newest(f)')
         /\ \A f \in End :
              /\ Len(wire[f]) <= Len(wire'[f])
              /\ \A i \in 1..Len(wire'[f]) : wire'[f][i][1] <= Len(records'[f])
<1>1. records \in [End -> Seq(Record)] /\ outLeft \in [End -> Nat]
      BY DEF TypeInv, TypeOK
<1>2. \A f \in End : outLeft[f] > 0 =>
        records[f] # <<>> /\ outLeft[f] <= Size(Newest(f)) /\ Size(Newest(f)) \in Nat
  <2> SUFFICES ASSUME NEW f \in End, outLeft[f] > 0
               PROVE  records[f] # <<>> /\ outLeft[f] <= Size(Newest(f))
                      /\ Size(Newest(f)) \in Nat
        OBVIOUS
  <2>1. records[f] # <<>> /\ outLeft[f] <= Size(Newest(f))
        BY DEF TypeInv, TypeOK
  <2>2. Newest(f) \in Record
        BY <2>1, NewestType
  <2>3. Size(Newest(f)) \in Nat
        BY <2>2 DEF Size, Record
  <2> QED
    BY <2>1, <2>3
<1>3. outLeft[e] - n \in Nat /\ outLeft[e] - n <= outLeft[e]
      BY <1>1
<1>4. outLeft' \in [End -> Nat] /\ \A f \in End : outLeft'[f] <= outLeft[f]
      BY <1>1, <1>3
<1>5. \A f \in End : Newest(f)' = Newest(f)
      BY DEF Newest
<1>6. \A f \in End : Len(records[f]) <= Len(records[f])
      BY <1>1, LenProperties
<1>7. PICK s \in Seq(Byte) : /\ \A i \in 1..Len(s) : s[i][1] <= Len(records'[e])
                             /\ wire' = [wire EXCEPT ![e] = @ \o s]
      BY BytesType
<1>8. /\ wire' \in [End -> Seq(Byte)]
      /\ \A f \in End :
           /\ Len(wire[f]) <= Len(wire'[f])
           /\ \A i \in 1..Len(wire'[f]) : wire'[f][i][1] <= Len(records'[f])
      BY <1>1, <1>6, <1>7, WireGrows
<1>9. ASSUME NEW f \in End, outLeft'[f] > 0
      PROVE  records'[f] # <<>> /\ outLeft'[f] <= Size(Newest(f)')
  <2>1. outLeft[f] > 0 /\ outLeft[f] \in Nat /\ outLeft'[f] \in Nat
        BY <1>1, <1>4, <1>9
  <2> QED
    BY <1>2, <1>4, <1>5, <2>1
<1> QED
  BY <1>4, <1>8, <1>9

\* The smaller of two integers.
LEMMA LeastType ==
  ASSUME NEW a \in Int, NEW b \in Int
  PROVE  /\ Least(a, b) \in Int
         /\ a \in Nat /\ b \in Nat => Least(a, b) \in Nat
         /\ Least(a, b) <= a /\ Least(a, b) <= b
  BY DEF Least

\* The smaller of two lengths.
LEMMA LeastNat ==
  ASSUME NEW a \in Nat, NEW b \in Nat
  PROVE  /\ Least(a, b) \in Nat
         /\ Least(a, b) <= a /\ Least(a, b) <= b
  BY DEF Least

\* Preparing a record keeps the types, the wire being left alone.
LEMMA PrepareType ==
  ASSUME TypeInv, NEW e \in End, NEW type \in Types, NEW lo \in Nat, NEW hi \in Nat,
         NEW plen \in Nat, WriteRecord(e, type, lo, hi, plen),
         wire' = wire, got' = got,
         \A f \in End : inLeft'[f] \in Nat /\ inLeft'[f] <= inLeft[f]
  PROVE  /\ records' \in [End -> Seq(Record)]
         /\ outLeft' \in [End -> Nat]
         /\ \A f \in End :
              outLeft'[f] > 0 => records'[f] # <<>> /\ outLeft'[f] <= Size(Newest(f)')
         /\ Known'
<1>1. \A f \in End : Newest(f)' = records'[f][Len(records'[f])]
      BY DEF Newest
<1>2. \A f \in End : \A i \in 1..Len(wire'[f]) : wire'[f][i][1] <= Len(records'[f])
      BY WriteRecordKeeps
<1>3. \A f \in End : inLeft[f] \in Nat /\ got[f] \in Nat /\ inLeft[f] <= got[f]
                     /\ got[f] <= Len(wire[Peer[f]])
      BY DEF TypeInv, TypeOK, Known
<1>4. Known'
      BY <1>2, <1>3 DEF Known
<1> QED
  BY <1>1, <1>4, WriteRecordType

\* A byte of the next record is there, so the record is.
LEMMA NextRecord ==
  ASSUME TypeInv, NEW e \in End, Intact(e), inLeft[e] > 0
  PROVE  /\ nread[e] + 1 \in 1..Len(records[Peer[e]])
         /\ records[Peer[e]][nread[e] + 1] \in Record
<1>1. /\ Peer[e] \in End
      /\ inLeft[e] \in Nat /\ got[e] \in Nat /\ nread[e] \in Nat
      /\ inLeft[e] <= got[e] /\ got[e] <= Len(wire[Peer[e]])
      /\ records[Peer[e]] \in Seq(Record)
      BY DEF TypeInv, TypeOK, Known
<1>2. 1 \in 1..inLeft[e]
      BY <1>1
<1>3. wire[Peer[e]][got[e] - inLeft[e] + 1] = <<nread[e] + 1, 1>>
      BY <1>2 DEF Intact, Fetched
<1>4. Len(wire[Peer[e]]) \in Nat
      BY <1>1, LenProperties DEF TypeInv, TypeOK
<1>5. got[e] - inLeft[e] + 1 \in 1..Len(wire[Peer[e]])
      BY <1>1, <1>4
<1>6. nread[e] + 1 <= Len(records[Peer[e]])
      BY <1>1, <1>3, <1>5 DEF TypeInv, Known
<1>7. nread[e] + 1 \in 1..Len(records[Peer[e]])
      BY <1>1, <1>6, LenProperties
<1> QED
  BY <1>1, <1>7, ElementOfSeq

\* The record that Complete speaks of.
LEMMA CompleteRecord ==
  ASSUME TypeInv, NEW e \in End, NEW type, Complete(e, type)
  PROVE  /\ nread[e] + 1 \in 1..Len(records[Peer[e]])
         /\ records[Peer[e]][nread[e] + 1] \in Record
         /\ nread[e] + 1 \in Nat
<1>1. inLeft[e] > 0
      BY DEF Complete, TypeInv, TypeOK
<1>2. nread[e] \in Nat
      BY DEF TypeInv, TypeOK
<1> QED
  BY <1>1, <1>2, NextRecord DEF Complete

\* Each step keeps the types.
THEOREM TypeInvInductive == TypeInv /\ [Next]_vars => TypeInv'
<1> SUFFICES ASSUME TypeInv, [Next]_vars PROVE TypeInv'
    OBVIOUS
<1> USE DEF outVars, inVars
<1>0. CASE UNCHANGED vars
      BY <1>0 DEF vars, TypeInv, TypeOK, Known, Newest
<1>1. ASSUME NEW e \in End, Sends(e) PROVE TypeInv'
  <2>1. outLeft[e] > 0 /\ records[e] # <<>> /\ outLeft[e] \in Nat
        BY <1>1 DEF Sends, SendHeader, SendBody, Flushing, TypeInv, TypeOK
  <2>2. HeaderLeft(e) \in Int /\ HeaderLeft(e) <= outLeft[e]
        BY <2>1, NewestType DEF HeaderLeft, Record
  <2>3. PICK n \in 1..outLeft[e] :
          /\ outLeft' = [outLeft EXCEPT ![e] = @ - n]
          /\ \/ wire' = [wire EXCEPT ![e] = @ \o HeaderBytes(e, n)]
             \/ wire' = [wire EXCEPT ![e] = @ \o BodyBytes(e, n)]
    <3>1. CASE SendHeader(e)
      <4>1. PICK n \in 1..HeaderLeft(e) :
              /\ outLeft' = [outLeft EXCEPT ![e] = @ - n]
              /\ wire' = [wire EXCEPT ![e] = @ \o HeaderBytes(e, n)]
            BY <3>1 DEF SendHeader
      <4>2. n \in 1..outLeft[e]
            BY <2>1, <2>2, <4>1
      <4> QED
        BY <4>1, <4>2
    <3>2. CASE SendBody(e)
          BY <3>2 DEF SendBody
    <3> QED
      BY <1>1, <3>1, <3>2 DEF Sends
  <2>4. /\ UNCHANGED <<call, records, writing, acked, shut, ended>>
        /\ UNCHANGED inVars
        /\ atHeader' \in [End -> BOOLEAN]
        BY <1>1 DEF Sends, SendHeader, SendBody, TypeInv, TypeOK
  <2>5. /\ wire' \in [End -> Seq(Byte)]
        /\ outLeft' \in [End -> Nat]
        /\ \A f \in End : outLeft'[f] > 0 =>
             records'[f] # <<>> /\ outLeft'[f] <= Size(Newest(f)')
        /\ \A f \in End :
              /\ Len(wire[f]) <= Len(wire'[f])
              /\ \A i \in 1..Len(wire'[f]) : wire'[f][i][1] <= Len(records'[f])
        BY <2>1, <2>3, <2>4, FlushType
  <2>6. TypeOK'
        BY <2>4, <2>5 DEF TypeInv, TypeOK
  <2>7. Known'
    <3>1. \A f \in End : /\ Len(wire[f]) \in Nat
                         /\ Len(wire'[f]) \in Nat
                         /\ got[f] \in Nat
          BY <2>5, LenProperties DEF TypeInv, TypeOK
    <3>2. ASSUME NEW f \in End
          PROVE  inLeft'[f] <= got'[f] /\ got'[f] <= Len(wire'[Peer[f]])
      <4>1. Peer[f] \in End /\ got[f] <= Len(wire[Peer[f]]) /\ inLeft[f] <= got[f]
            BY DEF TypeInv, Known
      <4>2. Len(wire[Peer[f]]) <= Len(wire'[Peer[f]])
            BY <2>5, <4>1
      <4> QED
        BY <2>4, <3>1, <4>1, <4>2
    <3> QED
      BY <2>5, <3>2 DEF Known
  <2> QED
    BY <2>6, <2>7 DEF TypeInv
<1>2. ASSUME NEW e \in End, SendWouldBlock(e) PROVE TypeInv'
  <2>1. call' \in [End -> Calls]
        BY <1>2 DEF SendWouldBlock, TypeInv, TypeOK, Calls
  <2>2. shut' \in [End -> BOOLEAN] /\ ended' \in [End -> Reasons]
    <3>1. shut \in [End -> BOOLEAN] /\ ended \in [End -> Reasons]
          BY DEF TypeInv, TypeOK
    <3>2. CASE call[e] \in {"flush", "close"}
      <4>1. shut' = [shut EXCEPT ![e] = TRUE] /\ Stop(e, "closed")
            BY <1>2, <3>2 DEF SendWouldBlock
      <4> QED
        BY <3>1, <4>1 DEF Stop, Reasons
    <3>3. CASE call[e] \notin {"flush", "close"}
          BY <1>2, <3>1, <3>3 DEF SendWouldBlock
    <3> QED
      BY <3>2, <3>3
  <2>3. atHeader' \in [End -> BOOLEAN]
        BY <1>2 DEF SendWouldBlock, TypeInv, TypeOK
  <2> QED
    BY <1>2, <2>1, <2>2, <2>3 DEF SendWouldBlock, TypeInv, TypeOK, Known, Newest
<1>3. ASSUME NEW e \in End, SendReset(e) PROVE TypeInv'
      BY <1>3 DEF SendReset, TypeInv, TypeOK, Known, Newest, Calls, Reasons, Stop
<1>4. ASSUME NEW e \in End, RecvWouldBlock(e) PROVE TypeInv'
      BY <1>4 DEF RecvWouldBlock, TypeInv, TypeOK, Known, Newest, Calls, Reasons
<1>5. ASSUME NEW e \in End, RecvEof(e) PROVE TypeInv'
      BY <1>5 DEF RecvEof, TypeInv, TypeOK, Known, Newest, Calls, Reasons
<1>6. ASSUME NEW e \in End, RecvReset(e) PROVE TypeInv'
      BY <1>6 DEF RecvReset, TypeInv, TypeOK, Known, Newest, Calls, Reasons, Stop
<1>7. ASSUME NEW e \in End, ReadCloseNotify(e) PROVE TypeInv'
      BY <1>7 DEF ReadCloseNotify, TypeInv, TypeOK, Known, Newest, Calls, Reasons, Stop
<1>8. ASSUME NEW e \in End, CloseNotify(e) PROVE TypeInv'
      BY <1>8 DEF CloseNotify, TypeInv, TypeOK, Known, Newest, Calls, Reasons
<1>9. ASSUME NEW e \in End, NetClose(e) PROVE TypeInv'
      BY <1>9 DEF NetClose, TypeInv, TypeOK, Known, Newest, Calls, Reasons, Stop
<1>10. ASSUME NEW e \in End, Read(e) PROVE TypeInv'
      BY <1>10 DEF Read, TypeInv, TypeOK, Known, Newest, Calls, Reasons
<1>11. ASSUME NEW e \in End, WriteReturn(e) PROVE TypeInv'
  <2>1. ASSUME NEW len \in writing[e]
        PROVE  acked[e] + Least(len, MaxContent) \in Nat
    <3>1. len \in Nat /\ acked[e] \in Nat
          BY DEF TypeInv, TypeOK
    <3>2. Least(len, MaxContent) \in Nat
          BY <3>1, LeastNat
    <3> QED
      BY <3>1, <3>2
  <2>2. acked' \in [End -> Nat]
        BY <1>11, <2>1 DEF WriteReturn, TypeInv, TypeOK
  <2> QED
    BY <1>11, <2>2 DEF WriteReturn, TypeInv, TypeOK, Known, Newest, Calls
<1>12. ASSUME NEW e \in End, RefuseReturn(e) PROVE TypeInv'
  <2>1. <<0, 0, 0, 0>> \in Seq(Nat)
        OBVIOUS
  <2>2. pending' \in [End -> Seq(Nat)]
        BY <1>12, <2>1 DEF RefuseReturn, TypeInv, TypeOK
  <2> QED
    BY <1>12, <2>2 DEF RefuseReturn, TypeInv, TypeOK, Known, Newest, Calls
<1>13. ASSUME NEW e \in End, Write(e) PROVE TypeInv'
  <2>1. PICK len \in WriteLens :
          /\ writing' = [writing EXCEPT ![e] = {len}]
          /\ IF outLeft[e] # 0
               THEN UNCHANGED <<records, outLeft>>
               ELSE WriteRecord(e, "data", acked[e], acked[e] + Least(len, MaxContent),
                                Least(len, MaxContent))
        BY <1>13 DEF Write
  <2>2. /\ call' = [call EXCEPT ![e] = "write"]
        /\ UNCHANGED <<atHeader, acked, wire, shut, ended>>
        /\ UNCHANGED inVars
        BY <1>13 DEF Write
  <2>3. Least(len, MaxContent) \in Nat /\ acked[e] \in Nat
    <3>1. len \in Nat
          OBVIOUS
    <3>2. Least(len, MaxContent) \in Nat
          BY <3>1, LeastNat
    <3> QED
      BY <3>2 DEF TypeInv, TypeOK
  <2>4. /\ records' \in [End -> Seq(Record)]
        /\ outLeft' \in [End -> Nat]
        /\ \A f \in End :
             outLeft'[f] > 0 => records'[f] # <<>> /\ outLeft'[f] <= Size(Newest(f)')
        /\ Known'
    <3>1. CASE outLeft[e] # 0
          BY <2>1, <2>2, <3>1 DEF TypeInv, TypeOK, Known, Newest
    <3>2. CASE outLeft[e] = 0
      <4>1. /\ "data" \in Types
            /\ acked[e] + Least(len, MaxContent) \in Nat
            /\ \A f \in End : inLeft'[f] \in Nat /\ inLeft'[f] <= inLeft[f]
            BY <2>2, <2>3 DEF Types, TypeInv, TypeOK
      <4> QED
        BY <2>1, <2>2, <2>3, <3>2, <4>1, PrepareType
    <3> QED
      BY <3>1, <3>2
  <2>5. call' \in [End -> Calls] /\ writing' \in [End -> SUBSET WriteLens]
        BY <2>1, <2>2 DEF TypeInv, TypeOK, Calls
  <2> QED
    BY <2>2, <2>4, <2>5 DEF TypeInv, TypeOK
<1>14. ASSUME NEW e \in End, CloseAlert(e) PROVE TypeInv'
  <2>1. /\ "close" \in Types
        /\ Issued(e) \in Nat
        /\ \A f \in End : inLeft'[f] \in Nat /\ inLeft'[f] <= inLeft[f]
    <3>1. Issued(e) \in Nat
          BY IssuedType
    <3>2. inLeft \in [End -> Nat]
          BY DEF TypeInv, TypeOK
    <3>3. \A f \in End : inLeft'[f] \in Nat /\ inLeft'[f] <= inLeft[f]
          BY <1>14, <3>2 DEF CloseAlert
    <3> QED
      BY <3>1, <3>3 DEF Types
  <2>2. WriteRecord(e, "close", Issued(e), Issued(e), 2)
        BY <1>14 DEF CloseAlert, WriteMessage
  <2>3. /\ records' \in [End -> Seq(Record)]
        /\ outLeft' \in [End -> Nat]
        /\ \A f \in End :
             outLeft'[f] > 0 => records'[f] # <<>> /\ outLeft'[f] <= Size(Newest(f)')
        /\ Known'
        BY <1>14, <2>1, <2>2, PrepareType DEF CloseAlert
  <2> QED
    BY <1>14, <2>3 DEF CloseAlert, TypeInv, TypeOK, Calls
<1>15. ASSUME NEW e \in End, RefuseRecord(e) PROVE TypeInv'
  <2>1. /\ "fatal" \in Types
        /\ Issued(e) \in Nat
        /\ \A f \in End : inLeft'[f] \in Nat /\ inLeft'[f] <= inLeft[f]
    <3>1. Issued(e) \in Nat
          BY IssuedType
    <3>2. inLeft \in [End -> Nat]
          BY DEF TypeInv, TypeOK
    <3>3. \A f \in End : inLeft'[f] \in Nat /\ inLeft'[f] <= inLeft[f]
          BY <1>15, <3>2 DEF RefuseRecord
    <3> QED
      BY <3>1, <3>3 DEF Types
  <2>2. \/ UNCHANGED <<records, outLeft>>
        \/ WriteRecord(e, "fatal", Issued(e), Issued(e), 2)
        BY <1>15 DEF RefuseRecord, WriteMessage
  <2>3. /\ records' \in [End -> Seq(Record)]
        /\ outLeft' \in [End -> Nat]
        /\ \A f \in End :
             outLeft'[f] > 0 => records'[f] # <<>> /\ outLeft'[f] <= Size(Newest(f)')
        /\ Known'
    <3>1. CASE UNCHANGED <<records, outLeft>>
          BY <1>15, <3>1 DEF RefuseRecord, TypeInv, TypeOK, Known, Newest
    <3>2. CASE WriteRecord(e, "fatal", Issued(e), Issued(e), 2)
          BY <1>15, <2>1, <3>2, PrepareType DEF RefuseRecord
    <3> QED
      BY <2>2, <3>1, <3>2
  <2>4. call' \in [End -> Calls] /\ ended' \in [End -> Reasons]
        BY <1>15 DEF RefuseRecord, Stop, TypeInv, TypeOK, Calls, Reasons
  <2> QED
    BY <1>15, <2>3, <2>4 DEF RefuseRecord, TypeInv, TypeOK
<1>16. ASSUME NEW e \in End, ReadHello(e) PROVE TypeInv'
  <2>1. /\ "refuse" \in Types
        /\ Issued(e) \in Nat
        /\ \A f \in End : inLeft'[f] \in Nat /\ inLeft'[f] <= inLeft[f]
    <3>1. Issued(e) \in Nat
          BY IssuedType
    <3>2. inLeft \in [End -> Nat]
          BY DEF TypeInv, TypeOK
    <3>3. \A f \in End : inLeft'[f] \in Nat /\ inLeft'[f] <= inLeft[f]
          BY <1>16, <3>2 DEF ReadHello, Consume
    <3> QED
      BY <3>1, <3>3 DEF Types
  <2>2. WriteRecord(e, "refuse", Issued(e), Issued(e), 2)
        BY <1>16 DEF ReadHello, WriteMessage
  <2>3. /\ records' \in [End -> Seq(Record)]
        /\ outLeft' \in [End -> Nat]
        /\ \A f \in End :
             outLeft'[f] > 0 => records'[f] # <<>> /\ outLeft'[f] <= Size(Newest(f)')
        /\ Known'
        BY <1>16, <2>1, <2>2, PrepareType DEF ReadHello
  <2>4. nread' \in [End -> Nat] /\ inLeft' \in [End -> Nat]
        BY <1>16, CompleteRecord DEF ReadHello, Consume, TypeInv, TypeOK
  <2> QED
    BY <1>16, <2>3, <2>4 DEF ReadHello, TypeInv, TypeOK, Calls
<1>17. ASSUME NEW e \in End, ReadPending(e) PROVE TypeInv'
  <2>1. PICK len \in ReadLens :
          /\ rcvd' = [rcvd EXCEPT ![e] =
                        @ \o SubSeq(pending[e], 1, Least(len, Len(pending[e])))]
          /\ pending' = [pending EXCEPT ![e] =
                           SubSeq(@, Least(len, Len(pending[e])) + 1, Len(@))]
        BY <1>17 DEF ReadPending
  <2>2. rcvd \in [End -> Seq(Nat)] /\ pending \in [End -> Seq(Nat)]
        BY DEF TypeInv, TypeOK
  <2> DEFINE n == Least(len, Len(pending[e]))
  <2>3. /\ SubSeq(pending[e], 1, n) \in Seq(Nat)
        /\ SubSeq(pending[e], n + 1, Len(pending[e])) \in Seq(Nat)
    <3>1. Len(pending[e]) \in Nat /\ len \in Nat
          BY <2>2, LenProperties
    <3>2. n \in Nat /\ n <= Len(pending[e])
          BY <3>1, LeastNat
    <3>3. \A i \in 1..Len(pending[e]) : pending[e][i] \in Nat
          BY <2>2, ElementOfSeq
    <3> HIDE DEF n
    <3>4. \A i \in 1..n : pending[e][i] \in Nat
          BY <3>1, <3>2, <3>3
    <3>5. \A i \in n + 1..Len(pending[e]) : pending[e][i] \in Nat
          BY <3>1, <3>2, <3>3
    <3>6. SubSeq(pending[e], 1, n) \in Seq(Nat)
          BY <3>2, <3>4, SubSeqProperties
    <3>7. SubSeq(pending[e], n + 1, Len(pending[e])) \in Seq(Nat)
          BY <3>1, <3>2, <3>5, SubSeqProperties
    <3> QED
      BY <3>6, <3>7
  <2>4. rcvd' \in [End -> Seq(Nat)]
        BY <2>1, <2>2, <2>3, ConcatProperties
  <2>5. pending' \in [End -> Seq(Nat)]
        BY <2>1, <2>2, <2>3
  <2> QED
    BY <1>17, <2>4, <2>5 DEF ReadPending, TypeInv, TypeOK, Known, Newest
<1>18. ASSUME NEW e \in End, Recv(e) PROVE TypeInv'
  <2>1. /\ got \in [End -> Nat] /\ inLeft \in [End -> Nat]
        /\ Peer[e] \in End /\ Len(wire[Peer[e]]) \in Nat
        BY LenProperties DEF TypeInv, TypeOK
  <2>2. Wanted(e) \in Int
    <3>1. CASE inLeft[e] < HdrLen
          BY <3>1 DEF Wanted
    <3>2. CASE ~(inLeft[e] < HdrLen)
      <4>1. inLeft[e] > 0
            BY <2>1, <3>2
      <4>2. records[Peer[e]][nread[e] + 1] \in Record
            BY <1>18, <4>1, NextRecord DEF Recv
      <4> QED
        BY <3>2, <4>2 DEF Wanted, Size, Record
    <3> QED
      BY <3>1, <3>2
  <2>3. PICK n \in 1..Least(Wanted(e) - inLeft[e], InTransit(e)) :
          /\ got' = [got EXCEPT ![e] = @ + n]
          /\ inLeft' = [inLeft EXCEPT ![e] = @ + n]
        BY <1>18 DEF Recv
  <2>4. n \in Nat /\ n <= InTransit(e)
    <3>1. InTransit(e) \in Int /\ Wanted(e) - inLeft[e] \in Int
          BY <2>1, <2>2 DEF InTransit
    <3>2. /\ Least(Wanted(e) - inLeft[e], InTransit(e)) \in Int
          /\ Least(Wanted(e) - inLeft[e], InTransit(e)) <= InTransit(e)
          BY <3>1, LeastType
    <3> QED
      BY <2>3, <3>1, <3>2
  <2>5. /\ got' \in [End -> Nat] /\ inLeft' \in [End -> Nat]
        /\ got'[e] <= Len(wire[Peer[e]])
        BY <2>1, <2>3, <2>4 DEF InTransit
  <2>6. inLeft'[e] <= got'[e]
        BY <2>1, <2>3, <2>4 DEF TypeInv, Known
  <2>7. \A f \in End \ {e} : inLeft'[f] = inLeft[f] /\ got'[f] = got[f]
        BY <2>1, <2>3
  <2>8. UNCHANGED outVars
        BY <1>18 DEF Recv
  <2>9. Known'
        BY <2>5, <2>6, <2>7, <2>8 DEF TypeInv, Known
  <2>10. TypeOK'
        BY <1>18, <2>5, <2>8 DEF Recv, TypeInv, TypeOK, Newest
  <2> QED
    BY <2>9, <2>10 DEF TypeInv
<1>19. ASSUME NEW e \in End, ReadData(e) \/ ReadEmpty(e) \/ ReadAlert(e)
       PROVE  TypeInv'
  <2>1. \/ Consume(e) /\ nread[e] + 1 \in Nat
        \/ UNCHANGED <<inLeft, nread>>
        BY <1>19, CompleteRecord DEF ReadData, ReadEmpty, ReadAlert
  <2>2. /\ nread' \in [End -> Nat]
        /\ inLeft' \in [End -> Nat]
        /\ \A f \in End : inLeft'[f] <= inLeft[f]
    <3>1. nread \in [End -> Nat] /\ inLeft \in [End -> Nat]
          BY DEF TypeInv, TypeOK
    <3>2. CASE Consume(e) /\ nread[e] + 1 \in Nat
          BY <3>1, <3>2 DEF Consume
    <3>3. CASE UNCHANGED <<inLeft, nread>>
          BY <3>1, <3>3
    <3> QED
      BY <2>1, <3>2, <3>3
  <2>3. UNCHANGED outVars /\ got' = got
        BY <1>19 DEF ReadData, ReadEmpty, ReadAlert
  <2>4. Known'
    <3>1. ASSUME NEW f \in End
          PROVE  inLeft'[f] <= got[f] /\ got[f] <= Len(wire[Peer[f]])
      <4>1. inLeft[f] \in Nat /\ inLeft'[f] \in Nat /\ got[f] \in Nat
            BY <2>2 DEF TypeInv, TypeOK
      <4>2. inLeft[f] <= got[f] /\ got[f] <= Len(wire[Peer[f]])
            BY DEF TypeInv, Known
      <4> QED
        BY <2>2, <4>1, <4>2
    <3>2. wire' = wire /\ records' = records
          BY <2>3
    <3> QED
      BY <2>3, <3>1, <3>2 DEF TypeInv, Known
  <2>5. pending' \in [End -> Seq(Nat)]
    <3>1. CASE ReadData(e)
      <4> DEFINE r == records[Peer[e]][nread[e] + 1]
      <4>1. r \in Record /\ r.lo < r.hi
            BY <3>1, CompleteRecord DEF ReadData
      <4> DEFINE d == [i \in 1..(r.hi - r.lo) |-> r.lo + i]
      <4>2. r.hi - r.lo \in Nat /\ d \in [1..(r.hi - r.lo) -> Nat]
            BY <4>1 DEF Record
      <4>3. d \in Seq(Nat)
            BY <4>2, FunctionIsSeq
      <4>4. pending' = [pending EXCEPT ![e] = d]
            BY <3>1 DEF ReadData
      <4> HIDE DEF d
      <4> QED
        BY <4>3, <4>4 DEF TypeInv, TypeOK
    <3>2. CASE ReadEmpty(e) \/ ReadAlert(e)
          BY <3>2 DEF ReadEmpty, ReadAlert, TypeInv, TypeOK
    <3> QED
      BY <1>19, <3>1, <3>2
  <2>6. /\ call' \in [End -> Calls] /\ eof' \in [End -> BOOLEAN]
        /\ ended' \in [End -> Reasons]
    <3>1. /\ call \in [End -> Calls] /\ eof \in [End -> BOOLEAN]
          /\ ended \in [End -> Reasons]
          BY DEF TypeInv, TypeOK
    <3>2. CASE ReadData(e)
          BY <3>1, <3>2 DEF ReadData, Calls
    <3>3. CASE ReadEmpty(e)
          BY <3>1, <3>3 DEF ReadEmpty, Calls
    <3>4. CASE ReadAlert(e)
          BY <3>1, <3>4 DEF ReadAlert, Stop, Calls, Reasons
    <3> QED
      BY <1>19, <3>2, <3>3, <3>4
  <2>7. UNCHANGED <<writing, acked, shut, rcvd>>
        BY <1>19 DEF ReadData, ReadEmpty, ReadAlert
  <2>8. TypeOK'
        BY <2>2, <2>3, <2>5, <2>6, <2>7 DEF TypeInv, TypeOK, Newest
  <2> QED
    BY <2>4, <2>8 DEF TypeInv
<1>20. ASSUME NEW e \in End, HelloRequest(e) PROVE TypeInv'
  <2> DEFINE k == Len(records[e])
             r == [type |-> "hello", lo |-> Issued(e), hi |-> Issued(e),
                   plen |-> 4 + MacLen, off |-> Len(wire[e])]
             s == [j \in 1..(HdrLen + 4 + MacLen) |-> <<k + 1, j>>]
  <2>1. /\ records \in [End -> Seq(Record)] /\ outLeft \in [End -> Nat]
        /\ wire[e] \in Seq(Byte)
        BY DEF TypeInv, TypeOK
  <2>2. r \in Record
        BY <2>1, IssuedType, LenProperties DEF Record, Types
  <2>3. /\ records' = [records EXCEPT ![e] = Append(@, r)]
        /\ wire' = [wire EXCEPT ![e] = @ \o s]
        /\ UNCHANGED <<call, outLeft, atHeader, writing, acked, shut, ended>>
        /\ UNCHANGED inVars
        /\ outLeft[e] = 0
        BY <1>20 DEF HelloRequest
  <2>4. k \in Nat /\ HdrLen + 4 + MacLen \in Nat
        BY <2>1, LenProperties
  <2>5. /\ s \in [1..(HdrLen + 4 + MacLen) -> Byte]
        /\ \A j \in 1..(HdrLen + 4 + MacLen) : s[j][1] = k + 1
        BY <2>4 DEF Byte
  <2>6. s \in Seq(Byte) /\ Len(s) = HdrLen + 4 + MacLen
    <3> HIDE DEF s
    <3> QED
      BY <2>4, <2>5, FunctionIsSeq
  <2> HIDE DEF r, s
  <2>7. /\ records'[e] = Append(records[e], r)
        /\ records'[e] \in Seq(Record)
        /\ Len(records'[e]) = k + 1
        BY <2>1, <2>2, <2>3, AppendProperties
  <2>8. records' \in [End -> Seq(Record)]
        BY <2>1, <2>3, <2>7
  <2>9. \A i \in 1..Len(s) : s[i][1] <= Len(records'[e])
        BY <2>4, <2>5, <2>6, <2>7
  <2>10. Len(records[e]) <= Len(records'[e])
        BY <2>4, <2>7
  <2>11. \A f \in End \ {e} : records'[f] = records[f]
        BY <2>1, <2>3
  <2>12. /\ wire' \in [End -> Seq(Byte)]
         /\ \A f \in End :
              /\ Len(wire[f]) <= Len(wire'[f])
              /\ \A i \in 1..Len(wire'[f]) : wire'[f][i][1] <= Len(records'[f])
        BY <2>3, <2>6, <2>8, <2>9, <2>10, <2>11, WireGrows
  <2>13. \A f \in End : outLeft'[f] > 0 =>
          records'[f] # <<>> /\ outLeft'[f] <= Size(Newest(f)')
    <3> SUFFICES ASSUME NEW f \in End, outLeft[f] > 0
                 PROVE  records'[f] # <<>> /\ outLeft[f] <= Size(Newest(f)')
      BY <2>3
    <3>1. f # e
          BY <2>3
    <3>2. records'[f] = records[f] /\ Newest(f)' = Newest(f)
          BY <2>11, <3>1 DEF Newest
    <3> QED
      BY <3>2 DEF TypeInv, TypeOK
  <2>14. Known'
    <3>1. \A f \in End : /\ Len(wire[f]) \in Nat
                         /\ Len(wire'[f]) \in Nat
                         /\ got[f] \in Nat
          BY <2>12, LenProperties DEF TypeInv, TypeOK
    <3>2. ASSUME NEW f \in End
          PROVE  inLeft'[f] <= got'[f] /\ got'[f] <= Len(wire'[Peer[f]])
      <4>1. Peer[f] \in End /\ got[f] <= Len(wire[Peer[f]]) /\ inLeft[f] <= got[f]
            BY DEF TypeInv, Known
      <4>2. Len(wire[Peer[f]]) <= Len(wire'[Peer[f]])
            BY <2>12, <4>1
      <4> QED
        BY <2>3, <3>1, <4>1, <4>2
    <3> QED
      BY <2>12, <3>2 DEF Known
  <2>15. TypeOK'
        BY <2>3, <2>8, <2>12, <2>13 DEF TypeInv, TypeOK
  <2> QED
    BY <2>14, <2>15 DEF TypeInv
<1> QED
  BY <1>0, <1>1, <1>2, <1>3, <1>4, <1>5, <1>6, <1>7, <1>8, <1>9, <1>10, <1>11,
     <1>12, <1>13, <1>14, <1>15, <1>16, <1>17, <1>18, <1>19, <1>20
     DEF Next, Reads, Returns

\* Nothing is on the wire yet.
LEMMA TypeInvInit == Init => TypeInv
<1> SUFFICES ASSUME Init PROVE TypeInv
  OBVIOUS
<1>1. \A f \in End : Peer[f] \in End
      OBVIOUS
<1>2. TypeOK
      BY EmptySeq DEF Init, TypeOK, Calls, Reasons
<1>3. Known
  <2>1. \A f \in End : /\ wire[f] = <<>> /\ wire[Peer[f]] = <<>>
                       /\ inLeft[f] = 0 /\ got[f] = 0
        BY <1>1 DEF Init
  <2>2. \A f \in End : Len(wire[f]) = 0 /\ Len(wire[Peer[f]]) = 0
        BY <2>1, EmptySeq
  <2>3. \A i \in 1..0 : FALSE
        OBVIOUS
  <2>4. \A f \in End : \A i \in 1..Len(wire[f]) : wire[f][i][1] <= Len(records[f])
        BY <2>2, <2>3
  <2>5. \A f \in End : inLeft[f] <= got[f] /\ got[f] <= Len(wire[Peer[f]])
    <3> SUFFICES ASSUME NEW f \in End
                 PROVE  inLeft[f] <= got[f] /\ got[f] <= Len(wire[Peer[f]])
      OBVIOUS
    <3>1. inLeft[f] = 0 /\ got[f] = 0 /\ Len(wire[Peer[f]]) = 0
          BY <2>1, <2>2
    <3> QED
      BY <3>1
  <2> QED
    BY <2>4, <2>5, Zenon DEF Known
<1> QED
  BY <1>2, <1>3 DEF TypeInv

\* The variables of the record layer keep their types, and out_left never
\* exceeds the record it belongs to, whatever the socket and the peer do.
THEOREM TypeCorrect == Spec => []TypeOK
<1>1. Init => TypeInv
      BY TypeInvInit
<1>2. TypeInv => TypeOK
      BY DEF TypeInv
<1> QED
  BY <1>1, <1>2, TypeInvInductive, PTL DEF Spec

-----------------------------------------------------------------------------
(* The way from ssl_write to ssl_read: IInv is inductive when the socket takes *)
(* a record header whole and no end asks for renegotiation, and no record is   *)
(* refused then.                                                              *)

\* The conditions under which every record arrives as it was written.
Calm == ~ShortHeader /\ HelloFrom = {}

-----------------------------------------------------------------------------
(* Records and the wire *)

\* The k-th record of a sequence and its fields.
LEMMA RecordFacts ==
  ASSUME NEW R \in Seq(Record), Layout(R), NEW k \in 1..Len(R)
  PROVE  /\ R[k] \in Record
         /\ Size(R[k]) \in Nat /\ Size(R[k]) > R[k].plen
         /\ R[k].plen \in Nat /\ R[k].plen > 0
         /\ R[k].off \in Nat /\ R[k].lo \in Nat /\ R[k].hi \in Nat
         /\ EndOf(R, k) = R[k].off + Size(R[k]) /\ EndOf(R, k) \in Nat
         /\ UpTo(R, k) = R[k].hi
<1>1. R[k] \in Record /\ k # 0
      BY ElementOfSeq
<1>2. /\ R[k].plen \in Nat /\ R[k].off \in Nat
      /\ R[k].lo \in Nat /\ R[k].hi \in Nat
      BY <1>1 DEF Record
<1>3. R[k].plen > 0
      BY <1>2 DEF Layout
<1>4. Size(R[k]) \in Nat /\ Size(R[k]) > R[k].plen
  <2>1. Size(R[k]) = HdrLen + R[k].plen
        BY DEF Size
  <2> QED
    BY <1>2, <2>1
<1>5. /\ EndOf(R, k) = R[k].off + Size(R[k])
      /\ UpTo(R, k) = R[k].hi
      BY <1>1 DEF EndOf, UpTo
<1>6. EndOf(R, k) \in Nat
      BY <1>2, <1>4, <1>5
<1> QED
  BY <1>1, <1>2, <1>3, <1>4, <1>5, <1>6

\* Where a byte of the newest record falls in the piece just sent.
LEMMA NewestByte ==
  ASSUME NEW off \in Nat, NEW size \in Nat, NEW w \in Nat, NEW left \in Nat,
         NEW n \in 1..left, NEW j \in 1..size,
         w + left = off + size, off + j > w, off + j <= w + n
  PROVE  /\ off + j - w \in 1..n
         /\ size - left + (off + j - w) = j
  OBVIOUS

\* A record before the newest one is on the wire completely.
LEMMA OlderRecordSent ==
  ASSUME NEW end \in Nat, NEW newest \in Nat, NEW off \in Nat, NEW size \in Nat,
         NEW w \in Nat, NEW left \in Nat, NEW j \in 1..size,
         end = off + size, end <= newest, newest <= w
  PROVE  off + j <= w
  OBVIOUS

\* A sequence behind another one.
LEMMA ConcatParts ==
  ASSUME NEW S, NEW W \in Seq(S), NEW s \in Seq(S)
  PROVE  /\ W \o s \in Seq(S)
         /\ Len(W \o s) = Len(W) + Len(s)
         /\ \A i \in 1..Len(W) : (W \o s)[i] = W[i]
         /\ \A i \in 1..Len(s) : (W \o s)[Len(W) + i] = s[i]
<1>1. Len(W) \in Nat /\ Len(s) \in Nat
      BY LenProperties
<1>2. /\ W \o s \in Seq(S)
      /\ Len(W \o s) = Len(W) + Len(s)
      /\ \A i \in 1..Len(W) + Len(s) :
           (W \o s)[i] = IF i <= Len(W) THEN W[i] ELSE s[i - Len(W)]
      BY ConcatProperties
<1>3. ASSUME NEW i \in 1..Len(W)
      PROVE  (W \o s)[i] = W[i]
  <2>1. i \in 1..Len(W) + Len(s) /\ i <= Len(W)
        BY <1>1
  <2> QED
    BY <1>2, <2>1
<1>4. ASSUME NEW i \in 1..Len(s)
      PROVE  (W \o s)[Len(W) + i] = s[i]
  <2>1. /\ Len(W) + i \in 1..Len(W) + Len(s)
        /\ ~(Len(W) + i <= Len(W))
        /\ Len(W) + i - Len(W) = i
        BY <1>1
  <2> QED
    BY <1>2, <2>1
<1> QED
  BY <1>2, <1>3, <1>4

\* s continues the newest record of R, of which left bytes are missing.
Continues(R, left, s) ==
  \A i \in 1..Len(s) : s[i] = <<Len(R), Size(R[Len(R)]) - left + i>>

\* Bytes of the newest record that continue where the wire ends.
LEMMA BytesAppended ==
  ASSUME NEW R \in Seq(Record), Layout(R), R # <<>>,
         NEW W \in Seq(Byte), WireBytes(R, W),
         NEW left \in Nat, left <= Size(R[Len(R)]),
         Len(W) + left = EndOf(R, Len(R)),
         NEW n \in 1..left, NEW s \in Seq(Byte), Len(s) = n,
         Continues(R, left, s)
  PROVE  /\ WireBytes(R, W \o s)
         /\ Len(W \o s) = Len(W) + n
         /\ \A i \in 1..Len(W) : (W \o s)[i] = W[i]
<1> DEFINE K == Len(R)
           w == Len(W)
           V == W \o s
<1>1. w \in Nat /\ n \in Nat /\ K \in Nat /\ K \in 1..K
  <2>1. w \in Nat /\ K \in Nat
        BY LenProperties
  <2>2. K # 0
        BY EmptySeq
  <2> QED
    BY <2>1, <2>2
<1>2. /\ Len(V) = w + n
      /\ \A i \in 1..w : V[i] = W[i]
      /\ \A i \in 1..n : V[w + i] = s[i]
  <2>1. Len(V) = w + Len(s)
        BY ConcatParts
  <2>2. \A i \in 1..w : V[i] = W[i]
        BY ConcatParts
  <2>3. \A i \in 1..Len(s) : V[w + i] = s[i]
        BY ConcatParts
  <2> QED
    BY <2>1, <2>2, <2>3
<1>3. /\ R[K].off \in Nat /\ Size(R[K]) \in Nat
      /\ w + left = R[K].off + Size(R[K])
      BY <1>1, RecordFacts
<1>4. R[K].off <= w
  <2> HIDE DEF w, K
  <2> QED
    BY <1>1, <1>3 DEF K
<1>5. ASSUME NEW k \in 1..K, NEW j \in 1..Size(R[k]), R[k].off + j <= Len(V)
      PROVE  V[R[k].off + j] = <<k, j>>
  <2> DEFINE off == R[k].off
             size == Size(R[k])
  <2>1. /\ off \in Nat /\ size \in Nat /\ EndOf(R, k) = off + size
        /\ EndOf(R, k) \in Nat /\ j \in 1..size
        BY RecordFacts
  <2>2. off + j \in 1..w + n
    <3>1. off + j <= w + n
          BY <1>2, <1>5
    <3> HIDE DEF off, size, w
    <3> QED
      BY <1>1, <2>1, <3>1
  <2>3. CASE off + j <= w
    <3>1. V[off + j] = W[off + j]
      <4>1. off + j \in 1..w
            BY <2>2, <2>3
      <4> QED
        BY <1>2, <4>1
    <3>2. W[off + j] = <<k, j>>
          BY <2>3 DEF WireBytes
    <3> QED
      BY <3>1, <3>2
  <2>4. CASE ~(off + j <= w)
    <3>1. k = K
      <4> SUFFICES ASSUME k # K PROVE FALSE
        OBVIOUS
      <4>1. k < K
            BY <1>1
      <4>2. EndOf(R, k) <= R[K].off
            BY <4>1 DEF Layout
      <4> HIDE DEF w, off, size, K, V
      <4>3. off + j <= w
            BY <1>1, <1>3, <1>4, <2>1, <4>2, OlderRecordSent
      <4> QED
        BY <2>4, <4>3
    <3>2. w + left = off + size /\ off + j > w /\ off + j <= w + n
      <4>1. w + left = off + size
            BY <1>3, <3>1
      <4> HIDE DEF w, off, size
      <4> QED
        BY <1>1, <2>1, <2>2, <2>4, <4>1
    <3>3. off + j - w \in 1..n /\ size - left + (off + j - w) = j
      <4> HIDE DEF w, off, size
      <4> QED
        BY <1>1, <2>1, <3>2, NewestByte
    <3>4. V[off + j] = s[off + j - w]
      <4>1. w + (off + j - w) = off + j
        <5> HIDE DEF w, off
        <5> QED
          BY <1>1, <2>1
      <4> HIDE DEF w, off, size, V
      <4> QED
        BY <1>2, <3>3, <4>1
    <3>5. s[off + j - w] = <<K, size - left + (off + j - w)>>
          BY <3>1, <3>3 DEF Continues
    <3> QED
      BY <3>1, <3>3, <3>4, <3>5
  <2> QED
    BY <2>3, <2>4
<1> HIDE DEF V
<1>6. WireBytes(R, V)
      BY <1>5 DEF WireBytes
<1> QED
  BY <1>2, <1>6 DEF V

\* A record prepared behind a complete one.
LEMMA RecordAppended ==
  ASSUME NEW R \in Seq(Record), Layout(R),
         NEW W \in Seq(Byte), WireBytes(R, W),
         Len(W) = EndOf(R, Len(R)),
         NEW r \in Record, r.type \in {"data", "close"}, r.plen >= MacLen,
         r.off = Len(W), r.lo = UpTo(R, Len(R)), r.lo <= r.hi
  PROVE  /\ Layout(Append(R, r))
         /\ WireBytes(Append(R, r), W)
         /\ EndOf(Append(R, r), Len(Append(R, r))) = Len(W) + Size(r)
         /\ UpTo(Append(R, r), Len(Append(R, r))) = r.hi
<1> DEFINE K == Len(R)
           S == Append(R, r)
<1>1. K \in Nat /\ Len(W) \in Nat
      BY LenProperties
<1>2. /\ S \in Seq(Record) /\ Len(S) = K + 1 /\ S[K + 1] = r
      /\ \A k \in 1..K : S[k] = R[k]
      BY AppendProperties
<1>3. \A k \in 0..K : EndOf(S, k) = EndOf(R, k) /\ UpTo(S, k) = UpTo(R, k)
  <2> HIDE DEF S, K
  <2> QED
    BY <1>1, <1>2 DEF EndOf, UpTo
<1>4. /\ r.lo \in Nat /\ r.hi \in Nat /\ r.plen \in Nat /\ Size(r) \in Nat
      /\ Size(r) > 0
      BY DEF Record, Size
<1>5. EndOf(S, K + 1) = Len(W) + Size(r) /\ UpTo(S, K + 1) = r.hi
  <2>1. K + 1 # 0
        BY <1>1
  <2> HIDE DEF S, K
  <2> QED
    BY <1>2, <2>1 DEF EndOf, UpTo
<1>6. ASSUME NEW k \in 1..K
      PROVE  /\ S[k] = R[k]
             /\ R[k].hi \in Nat /\ R[k].hi <= r.hi
             /\ EndOf(R, k) \in Nat /\ EndOf(R, k) <= Len(W)
             /\ k - 1 \in 0..K
  <2>1. R[k].hi \in Nat /\ EndOf(R, k) \in Nat
        BY RecordFacts
  <2>2. R[k].hi <= UpTo(R, K)
        BY DEF Layout
  <2>3. EndOf(R, k) <= Len(W)
    <3>1. CASE k = K
          BY <1>1, <3>1
    <3>2. CASE k # K
      <4>1. k < K /\ K \in 1..K
            BY <1>1, <3>2
      <4>2. EndOf(R, k) <= R[K].off
            BY <4>1 DEF Layout
      <4>3. R[K].off \in Nat /\ Size(R[K]) \in Nat /\ EndOf(R, K) = R[K].off + Size(R[K])
            BY <4>1, RecordFacts
      <4> HIDE DEF K
      <4> QED
        BY <2>1, <4>2, <4>3 DEF K
    <3> QED
      BY <3>1, <3>2
  <2>4. k - 1 \in 0..K
    <3> HIDE DEF K
    <3> QED
      BY <1>1
  <2> QED
    BY <1>2, <1>4, <2>1, <2>2, <2>3, <2>4
<1>7. ASSUME NEW k \in 1..Len(S)
      PROVE  /\ S[k].type \in {"data", "close"}
             /\ S[k].plen >= MacLen
             /\ S[k].lo <= S[k].hi
             /\ S[k].off = EndOf(S, k - 1)
             /\ S[k].lo = UpTo(S, k - 1)
             /\ S[k].hi <= UpTo(S, Len(S))
             /\ k < Len(S) => EndOf(S, k) <= S[Len(S)].off
  <2>1. CASE k \in 1..K
    <3>1. /\ R[k].type \in {"data", "close"}
          /\ R[k].plen >= MacLen
          /\ R[k].lo <= R[k].hi
          /\ R[k].off = EndOf(R, k - 1)
          /\ R[k].lo = UpTo(R, k - 1)
          BY <2>1 DEF Layout
    <3>2. EndOf(S, k - 1) = EndOf(R, k - 1) /\ UpTo(S, k - 1) = UpTo(R, k - 1)
          BY <1>3, <1>6, <2>1
    <3>3. EndOf(S, k) = EndOf(R, k)
      <4>1. k \in 0..K
            BY <2>1
      <4> QED
        BY <1>3, <4>1
    <3>4. S[k] = R[k] /\ S[k].hi <= UpTo(S, Len(S)) /\ EndOf(S, k) <= S[Len(S)].off
          BY <1>2, <1>5, <1>6, <2>1, <3>3
    <3> QED
      BY <3>1, <3>2, <3>4
  <2>2. CASE k = K + 1
    <3>1. k - 1 = K /\ K \in 0..K /\ ~(k < Len(S))
          BY <1>1, <1>2, <2>2
    <3>2. EndOf(S, k - 1) = Len(W) /\ UpTo(S, k - 1) = UpTo(R, K)
          BY <1>3, <3>1
    <3>3. S[k] = r /\ UpTo(S, Len(S)) = r.hi
          BY <1>2, <1>5, <2>2
    <3>4. r.hi <= r.hi
          BY <1>4
    <3> HIDE DEF S, K
    <3> QED
      BY <3>1, <3>2, <3>3, <3>4 DEF K
  <2>3. k \in 1..K \/ k = K + 1
    <3>1. k \in 1..K + 1
          BY <1>2
    <3> HIDE DEF K
    <3> QED
      BY <1>1, <3>1
  <2> QED
    BY <2>1, <2>2, <2>3
<1>8. ASSUME NEW k \in 1..Len(S), NEW j \in 1..Size(S[k]), S[k].off + j <= Len(W)
      PROVE  W[S[k].off + j] = <<k, j>>
  <2>1. CASE k \in 1..K
        BY <1>2, <1>8, <2>1 DEF WireBytes
  <2>2. CASE k = K + 1
    <3>1. Len(W) + j <= Len(W) /\ j \in 1..Size(r)
          BY <1>2, <1>8, <2>2
    <3>2. FALSE
          BY <1>1, <1>4, <3>1
    <3> QED
      BY <3>2
  <2>3. k \in 1..K \/ k = K + 1
        BY <1>1, <1>2
  <2> QED
    BY <2>1, <2>2, <2>3
<1>9. Layout(S)
  <2> HIDE DEF S
  <2> QED
    BY <1>7 DEF Layout
<1>10. WireBytes(S, W)
  <2> HIDE DEF S
  <2> QED
    BY <1>8 DEF WireBytes
<1> QED
  BY <1>2, <1>5, <1>9, <1>10

-----------------------------------------------------------------------------
(* One end *)

SenderOK(e) ==
  /\ Layout(records[e])
  /\ WireLength(e)
  /\ WireBytes(records[e], wire[e])
  /\ HeaderFirst(e)

\* What IInv says of one end, with the types the steps below need.
LEMMA EndFacts ==
  ASSUME IInv, NEW e \in End
  PROVE  /\ TypeInv
         /\ Peer[e] \in End /\ Peer[Peer[e]] = e /\ Peer[e] # e
         /\ records[e] \in Seq(Record) /\ Len(records[e]) \in Nat
         /\ wire[e] \in Seq(Byte) /\ Len(wire[e]) \in Nat
         /\ outLeft[e] \in Nat /\ got[e] \in Nat /\ inLeft[e] \in Nat
         /\ nread[e] \in Nat /\ acked[e] \in Nat
         /\ Len(wire[Peer[e]]) \in Nat /\ got[e] <= Len(wire[Peer[e]])
         /\ SenderOK(e) /\ Position(e) /\ Data(e) /\ Unfinished(e) /\ CallOK(e)
<1>1. TypeInv
      BY DEF IInv
<1>2. records[e] \in Seq(Record) /\ wire[e] \in Seq(Byte) /\ wire[Peer[e]] \in Seq(Byte)
      BY <1>1 DEF TypeInv, TypeOK
<1>3. /\ Len(records[e]) \in Nat /\ Len(wire[e]) \in Nat
      /\ Len(wire[Peer[e]]) \in Nat
      BY <1>2, LenProperties
<1>4. /\ outLeft[e] \in Nat /\ got[e] \in Nat /\ inLeft[e] \in Nat
      /\ nread[e] \in Nat /\ acked[e] \in Nat
      BY <1>1 DEF TypeInv, TypeOK
<1>5. got[e] <= Len(wire[Peer[e]])
      BY <1>1 DEF TypeInv, Known
<1>6. SenderOK(e) /\ Position(e) /\ Data(e) /\ Unfinished(e) /\ CallOK(e)
      BY DEF IInv, SenderOK
<1> QED
  BY <1>1, <1>2, <1>3, <1>4, <1>5, <1>6

\* The stream position behind all records of e.
LEMMA IssuedUpTo ==
  ASSUME IInv, NEW e \in End
  PROVE  Issued(e) = UpTo(records[e], Len(records[e])) /\ Issued(e) \in Nat
<1>1. records[e] \in Seq(Record)
      BY EndFacts
<1>2. CASE records[e] = <<>>
      BY <1>2, EmptySeq, EndFacts, IssuedType DEF Issued, UpTo
<1>3. CASE records[e] # <<>>
  <2>1. Len(records[e]) # 0
        BY <1>1, <1>3, EmptySeq
  <2> QED
    BY <1>3, <2>1, EndFacts, IssuedType DEF Issued, UpTo, Newest
<1> QED
  BY <1>2, <1>3

\* What the reader has of the next record is that record's beginning.
LEMMA AlwaysIntact ==
  ASSUME IInv, NEW e \in End
  PROVE  Intact(e)
<1> SUFFICES ASSUME NEW j \in 1..inLeft[e]
             PROVE  wire[Peer[e]][got[e] - inLeft[e] + j] = <<nread[e] + 1, j>>
    BY DEF Intact, Fetched
<1> DEFINE R == records[Peer[e]]
           k == nread[e] + 1
<1>1. /\ Peer[e] \in End /\ R \in Seq(Record) /\ Len(R) \in Nat
      /\ inLeft[e] \in Nat /\ got[e] \in Nat /\ nread[e] \in Nat
      /\ Position(e) /\ got[e] <= Len(wire[Peer[e]]) /\ Len(wire[Peer[e]]) \in Nat
      /\ Layout(R) /\ WireBytes(R, wire[Peer[e]])
      BY EndFacts DEF SenderOK
<1>2. inLeft[e] > 0
      BY <1>1
<1>3. nread[e] < Len(R) /\ inLeft[e] <= Size(R[k])
      BY <1>1, <1>2 DEF Position
<1>4. k \in 1..Len(R) /\ k - 1 = nread[e]
  <2> HIDE DEF R
  <2> QED
    BY <1>1, <1>3
<1>5. R[k].off = EndOf(R, nread[e]) /\ R[k].off \in Nat /\ Size(R[k]) \in Nat
  <2>1. R[k].off = EndOf(R, k - 1)
        BY <1>1, <1>4 DEF Layout
  <2>2. R[k].off \in Nat /\ Size(R[k]) \in Nat
        BY <1>1, <1>4, RecordFacts
  <2> QED
    BY <1>4, <2>1, <2>2
<1>6. got[e] = R[k].off + inLeft[e]
      BY <1>1, <1>5 DEF Position
<1> HIDE DEF R, k
<1>7. /\ j \in 1..Size(R[k])
      /\ got[e] - inLeft[e] + j = R[k].off + j
      /\ R[k].off + j <= Len(wire[Peer[e]])
      BY <1>1, <1>3, <1>5, <1>6
<1>8. wire[Peer[e]][R[k].off + j] = <<k, j>>
      BY <1>1, <1>4, <1>7 DEF WireBytes
<1> QED
  BY <1>7, <1>8 DEF k

-----------------------------------------------------------------------------
(* The sender *)

\* The records keep their places and the wire only grows.
Grows ==
  \A f \in End :
    /\ records'[f] \in Seq(Record)
    /\ Len(records[f]) <= Len(records'[f])
    /\ \A k \in 1..Len(records[f]) : records'[f][k] = records[f][k]
    /\ Len(wire[f]) <= Len(wire'[f])
    /\ \A i \in 1..Len(wire[f]) : wire'[f][i] = wire[f][i]

\* What does not change grows.
LEMMA SameGrows ==
  ASSUME IInv, NEW f \in End, records'[f] = records[f], wire'[f] = wire[f]
  PROVE  /\ records'[f] \in Seq(Record)
         /\ Len(records[f]) <= Len(records'[f])
         /\ \A k \in 1..Len(records[f]) : records'[f][k] = records[f][k]
         /\ Len(wire[f]) <= Len(wire'[f])
         /\ \A i \in 1..Len(wire[f]) : wire'[f][i] = wire[f][i]
<1>1. records[f] \in Seq(Record) /\ Len(records[f]) \in Nat /\ Len(wire[f]) \in Nat
      BY EndFacts
<1> QED
  BY <1>1

\* The sending side of an end that does not send.
LEMMA SameSender ==
  ASSUME IInv, NEW f \in End, records'[f] = records[f], wire'[f] = wire[f],
         outLeft'[f] = outLeft[f], atHeader'[f] = atHeader[f]
  PROVE  SenderOK(f)'
<1>1. SenderOK(f)
      BY EndFacts
<1>2. Newest(f)' = Newest(f)
      BY DEF Newest
<1> QED
  BY <1>1, <1>2 DEF SenderOK, WireLength, HeaderFirst

\* Steps that leave the sending side alone.
LEMMA QuietStep ==
  ASSUME IInv, UNCHANGED outVars
  PROVE  Grows /\ \A f \in End : SenderOK(f)'
<1>1. records' = records /\ wire' = wire /\ outLeft' = outLeft /\ atHeader' = atHeader
      BY DEF outVars
<1>2. Grows
      BY <1>1, SameGrows DEF Grows
<1> QED
  BY <1>1, <1>2, SameSender

\* f_send takes bytes of the newest record.
LEMMA FlushStep ==
  ASSUME IInv, NEW e \in End, Sends(e), ~ShortHeader
  PROVE  Grows /\ \A f \in End : SenderOK(f)'
<1> DEFINE R == records[e]
           W == wire[e]
<1>1. /\ R \in Seq(Record) /\ W \in Seq(Byte) /\ Len(W) \in Nat
      /\ outLeft[e] \in Nat /\ outLeft[e] > 0
      /\ SenderOK(e)
      BY EndFacts DEF Sends, SendHeader, SendBody, Flushing
<1>2. R # <<>> /\ outLeft[e] <= Size(R[Len(R)]) /\ Newest(e) = R[Len(R)]
      BY <1>1 DEF IInv, TypeInv, TypeOK, Newest
<1>3. Len(R) \in 1..Len(R)
      BY <1>2, EndFacts, NewestType
<1>4. /\ Newest(e).plen \in Nat /\ Newest(e).plen > 0
      /\ Size(Newest(e)) \in Nat /\ Size(Newest(e)) > Newest(e).plen
      BY <1>1, <1>2, <1>3, RecordFacts DEF SenderOK
<1>5. HeaderLeft(e) \in Int /\ HeaderLeft(e) = outLeft[e] - Newest(e).plen
      BY <1>1, <1>4 DEF HeaderLeft
<1>6. PICK n \in 1..outLeft[e], s \in Seq(Byte) :
        /\ Len(s) = n
        /\ Continues(R, outLeft[e], s)
        /\ wire' = [wire EXCEPT ![e] = @ \o s]
        /\ outLeft' = [outLeft EXCEPT ![e] = @ - n]
        /\ ~atHeader'[e] => outLeft'[e] \in 1..Newest(e).plen
  <2>1. CASE SendHeader(e)
    <3> DEFINE n == HeaderLeft(e)
    <3>1. n \in 1..outLeft[e] /\ outLeft[e] - n = Newest(e).plen
          BY <1>1, <1>4, <1>5, <2>1 DEF SendHeader
    <3>2. /\ wire' = [wire EXCEPT ![e] = @ \o HeaderBytes(e, n)]
          /\ outLeft' = [outLeft EXCEPT ![e] = @ - n]
          BY <2>1 DEF SendHeader
    <3>3. HeaderBytes(e, n) \in Seq(Byte) /\ Len(HeaderBytes(e, n)) = n
          BY <1>1, <3>1, EndFacts, BytesType
    <3>4. Continues(R, outLeft[e], HeaderBytes(e, n))
          BY <1>2, <3>3 DEF Continues, HeaderBytes
    <3>5. outLeft'[e] = outLeft[e] - n
          BY <3>2, EndFacts DEF TypeInv, TypeOK
    <3>6. outLeft'[e] \in 1..Newest(e).plen
          BY <1>4, <3>1, <3>5
    <3> HIDE DEF n
    <3> QED
      BY <3>1, <3>2, <3>3, <3>4, <3>6
  <2>2. CASE SendBody(e)
    <3>1. PICK n \in 1..outLeft[e] :
            /\ wire' = [wire EXCEPT ![e] = @ \o BodyBytes(e, n)]
            /\ outLeft' = [outLeft EXCEPT ![e] = @ - n]
          BY <2>2 DEF SendBody
    <3>2. BodyBytes(e, n) \in Seq(Byte) /\ Len(BodyBytes(e, n)) = n
          BY <1>1, EndFacts, BytesType
    <3>3. outLeft[e] - Newest(e).plen <= 0
      <4>1. CASE ~atHeader[e]
        <5>1. outLeft[e] \in 1..Newest(e).plen
              BY <1>1, <4>1 DEF SenderOK, HeaderFirst
        <5> QED
          BY <1>4, <5>1
      <4>2. CASE HeaderLeft(e) <= 0
            BY <1>5, <4>2
      <4> QED
        BY <2>2, <4>1, <4>2 DEF SendBody
    <3>4. ASSUME NEW i \in 1..n
          PROVE  BodyBytes(e, n)[i] = <<Len(R), Size(R[Len(R)]) - outLeft[e] + i>>
      <4>1. ~(i <= outLeft[e] - Newest(e).plen)
            BY <1>1, <1>4, <3>3
      <4> QED
        BY <1>2, <4>1 DEF BodyBytes
    <3>5. Continues(R, outLeft[e], BodyBytes(e, n))
          BY <3>2, <3>4 DEF Continues
    <3>6. atHeader'[e] = TRUE
          BY <2>2, EndFacts DEF SendBody, TypeInv, TypeOK
    <3> QED
      BY <3>1, <3>2, <3>5, <3>6
  <2> QED
    BY <2>1, <2>2 DEF Sends
<1>7. /\ records' = records
      /\ \A f \in End \ {e} : atHeader'[f] = atHeader[f]
  <2>1. atHeader \in [End -> BOOLEAN]
        BY EndFacts DEF TypeInv, TypeOK
  <2> QED
    BY <2>1 DEF Sends, SendHeader, SendBody
<1>8. /\ wire \in [End -> Seq(Byte)] /\ outLeft \in [End -> Nat]
      BY EndFacts DEF TypeInv, TypeOK
<1>9. /\ wire'[e] = W \o s /\ outLeft'[e] = outLeft[e] - n
      /\ \A f \in End \ {e} : wire'[f] = wire[f] /\ outLeft'[f] = outLeft[f]
      BY <1>6, <1>8
<1>10. /\ WireBytes(R, W \o s)
       /\ Len(W \o s) = Len(W) + n
       /\ \A i \in 1..Len(W) : (W \o s)[i] = W[i]
  <2>1. Layout(R) /\ WireBytes(R, W) /\ Len(W) + outLeft[e] = EndOf(R, Len(R))
        BY <1>1 DEF SenderOK, WireLength
  <2> HIDE DEF R, W
  <2> QED
    BY <1>1, <1>2, <1>6, <2>1, BytesAppended
<1>11. SenderOK(e)'
  <2>1. Layout(records'[e]) /\ WireBytes(records'[e], wire'[e])
        BY <1>1, <1>7, <1>9, <1>10 DEF SenderOK
  <2>2. WireLength(e)'
    <3>1. Len(wire'[e]) = Len(W) + n /\ n \in Nat /\ n \in 1..outLeft[e]
          BY <1>1, <1>9, <1>10
    <3>2. Len(W) + outLeft[e] = EndOf(R, Len(R))
          BY <1>1 DEF SenderOK, WireLength
    <3>3. Len(wire'[e]) + outLeft'[e] = Len(W) + outLeft[e]
      <4> HIDE DEF W
      <4> QED
        BY <1>1, <1>9, <3>1
    <3> QED
      BY <1>7, <3>2, <3>3 DEF WireLength
  <2>3. HeaderFirst(e)'
    <3>1. Newest(e)' = Newest(e)
          BY <1>7 DEF Newest
    <3> QED
      BY <1>2, <1>6, <1>7, <3>1 DEF HeaderFirst
  <2> QED
    BY <2>1, <2>2, <2>3 DEF SenderOK
<1>12. ASSUME NEW f \in End
       PROVE  SenderOK(f)'
  <2>1. CASE f = e
        BY <1>11, <2>1
  <2>2. CASE f # e
        BY <1>7, <1>9, <2>2, SameSender
  <2> QED
    BY <2>1, <2>2
<1>13. Grows
  <2>1. ASSUME NEW f \in End, f # e
        PROVE  wire'[f] = wire[f] /\ records'[f] = records[f]
        BY <1>7, <1>9, <2>1
  <2>2. /\ Len(wire[e]) <= Len(wire'[e])
        /\ \A i \in 1..Len(wire[e]) : wire'[e][i] = wire[e][i]
    <3>1. Len(wire'[e]) = Len(W) + n /\ n \in Nat
          BY <1>1, <1>9, <1>10
    <3>2. Len(W) <= Len(W) + n
          BY <1>1, <3>1
    <3> QED
      BY <1>9, <1>10, <3>1, <3>2
  <2>3. ASSUME NEW f \in End
        PROVE  /\ records'[f] \in Seq(Record)
               /\ Len(records[f]) <= Len(records'[f])
               /\ \A k \in 1..Len(records[f]) : records'[f][k] = records[f][k]
        BY <1>7, EndFacts
  <2> QED
    BY <2>1, <2>2, <2>3, SameGrows DEF Grows
<1> QED
  BY <1>12, <1>13

\* A new record behind a complete one, with the stream going on from Issued(e).
LEMMA PrepareStep ==
  ASSUME IInv, NEW e \in End, outLeft[e] = 0,
         NEW type \in {"data", "close"}, NEW hi \in Nat, NEW plen \in Nat,
         Issued(e) <= hi,
         WriteRecord(e, type, Issued(e), hi, plen),
         wire' = wire, atHeader' = atHeader
  PROVE  /\ Grows
         /\ \A f \in End : SenderOK(f)'
         /\ Issued(e)' = hi
         /\ \A f \in End \ {e} : records'[f] = records[f] /\ outLeft'[f] = outLeft[f]
<1> DEFINE R == records[e]
           W == wire[e]
           r == [type |-> type, lo |-> Issued(e), hi |-> hi, plen |-> plen + MacLen,
                 off |-> Len(W)]
<1>1. /\ R \in Seq(Record) /\ Len(R) \in Nat /\ W \in Seq(Byte) /\ Len(W) \in Nat
      /\ Issued(e) \in Nat /\ Issued(e) = UpTo(R, Len(R))
      /\ SenderOK(e)
      BY EndFacts, IssuedUpTo
<1>2. /\ records \in [End -> Seq(Record)] /\ outLeft \in [End -> Nat]
      BY EndFacts DEF TypeInv, TypeOK
<1>3. r \in Record /\ Size(r) = HdrLen + plen + MacLen
      BY <1>1 DEF Record, Types, Size
<1>4. /\ records' = [records EXCEPT ![e] = Append(@, r)]
      /\ outLeft' = [outLeft EXCEPT ![e] = HdrLen + plen + MacLen]
      BY DEF WriteRecord
<1>5. /\ records'[e] = Append(R, r) /\ outLeft'[e] = Size(r)
      /\ \A f \in End \ {e} : records'[f] = records[f] /\ outLeft'[f] = outLeft[f]
  <2> HIDE DEF r
  <2> QED
    BY <1>2, <1>3, <1>4
<1>6. /\ Layout(R) /\ WireBytes(R, W) /\ Len(W) = EndOf(R, Len(R))
      /\ atHeader[e]
  <2>1. Layout(R) /\ WireBytes(R, W) /\ Len(W) + 0 = EndOf(R, Len(R))
        BY <1>1 DEF SenderOK, WireLength
  <2>2. Len(W) + 0 = Len(W)
        BY <1>1
  <2>3. atHeader[e]
        BY <1>1 DEF SenderOK, HeaderFirst
  <2> QED
    BY <2>1, <2>2, <2>3
<1>7. /\ r.type \in {"data", "close"} /\ r.plen >= MacLen /\ r.off = Len(W)
      /\ r.lo = UpTo(R, Len(R)) /\ r.lo <= r.hi /\ r.hi = hi
      BY <1>1
<1> HIDE DEF r, R, W
<1>8. /\ Layout(Append(R, r))
      /\ WireBytes(Append(R, r), W)
      /\ EndOf(Append(R, r), Len(Append(R, r))) = Len(W) + Size(r)
      /\ UpTo(Append(R, r), Len(Append(R, r))) = hi
      BY <1>1, <1>3, <1>6, <1>7, RecordAppended
<1>9. SenderOK(e)'
  <2>1. Layout(records'[e]) /\ WireBytes(records'[e], wire'[e])
        BY <1>5, <1>8 DEF W
  <2>2. WireLength(e)'
        BY <1>5, <1>8 DEF WireLength, W
  <2>3. HeaderFirst(e)'
        BY <1>6 DEF HeaderFirst
  <2> QED
    BY <2>1, <2>2, <2>3 DEF SenderOK
<1>10. \A f \in End \ {e} : SenderOK(f)'
       BY <1>5, SameSender
<1>11. /\ records'[e] \in Seq(Record)
       /\ Len(records'[e]) = Len(R) + 1
       /\ \A k \in 1..Len(R) : records'[e][k] = R[k]
       /\ records'[e][Len(R) + 1] = r
       BY <1>1, <1>3, <1>5, AppendProperties
<1>12. Grows
  <2>1. ASSUME NEW f \in End, f # e
        PROVE  wire'[f] = wire[f] /\ records'[f] = records[f]
        BY <1>5, <2>1
  <2>2. /\ records'[e] \in Seq(Record)
        /\ Len(records[e]) <= Len(records'[e])
        /\ \A k \in 1..Len(records[e]) : records'[e][k] = records[e][k]
        BY <1>1, <1>11 DEF R
  <2>3. ASSUME NEW f \in End
        PROVE  /\ Len(wire[f]) <= Len(wire'[f])
               /\ \A i \in 1..Len(wire[f]) : wire'[f][i] = wire[f][i]
    <3>1. Len(wire[f]) \in Nat
          BY EndFacts
    <3> QED
      BY <3>1
  <2> QED
    BY <2>1, <2>2, <2>3, SameGrows DEF Grows
<1>13. Issued(e)' = hi
  <2>1. records'[e] # <<>>
        BY <1>1, <1>11, EmptySeq
  <2>2. Newest(e)' = r
        BY <1>11 DEF Newest
  <2> QED
    BY <1>7, <2>1, <2>2 DEF Issued
<1> QED
  BY <1>5, <1>9, <1>10, <1>12, <1>13

-----------------------------------------------------------------------------
(* The reader *)

\* The end of a prefix does not depend on what follows.
LEMMA PrefixEnds ==
  ASSUME NEW R \in Seq(Record), NEW S, NEW k \in 0..Len(R),
         \A i \in 1..Len(R) : S[i] = R[i]
  PROVE  EndOf(S, k) = EndOf(R, k) /\ UpTo(S, k) = UpTo(R, k)
<1>1. Len(R) \in Nat
      BY LenProperties
<1>2. k = 0 \/ k \in 1..Len(R)
      BY <1>1
<1> QED
  BY <1>2 DEF EndOf, UpTo

\* A peer that goes on sending does not disturb a reader that stands still.
LEMMA ReaderKeeps ==
  ASSUME IInv, Grows, NEW f \in End,
         got'[f] = got[f], inLeft'[f] = inLeft[f], nread'[f] = nread[f],
         pending'[f] = pending[f], rcvd'[f] = rcvd[f]
  PROVE  Position(f)' /\ Data(f)'
<1> DEFINE R == records[Peer[f]]
           S == records'[Peer[f]]
<1>1. /\ Peer[f] \in End /\ R \in Seq(Record) /\ Len(R) \in Nat
      /\ nread[f] \in Nat /\ inLeft[f] \in Nat /\ Position(f) /\ Data(f)
      BY EndFacts
<1>2. /\ S \in Seq(Record) /\ Len(R) <= Len(S) /\ Len(S) \in Nat
      /\ \A k \in 1..Len(R) : S[k] = R[k]
      BY <1>1, LenProperties DEF Grows
<1>3. nread[f] \in 0..Len(R)
      BY <1>1 DEF Position
<1>4. EndOf(S, nread[f]) = EndOf(R, nread[f]) /\ UpTo(S, nread[f]) = UpTo(R, nread[f])
  <2> HIDE DEF R, S
  <2> QED
    BY <1>1, <1>2, <1>3, PrefixEnds
<1>5. nread[f] <= Len(S)
  <2> HIDE DEF R, S
  <2> QED
    BY <1>1, <1>2, <1>3
<1>6. ASSUME inLeft[f] > 0
      PROVE  nread[f] < Len(S) /\ inLeft[f] <= Size(S[nread[f] + 1])
  <2>1. nread[f] < Len(R) /\ inLeft[f] <= Size(R[nread[f] + 1])
        BY <1>1, <1>6 DEF Position
  <2>2. nread[f] < Len(S) /\ nread[f] + 1 \in 1..Len(R)
    <3> HIDE DEF R, S
    <3> QED
      BY <1>1, <1>2, <2>1
  <2> QED
    BY <1>2, <2>1, <2>2
<1>7. Position(f)'
  <2>1. got[f] = EndOf(R, nread[f]) + inLeft[f]
        BY <1>1 DEF Position
  <2> QED
    BY <1>4, <1>5, <1>6, <2>1 DEF Position
<1>8. Data(f)'
      BY <1>1, <1>4 DEF Data
<1> QED
  BY <1>7, <1>8

\* f_recv fetches a part of the next record.
LEMMA RecvStep ==
  ASSUME IInv, NEW e \in End, Recv(e)
  PROVE  Position(e)' /\ Data(e)'
<1> DEFINE R == records[Peer[e]]
           k == nread[e] + 1
<1>1. /\ Peer[e] \in End /\ R \in Seq(Record) /\ Len(R) \in Nat
      /\ nread[e] \in Nat /\ inLeft[e] \in Nat /\ got[e] \in Nat
      /\ Len(wire[Peer[e]]) \in Nat
      /\ Position(e) /\ Data(e) /\ SenderOK(Peer[e])
      /\ outLeft[Peer[e]] \in Nat
      BY EndFacts
<1>2. PICK n \in 1..Least(Wanted(e) - inLeft[e], InTransit(e)) :
        /\ got' = [got EXCEPT ![e] = @ + n]
        /\ inLeft' = [inLeft EXCEPT ![e] = @ + n]
      BY DEF Recv
<1>3. UNCHANGED <<records, wire, nread, pending, rcvd>>
      BY DEF Recv, outVars
<1>4. got'[e] = got[e] + n /\ inLeft'[e] = inLeft[e] + n
      BY <1>2, EndFacts DEF TypeInv, TypeOK
<1>5. InTransit(e) \in Int /\ InTransit(e) = Len(wire[Peer[e]]) - got[e]
      BY <1>1 DEF InTransit
<1>6. InTransit(e) > 0 => nread[e] < Len(R)
  <2> SUFFICES ASSUME InTransit(e) > 0, nread[e] = Len(R) PROVE FALSE
    BY <1>1 DEF Position
  <2>1. got[e] = EndOf(R, Len(R)) + inLeft[e]
        BY <1>1 DEF Position
  <2>2. Len(wire[Peer[e]]) + outLeft[Peer[e]] = EndOf(R, Len(R))
        BY <1>1 DEF SenderOK, WireLength
  <2>3. /\ Len(wire[Peer[e]]) \in Nat /\ outLeft[Peer[e]] \in Nat
        /\ got[e] \in Nat /\ inLeft[e] \in Nat
        BY <1>1
  <2>4. got[e] = (Len(wire[Peer[e]]) + outLeft[Peer[e]]) + inLeft[e]
        BY <2>1, <2>2, Zenon
  <2>5. ~(InTransit(e) > 0)
    <3> HIDE DEF R
    <3> QED
      BY <1>5, <2>3, <2>4
  <2> QED
    BY <2>5
<1>7. ASSUME nread[e] < Len(R)
      PROVE  /\ k \in 1..Len(R)
             /\ Size(R[k]) \in Nat /\ Size(R[k]) >= HdrLen
             /\ Wanted(e) \in Nat /\ Wanted(e) <= Size(R[k])
  <2>1. k \in 1..Len(R)
    <3> HIDE DEF R
    <3> QED
      BY <1>1, <1>7
  <2>2. R[k].plen \in Nat /\ Size(R[k]) \in Nat
        BY <1>1, <2>1, RecordFacts DEF SenderOK
  <2>3. Size(R[k]) >= HdrLen
        BY <2>2 DEF Size
  <2>4. Wanted(e) = HdrLen \/ Wanted(e) = Size(R[k])
        BY DEF Wanted
  <2> HIDE DEF R, k
  <2> QED
    BY <2>1, <2>2, <2>3, <2>4
<1>8. /\ nread[e] < Len(R)
      /\ n \in Nat /\ inLeft[e] + n <= Size(R[k])
  <2>1. CASE InTransit(e) > 0
    <3>1. nread[e] < Len(R) /\ Wanted(e) \in Nat /\ Wanted(e) <= Size(R[k])
          /\ Size(R[k]) \in Nat
          BY <1>6, <1>7, <2>1
    <3>2. Wanted(e) - inLeft[e] \in Int
          BY <1>1, <3>1
    <3>3. /\ Least(Wanted(e) - inLeft[e], InTransit(e)) \in Int
          /\ Least(Wanted(e) - inLeft[e], InTransit(e)) <= Wanted(e) - inLeft[e]
          BY <1>5, <3>2, LeastType
    <3> HIDE DEF R, k
    <3> QED
      BY <1>1, <1>2, <3>1, <3>2, <3>3
  <2>2. CASE ~(InTransit(e) > 0)
    <3>1. CASE Wanted(e) - inLeft[e] < InTransit(e)
      <4>1. inLeft[e] < Wanted(e)
            BY DEF Recv
      <4>2. nread[e] < Len(R)
        <5>1. CASE inLeft[e] > 0
              BY <1>1, <5>1 DEF Position
        <5>2. CASE ~(inLeft[e] > 0)
          <6>1. Wanted(e) = HdrLen
                BY <1>1, <5>2 DEF Wanted
          <6> QED
            BY <1>1, <1>5, <2>2, <3>1, <4>1, <6>1
        <5> QED
          BY <5>1, <5>2
      <4>3. Wanted(e) \in Nat
            BY <1>7, <4>2
      <4> QED
        BY <1>1, <1>5, <2>2, <3>1, <4>1, <4>3
    <3>2. CASE ~(Wanted(e) - inLeft[e] < InTransit(e))
      <4>1. Least(Wanted(e) - inLeft[e], InTransit(e)) = InTransit(e)
            BY <3>2 DEF Least
      <4> QED
        BY <1>2, <1>5, <2>2, <4>1
    <3> QED
      BY <3>1, <3>2
  <2> QED
    BY <2>1, <2>2
<1>9. Position(e)'
  <2>1. got[e] = EndOf(R, nread[e]) + inLeft[e] /\ nread[e] <= Len(R)
        BY <1>1 DEF Position
  <2>2. EndOf(R, nread[e]) \in Nat
    <3>1. CASE nread[e] = 0
          BY <3>1 DEF EndOf
    <3>2. CASE nread[e] # 0
      <4>1. nread[e] \in 1..Len(R)
            BY <1>1, <2>1, <3>2
      <4> QED
        BY <1>1, <4>1, RecordFacts DEF SenderOK
    <3> QED
      BY <3>1, <3>2
  <2>3. got'[e] = EndOf(R, nread[e]) + inLeft'[e]
    <3> HIDE DEF R
    <3> QED
      BY <1>1, <1>4, <1>8, <2>1, <2>2
  <2>4. EndOf(records'[Peer[e]], nread'[e]) = EndOf(R, nread[e])
        BY <1>3
  <2> QED
    BY <1>3, <1>4, <1>8, <2>1, <2>3, <2>4 DEF Position
<1>10. Data(e)'
       BY <1>1, <1>3 DEF Data
<1> QED
  BY <1>9, <1>10

\* Consuming a data record moves the reader to the record behind it.
LEMMA ConsumeStep ==
  ASSUME IInv, NEW e \in End, Complete(e, "data"), Consume(e),
         records' = records, got' = got
  PROVE  /\ Position(e)'
         /\ records[Peer[e]][nread[e] + 1].lo = UpTo(records[Peer[e]], nread[e])
         /\ records[Peer[e]][nread[e] + 1].hi = UpTo(records[Peer[e]], nread[e] + 1)
         /\ records[Peer[e]][nread[e] + 1].lo \in Nat
         /\ records[Peer[e]][nread[e] + 1].hi \in Nat
         /\ records[Peer[e]][nread[e] + 1].lo <= records[Peer[e]][nread[e] + 1].hi
         /\ nread'[e] = nread[e] + 1
<1> DEFINE R == records[Peer[e]]
           k == nread[e] + 1
<1>1. /\ Peer[e] \in End /\ R \in Seq(Record) /\ Len(R) \in Nat
      /\ nread[e] \in Nat /\ inLeft[e] \in Nat /\ got[e] \in Nat
      /\ Position(e) /\ Layout(R) /\ TypeInv
      BY EndFacts DEF SenderOK
<1>2. k \in 1..Len(R) /\ k \in Nat /\ k - 1 = nread[e]
      BY <1>1, CompleteRecord
<1>3. /\ R[k].lo = UpTo(R, k - 1) /\ R[k].lo <= R[k].hi
      /\ R[k].off = EndOf(R, k - 1)
      BY <1>1, <1>2 DEF Layout
<1>4. /\ UpTo(R, k) = R[k].hi /\ R[k].lo \in Nat /\ R[k].hi \in Nat
      /\ R[k].off \in Nat /\ Size(R[k]) \in Nat
      /\ EndOf(R, k) = R[k].off + Size(R[k])
      BY <1>1, <1>2, RecordFacts
<1>5. nread'[e] = k /\ inLeft'[e] = 0
      BY <1>1 DEF Consume, TypeInv, TypeOK
<1>6. inLeft[e] = Size(R[k])
  <2>1. inLeft[e] = Wanted(e) /\ ~(inLeft[e] < HdrLen)
        BY <1>1 DEF Complete
  <2> QED
    BY <2>1 DEF Wanted
<1>7. got[e] = EndOf(R, nread[e]) + inLeft[e]
      BY <1>1 DEF Position
<1>8. got[e] = EndOf(R, k) + 0
  <2>1. got[e] = R[k].off + Size(R[k])
        BY <1>2, <1>3, <1>6, <1>7
  <2> HIDE DEF R, k
  <2> QED
    BY <1>1, <1>4, <2>1
<1>9. k <= Len(R)
      BY <1>2
<1>10. Position(e)'
       BY <1>5, <1>8, <1>9 DEF Position
<1> QED
  BY <1>2, <1>3, <1>4, <1>5, <1>10

\* The data of a record waits in in_msg.
LEMMA ReadDataStep ==
  ASSUME IInv, NEW e \in End, ReadData(e)
  PROVE  Position(e)' /\ Data(e)'
<1> DEFINE r == records[Peer[e]][nread[e] + 1]
           p == [i \in 1..(r.hi - r.lo) |-> r.lo + i]
<1>1. /\ Complete(e, "data") /\ Consume(e) /\ call[e] \in {"read", "again"}
      /\ pending' = [pending EXCEPT ![e] = p]
      /\ records' = records /\ got' = got /\ rcvd' = rcvd
      BY DEF ReadData, outVars, Complete, Reading
<1>2. /\ Position(e)' /\ nread'[e] = nread[e] + 1
      /\ r.lo = UpTo(records[Peer[e]], nread[e])
      /\ r.hi = UpTo(records[Peer[e]], nread[e] + 1)
      /\ r.lo \in Nat /\ r.hi \in Nat /\ r.lo <= r.hi
      BY <1>1, ConsumeStep
<1>3. pending[e] = <<>> /\ Data(e) /\ TypeInv
      BY <1>1, EndFacts DEF CallOK
<1>4. pending'[e] = p
      BY <1>1, <1>3 DEF TypeInv, TypeOK
<1>5. /\ Len(rcvd[e]) + Len(pending[e]) = r.lo
      /\ \A i \in 1..Len(rcvd[e]) : rcvd[e][i] = i
      BY <1>2, <1>3 DEF Data
<1>6. Len(pending[e]) = 0 /\ Len(rcvd[e]) \in Nat
      BY <1>3, EmptySeq, LenProperties DEF TypeInv, TypeOK
<1>7. Len(rcvd[e]) = r.lo
  <2> HIDE DEF r
  <2> QED
    BY <1>2, <1>5, <1>6
<1> DEFINE n == r.hi - r.lo
<1>8. n \in Nat /\ r.lo + n = r.hi
  <2> HIDE DEF r
  <2> QED
    BY <1>2
<1>9. Len(p) = n /\ \A i \in 1..n : p[i] = r.lo + i
  <2>1. p \in [1..n -> Nat]
    <3> HIDE DEF r
    <3> QED
      BY <1>2, <1>8
  <2>2. Len(p) = n
    <3> HIDE DEF p, n
    <3> QED
      BY <1>8, <2>1, FunctionIsSeq
  <2> QED
    BY <2>2
<1>10. Data(e)'
  <2>1. Len(rcvd'[e]) + Len(pending'[e]) = UpTo(records'[Peer[e]], nread'[e])
    <3> HIDE DEF r, n, p
    <3> QED
      BY <1>1, <1>2, <1>4, <1>7, <1>8, <1>9
  <2>2. \A i \in 1..Len(rcvd'[e]) : rcvd'[e][i] = i
        BY <1>1, <1>5
  <2>3. \A i \in 1..Len(pending'[e]) : pending'[e][i] = Len(rcvd'[e]) + i
    <3> HIDE DEF r, n, p
    <3> QED
      BY <1>1, <1>4, <1>7, <1>9
  <2> QED
    BY <2>1, <2>2, <2>3 DEF Data
<1> QED
  BY <1>2, <1>10

\* An empty record brings no data.
LEMMA ReadEmptyStep ==
  ASSUME IInv, NEW e \in End, ReadEmpty(e)
  PROVE  Position(e)' /\ Data(e)'
<1> DEFINE r == records[Peer[e]][nread[e] + 1]
<1>1. /\ Complete(e, "data") /\ Consume(e) /\ r.lo = r.hi
      /\ pending' = pending /\ records' = records /\ got' = got /\ rcvd' = rcvd
      BY DEF ReadEmpty, outVars
<1>2. /\ Position(e)' /\ nread'[e] = nread[e] + 1
      /\ r.lo = UpTo(records[Peer[e]], nread[e])
      /\ r.hi = UpTo(records[Peer[e]], nread[e] + 1)
      BY <1>1, ConsumeStep
<1>3. Data(e)
      BY EndFacts
<1>4. Len(rcvd[e]) + Len(pending[e]) = UpTo(records'[Peer[e]], nread'[e])
      BY <1>1, <1>2, <1>3 DEF Data
<1>5. Data(e)'
      BY <1>1, <1>3, <1>4 DEF Data
<1> QED
  BY <1>2, <1>5

\* The two parts of a sequence.
LEMMA SplitParts ==
  ASSUME NEW S, NEW p \in Seq(S), NEW n \in 1..Len(p)
  PROVE  /\ SubSeq(p, 1, n) \in Seq(S) /\ Len(SubSeq(p, 1, n)) = n
         /\ \A i \in 1..n : SubSeq(p, 1, n)[i] = p[i]
         /\ SubSeq(p, n + 1, Len(p)) \in Seq(S)
         /\ Len(SubSeq(p, n + 1, Len(p))) = Len(p) - n
         /\ \A i \in 1..(Len(p) - n) : SubSeq(p, n + 1, Len(p))[i] = p[n + i]
<1>1. Len(p) \in Nat
      BY LenProperties
<1>2. /\ SubSeq(p, 1, n) \in Seq(S) /\ Len(SubSeq(p, 1, n)) = n
      /\ \A i \in 1..n : SubSeq(p, 1, n)[i] = p[i]
      BY <1>1, SubSeqProperties
<1>3. /\ SubSeq(p, n + 1, Len(p)) \in Seq(S)
      /\ Len(SubSeq(p, n + 1, Len(p))) = Len(p) - n
      /\ \A i \in 1..(Len(p) - n) : SubSeq(p, n + 1, Len(p))[i] = p[n + i]
      BY <1>1, SubSeqProperties
<1> QED
  BY <1>2, <1>3

\* Handing data out moves it from in_msg to the caller.
LEMMA ReadPendingStep ==
  ASSUME IInv, NEW e \in End, ReadPending(e)
  PROVE  Data(e)'
<1> DEFINE p == pending[e]
           q == rcvd[e]
<1>1. PICK len \in ReadLens :
        /\ rcvd' = [rcvd EXCEPT ![e] = @ \o SubSeq(p, 1, Least(len, Len(p)))]
        /\ pending' = [pending EXCEPT ![e] = SubSeq(@, Least(len, Len(p)) + 1, Len(@))]
      BY DEF ReadPending
<1> DEFINE n == Least(len, Len(p))
<1>2. /\ p \in Seq(Nat) /\ q \in Seq(Nat) /\ p # <<>> /\ Data(e)
      /\ records' = records /\ nread' = nread
      /\ rcvd \in [End -> Seq(Nat)] /\ pending \in [End -> Seq(Nat)]
      BY EndFacts DEF ReadPending, outVars, TypeInv, TypeOK
<1>3. Len(p) \in Nat /\ Len(q) \in Nat /\ Len(p) # 0 /\ len \in Nat \ {0}
      BY <1>2, LenProperties, EmptySeq
<1>4. n \in 1..Len(p)
  <2>1. n = len \/ n = Len(p)
        BY DEF Least
  <2>2. n \in Nat /\ n <= Len(p)
        BY <1>3, LeastNat
  <2> HIDE DEF n, p
  <2> QED
    BY <1>3, <2>1, <2>2
<1>5. rcvd'[e] = q \o SubSeq(p, 1, n) /\ pending'[e] = SubSeq(p, n + 1, Len(p))
      BY <1>1, <1>2
<1>6. /\ Len(q) + Len(p) = UpTo(records[Peer[e]], nread[e])
      /\ \A i \in 1..Len(q) : q[i] = i
      /\ \A i \in 1..Len(p) : p[i] = Len(q) + i
      BY <1>2 DEF Data
<1> DEFINE a == SubSeq(p, 1, n)
           b == SubSeq(p, n + 1, Len(p))
<1>7. /\ a \in Seq(Nat) /\ Len(a) = n /\ \A i \in 1..n : a[i] = p[i]
      /\ Len(b) = Len(p) - n /\ \A i \in 1..(Len(p) - n) : b[i] = p[n + i]
  <2> HIDE DEF n, p
  <2> QED
    BY <1>2, <1>4, SplitParts
<1>8. /\ Len(q \o a) = Len(q) + n
      /\ \A i \in 1..Len(q) : (q \o a)[i] = q[i]
      /\ \A i \in 1..n : (q \o a)[Len(q) + i] = a[i]
  <2>1. a \in Seq(Nat) /\ q \in Seq(Nat)
        BY <1>2, <1>7
  <2> HIDE DEF n, p, q, a
  <2>2. /\ Len(q \o a) = Len(q) + Len(a)
        /\ \A i \in 1..Len(q) : (q \o a)[i] = q[i]
        /\ \A i \in 1..Len(a) : (q \o a)[Len(q) + i] = a[i]
        BY <2>1, ConcatParts
  <2> QED
    BY <1>7, <2>2
<1>9. Len(rcvd'[e]) + Len(pending'[e]) = UpTo(records'[Peer[e]], nread'[e])
  <2>1. (Len(q) + n) + (Len(p) - n) = Len(q) + Len(p)
    <3> HIDE DEF n, p, q
    <3> QED
      BY <1>3, <1>4
  <2> QED
    BY <1>2, <1>5, <1>6, <1>7, <1>8, <2>1
<1>10. ASSUME NEW i \in 1..Len(rcvd'[e])
       PROVE  rcvd'[e][i] = i
  <2>1. i \in 1..(Len(q) + n)
        BY <1>5, <1>8
  <2>2. CASE i <= Len(q)
    <3>1. i \in 1..Len(q)
      <4> HIDE DEF n, p, q
      <4> QED
        BY <1>3, <1>4, <2>1, <2>2
    <3> QED
      BY <1>5, <1>6, <1>8, <3>1
  <2>3. CASE ~(i <= Len(q))
    <3>1. i - Len(q) \in 1..n /\ Len(q) + (i - Len(q)) = i /\ i - Len(q) \in 1..Len(p)
      <4> HIDE DEF n, p, q
      <4> QED
        BY <1>3, <1>4, <2>1, <2>3
    <3>2. (q \o a)[Len(q) + (i - Len(q))] = a[i - Len(q)]
          BY <1>8, <3>1
    <3>3. a[i - Len(q)] = p[i - Len(q)] /\ p[i - Len(q)] = Len(q) + (i - Len(q))
          BY <1>6, <1>7, <3>1
    <3> QED
      BY <1>5, <3>1, <3>2, <3>3
  <2> QED
    BY <2>2, <2>3
<1>11. ASSUME NEW i \in 1..Len(pending'[e])
       PROVE  pending'[e][i] = Len(rcvd'[e]) + i
  <2>1. i \in 1..(Len(p) - n)
        BY <1>5, <1>7
  <2>2. n + i \in 1..Len(p) /\ Len(q) + (n + i) = (Len(q) + n) + i
    <3> HIDE DEF n, p, q
    <3> QED
      BY <1>3, <1>4, <2>1
  <2>3. b[i] = p[n + i] /\ p[n + i] = Len(q) + (n + i)
        BY <1>6, <1>7, <2>1, <2>2
  <2> QED
    BY <1>5, <1>8, <2>2, <2>3
<1> QED
  BY <1>9, <1>10, <1>11 DEF Data

-----------------------------------------------------------------------------
(* The calls *)

\* An end that stands still is not disturbed by the other one.
LEMMA OtherKeeps ==
  ASSUME IInv, NEW f \in End,
         records'[f] = records[f], outLeft'[f] = outLeft[f],
         writing'[f] = writing[f], acked'[f] = acked[f], call'[f] = call[f],
         ended'[f] = ended[f], pending'[f] = pending[f]
  PROVE  Unfinished(f)' /\ CallOK(f)'
<1>1. Unfinished(f) /\ CallOK(f)
      BY EndFacts
<1>2. Issued(f)' = Issued(f)
      BY DEF Issued, Newest
<1>3. Unfinished(f)'
      BY <1>1, <1>2 DEF Unfinished
<1>4. CallOK(f)'
      BY <1>1 DEF CallOK
<1> QED
  BY <1>3, <1>4

\* Outside ssl_write, a call that leaves the records alone leaves the unfinished
\* write as it is.
LEMMA IdleKeeps ==
  ASSUME IInv, NEW e \in End, call[e] \in {"idle", "read", "again"}, ended[e] = "no",
         records'[e] = records[e], outLeft'[e] = outLeft[e],
         writing'[e] = writing[e], acked'[e] = acked[e], call'[e] # "write"
  PROVE  Unfinished(e)'
<1>1. Unfinished(e)
      BY EndFacts
<1>2. Issued(e)' = Issued(e)
      BY DEF Issued, Newest
<1>3. /\ acked[e] <= Issued(e)
      /\ writing[e] = {} => acked[e] = Issued(e)
      BY <1>1 DEF Unfinished
<1>4. /\ \A len \in writing[e] :
           /\ writing[e] = {len}
           /\ Issued(e) = acked[e] + Least(len, MaxContent)
      /\ writing[e] = {} => outLeft[e] = 0
      /\ writing[e] # {} => outLeft[e] > 0
      BY <1>1 DEF Unfinished
<1> QED
  BY <1>2, <1>3, <1>4 DEF Unfinished

\* Once the application has stopped, or is closing, nobody waits for the write.
LEMMA StoppedKeeps ==
  ASSUME IInv, NEW e \in End, Issued(e)' = Issued(e),
         writing'[e] = writing[e], acked'[e] = acked[e],
         ended'[e] # "no" \/ call'[e] \in {"flush", "close"}
  PROVE  Unfinished(e)'
<1>1. Unfinished(e)
      BY EndFacts
<1>2. /\ acked[e] <= Issued(e)
      /\ writing[e] = {} => acked[e] = Issued(e)
      BY <1>1 DEF Unfinished
<1> QED
  BY <1>2 DEF Unfinished

\* What has been acknowledged stays on the wire.
LEMMA AckedKeeps ==
  ASSUME IInv, Grows, acked' = acked
  PROVE  AckedIsOnWire'
<1> SUFFICES ASSUME NEW e \in End, acked[e] > 0
             PROVE  \E k \in DOMAIN records'[e] :
                      /\ acked[e] <= records'[e][k].hi
                      /\ records'[e][k].off + Size(records'[e][k]) <= Len(wire'[e])
    BY DEF AckedIsOnWire
<1>1. /\ records[e] \in Seq(Record) /\ Len(records[e]) \in Nat
      /\ records'[e] \in Seq(Record) /\ Len(records'[e]) \in Nat
      /\ Len(records[e]) <= Len(records'[e])
      /\ \A k \in 1..Len(records[e]) : records'[e][k] = records[e][k]
      /\ Len(wire[e]) \in Nat /\ Len(wire[e]) <= Len(wire'[e])
      /\ SenderOK(e)
      BY EndFacts, LenProperties DEF Grows
<1>2. DOMAIN records[e] = 1..Len(records[e]) /\ DOMAIN records'[e] = 1..Len(records'[e])
      BY <1>1, LenProperties
<1>3. PICK k \in 1..Len(records[e]) :
        /\ acked[e] <= records[e][k].hi
        /\ records[e][k].off + Size(records[e][k]) <= Len(wire[e])
      BY <1>2, IInv DEF IInv, AckedIsOnWire
<1>4. k \in 1..Len(records'[e])
      BY <1>1
<1>5. records[e][k].off \in Nat /\ Size(records[e][k]) \in Nat
      BY <1>1, RecordFacts DEF SenderOK
<1>6. records[e][k].off + Size(records[e][k]) <= Len(wire'[e])
  <2>1. Len(wire'[e]) \in Nat
        BY EndFacts DEF Grows
  <2> QED
    BY <1>1, <1>3, <1>5, <2>1
<1> QED
  BY <1>1, <1>2, <1>3, <1>4, <1>6

\* Reaching the end of out_msg puts all of the records on the wire.
LEMMA WriteReturnStep ==
  ASSUME IInv, NEW e \in End, WriteReturn(e)
  PROVE  /\ acked'[e] = Issued(e)
         /\ \A f \in End \ {e} : acked'[f] = acked[f]
         /\ AckedIsOnWire'
<1>1. /\ call[e] = "write" /\ outLeft[e] = 0 /\ ended[e] = "no"
      /\ records' = records /\ wire' = wire
      /\ Unfinished(e) /\ acked \in [End -> Nat]
      BY EndFacts DEF WriteReturn, outVars, CallOK, TypeInv, TypeOK
<1>2. PICK len \in writing[e] :
        acked' = [acked EXCEPT ![e] = @ + Least(len, MaxContent)]
      BY DEF WriteReturn
<1>3. Issued(e) = acked[e] + Least(len, MaxContent)
      BY <1>1, <1>2 DEF Unfinished
<1>4. acked'[e] = Issued(e) /\ \A f \in End \ {e} : acked'[f] = acked[f]
      BY <1>1, <1>2, <1>3
<1>5. ASSUME NEW f \in End, acked'[f] > 0
      PROVE  \E k \in DOMAIN records[f] :
               /\ acked'[f] <= records[f][k].hi
               /\ records[f][k].off + Size(records[f][k]) <= Len(wire[f])
  <2>1. CASE f # e
    <3>1. acked[f] > 0
          BY <1>4, <1>5, <2>1
    <3>2. acked'[f] = acked[f]
          BY <1>4, <2>1
    <3> QED
      BY <3>1, <3>2 DEF IInv, AckedIsOnWire
  <2>2. CASE f = e
    <3> DEFINE R == records[e]
               k == Len(R)
    <3>1. /\ R \in Seq(Record) /\ k \in Nat /\ Len(wire[e]) \in Nat
          /\ Issued(e) = UpTo(R, k) /\ SenderOK(e)
          BY EndFacts, IssuedUpTo
    <3>2. k # 0
          BY <1>4, <1>5, <2>2, <3>1 DEF UpTo
    <3>3. k \in 1..Len(R)
          BY <3>1, <3>2
    <3>4. Len(wire[e]) + 0 = EndOf(R, k)
          BY <1>1, <3>1 DEF SenderOK, WireLength
    <3>5. /\ UpTo(R, k) = R[k].hi /\ R[k].hi \in Nat
          /\ EndOf(R, k) = R[k].off + Size(R[k]) /\ EndOf(R, k) \in Nat
          BY <3>1, <3>3, RecordFacts DEF SenderOK
    <3>6. R[k].off + Size(R[k]) <= Len(wire[e]) /\ acked'[e] <= R[k].hi
      <4> HIDE DEF R, k
      <4> QED
        BY <1>4, <3>1, <3>4, <3>5
    <3>7. k \in DOMAIN R
          BY <3>1, <3>3, LenProperties
    <3> QED
      BY <2>2, <3>6, <3>7
  <2> QED
    BY <2>1, <2>2
<1>6. AckedIsOnWire'
      BY <1>1, <1>5 DEF AckedIsOnWire
<1> QED
  BY <1>4, <1>6

-----------------------------------------------------------------------------
(* One step *)

\* The end f does not take part in the step.
Still(f) ==
  /\ records'[f] = records[f] /\ outLeft'[f] = outLeft[f]
  /\ writing'[f] = writing[f] /\ acked'[f] = acked[f]
  /\ call'[f] = call[f] /\ ended'[f] = ended[f]
  /\ got'[f] = got[f] /\ inLeft'[f] = inLeft[f] /\ nread'[f] = nread[f]
  /\ pending'[f] = pending[f] /\ rcvd'[f] = rcvd[f]

\* What a step of e has to establish.
Good(e) ==
  /\ Grows
  /\ \A f \in End : SenderOK(f)'
  /\ Position(e)' /\ Data(e)'
  /\ Unfinished(e)' /\ CallOK(e)'
  /\ AckedIsOnWire'

\* The end that stands still keeps its part of IInv.
LEMMA StillOK ==
  ASSUME IInv, Grows, NEW f \in End, Still(f)
  PROVE  Position(f)' /\ Data(f)' /\ Unfinished(f)' /\ CallOK(f)'
<1>1. Position(f)' /\ Data(f)'
      BY ReaderKeeps DEF Still
<1>2. Unfinished(f)' /\ CallOK(f)'
      BY OtherKeeps DEF Still
<1> QED
  BY <1>1, <1>2

\* A step of e leaves the other ends alone.
LEMMA OneEnd ==
  ASSUME IInv, NEW e \in End, NEW f \in End, f # e,
         \/ Sends(e) \/ SendWouldBlock(e) \/ SendReset(e)
         \/ Recv(e) \/ RecvWouldBlock(e) \/ RecvEof(e) \/ RecvReset(e)
         \/ ReadData(e) \/ ReadEmpty(e) \/ ReadCloseNotify(e)
         \/ WriteReturn(e) \/ CloseAlert(e) \/ NetClose(e)
         \/ Write(e) \/ Read(e) \/ ReadPending(e) \/ CloseNotify(e)
  PROVE  Still(f)
<1> USE DEF Still, outVars, inVars, Stop
<1>1. TypeOK
      BY EndFacts DEF TypeInv
<1>2. CASE Sends(e)
      BY <1>1, <1>2 DEF Sends, SendHeader, SendBody, TypeOK
<1>3. CASE SendWouldBlock(e)
      BY <1>1, <1>3 DEF SendWouldBlock, TypeOK
<1>4. CASE SendReset(e)
      BY <1>1, <1>4 DEF SendReset, TypeOK
<1>5. CASE Recv(e)
      BY <1>1, <1>5 DEF Recv, TypeOK
<1>6. CASE RecvWouldBlock(e)
      BY <1>1, <1>6 DEF RecvWouldBlock, TypeOK
<1>7. CASE RecvEof(e)
      BY <1>1, <1>7 DEF RecvEof, TypeOK
<1>8. CASE RecvReset(e)
      BY <1>1, <1>8 DEF RecvReset, TypeOK
<1>9. CASE ReadData(e)
      BY <1>1, <1>9 DEF ReadData, Consume, TypeOK
<1>10. CASE ReadEmpty(e)
       BY <1>1, <1>10 DEF ReadEmpty, Consume, TypeOK
<1>11. CASE ReadCloseNotify(e)
       BY <1>1, <1>11 DEF ReadCloseNotify, TypeOK
<1>12. CASE WriteReturn(e)
       BY <1>1, <1>12 DEF WriteReturn, TypeOK
<1>13. CASE CloseAlert(e)
       BY <1>1, <1>13 DEF CloseAlert, WriteMessage, WriteRecord, TypeOK
<1>14. CASE NetClose(e)
       BY <1>1, <1>14 DEF NetClose, TypeOK
<1>15. CASE Write(e)
       BY <1>1, <1>15 DEF Write, WriteRecord, TypeOK
<1>16. CASE Read(e)
       BY <1>1, <1>16 DEF Read, TypeOK
<1>17. CASE ReadPending(e)
       BY <1>1, <1>17 DEF ReadPending, TypeOK
<1>18. CASE CloseNotify(e)
       BY <1>1, <1>18 DEF CloseNotify, TypeOK
<1> QED
  BY <1>2, <1>3, <1>4, <1>5, <1>6, <1>7, <1>8, <1>9, <1>10, <1>11, <1>12, <1>13,
     <1>14, <1>15, <1>16, <1>17, <1>18

\* f_send during a call.
LEMMA SendsGood ==
  ASSUME IInv, NEW e \in End, Sends(e), ~ShortHeader
  PROVE  Good(e)
<1>1. /\ call[e] \in {"write", "refuse", "alert", "flush", "close"}
      /\ UNCHANGED <<call, records, writing, acked, ended, got, inLeft, nread,
                     pending, rcvd>>
      BY DEF Sends, SendHeader, SendBody, Flushing, inVars
<1>2. Unfinished(e) /\ CallOK(e)
      BY EndFacts
<1>3. Grows /\ \A f \in End : SenderOK(f)'
      BY FlushStep
<1>4. Position(e)' /\ Data(e)'
      BY <1>1, <1>3, ReaderKeeps
<1>5. Issued(e)' = Issued(e)
      BY <1>1 DEF Issued, Newest
<1>6. Unfinished(e)'
  <2>1. CASE call[e] = "write"
    <3>1. writing[e] # {} /\ ended[e] = "no"
          BY <1>2, <2>1 DEF CallOK
    <3> QED
      BY <1>1, <1>2, <1>5, <2>1, <3>1 DEF Unfinished
  <2>2. CASE call[e] # "write"
    <3>1. call'[e] \in {"flush", "close"}
          BY <1>1, <1>2, <2>2 DEF CallOK
    <3> QED
      BY <1>1, <1>5, <3>1, StoppedKeeps
  <2> QED
    BY <2>1, <2>2
<1>7. CallOK(e)'
      BY <1>1, <1>2 DEF CallOK
<1>8. AckedIsOnWire'
      BY <1>1, <1>3, AckedKeeps
<1> QED
  BY <1>3, <1>4, <1>6, <1>7, <1>8 DEF Good

\* WANT_WRITE leaves the record for the next call.
LEMMA SendWouldBlockGood ==
  ASSUME IInv, NEW e \in End, SendWouldBlock(e)
  PROVE  Good(e)
<1>1. /\ call[e] \in {"write", "refuse", "alert", "flush", "close"} /\ outLeft[e] > 0
      /\ UNCHANGED <<records, outLeft, wire, writing, acked, got, inLeft, nread,
                     pending, rcvd>>
      /\ atHeader' = [atHeader EXCEPT ![e] = TRUE]
      BY DEF SendWouldBlock, Flushing, inVars
<1>2. Unfinished(e) /\ CallOK(e) /\ TypeOK /\ SenderOK(e)
      BY EndFacts DEF TypeInv
<1>3. /\ call'[e] = "idle"
      /\ call[e] = "write" => ended'[e] = ended[e]
      /\ call[e] # "write" => ended'[e] \notin {"no", "refused", "alert"}
  <2>1. call[e] # "alert" /\ call[e] # "refuse" /\ ended[e] \notin {"refused", "alert"}
        BY <1>2 DEF CallOK
  <2>2. call'[e] = "idle"
        BY <1>2, <2>1 DEF SendWouldBlock, TypeOK
  <2>3. ASSUME call[e] = "write" PROVE ended'[e] = ended[e]
        BY <2>3 DEF SendWouldBlock
  <2>4. ASSUME call[e] # "write" PROVE ended'[e] \notin {"no", "refused", "alert"}
    <3>1. call[e] \in {"flush", "close"}
          BY <1>1, <2>1, <2>4
    <3>2. ended' = [ended EXCEPT ![e] = IF @ = "no" THEN "closed" ELSE @]
          BY <3>1 DEF SendWouldBlock, Stop
    <3> QED
      BY <1>2, <2>1, <3>2 DEF TypeOK
  <2> QED
    BY <2>2, <2>3, <2>4
<1>4. \A f \in End : SenderOK(f)'
  <2> SUFFICES ASSUME NEW f \in End PROVE SenderOK(f)'
    OBVIOUS
  <2>1. CASE f = e
    <3>1. HeaderFirst(e)'
          BY <1>1, <1>2 DEF HeaderFirst, TypeOK
    <3>2. WireLength(e)'
          BY <1>1, <1>2 DEF SenderOK, WireLength
    <3> QED
      BY <1>1, <1>2, <2>1, <3>1, <3>2 DEF SenderOK
  <2>2. CASE f # e
    <3>1. atHeader'[f] = atHeader[f]
          BY <1>1, <1>2, <2>2 DEF TypeOK
    <3> QED
      BY <1>1, <3>1, SameSender
  <2> QED
    BY <2>1, <2>2
<1>5. Grows
      BY <1>1, SameGrows DEF Grows
<1>6. Position(e)' /\ Data(e)'
      BY <1>1, <1>5, ReaderKeeps
<1>7. Issued(e)' = Issued(e)
      BY <1>1 DEF Issued, Newest
<1>8. Unfinished(e)'
  <2>1. CASE call[e] = "write"
    <3>1. writing[e] # {} /\ ended[e] = "no"
          BY <1>2, <2>1 DEF CallOK
    <3> QED
      BY <1>1, <1>2, <1>3, <1>7, <2>1, <3>1 DEF Unfinished
  <2>2. CASE call[e] # "write"
        BY <1>1, <1>3, <1>7, <2>2, StoppedKeeps
  <2> QED
    BY <2>1, <2>2
<1>9. CallOK(e)'
  <2>1. ended[e] \notin {"refused", "alert"}
        BY <1>2 DEF CallOK
  <2> QED
    BY <1>3, <2>1 DEF CallOK
<1>10. AckedIsOnWire'
       BY <1>1, <1>5, AckedKeeps
<1> QED
  BY <1>4, <1>5, <1>6, <1>8, <1>9, <1>10 DEF Good

\* A step that leaves the wire, the records and the reader alone.
LEMMA QuietGood ==
  ASSUME IInv, NEW e \in End, UNCHANGED outVars,
         UNCHANGED <<acked, got, inLeft, nread, pending, rcvd>>,
         Unfinished(e)', CallOK(e)'
  PROVE  Good(e)
<1>1. Grows /\ \A f \in End : SenderOK(f)'
      BY QuietStep
<1>2. Position(e)' /\ Data(e)'
      BY <1>1, ReaderKeeps
<1>3. AckedIsOnWire'
      BY <1>1, AckedKeeps
<1> QED
  BY <1>1, <1>2, <1>3 DEF Good

\* The reader's own steps leave the sender and the acknowledged bytes alone.
LEMMA ReaderGood ==
  ASSUME IInv, NEW e \in End, UNCHANGED outVars, acked' = acked,
         Position(e)', Data(e)', Unfinished(e)', CallOK(e)'
  PROVE  Good(e)
<1>1. Grows /\ \A f \in End : SenderOK(f)'
      BY QuietStep
<1>2. AckedIsOnWire'
      BY <1>1, AckedKeeps
<1> QED
  BY <1>1, <1>2 DEF Good

\* Data moves from the wire to in_msg and to the caller.
LEMMA ReadsGood ==
  ASSUME IInv, NEW e \in End,
         ReadData(e) \/ ReadEmpty(e) \/ ReadPending(e) \/ Recv(e)
  PROVE  Good(e)
<1>1. UNCHANGED outVars /\ UNCHANGED <<writing, acked, ended>>
      BY DEF ReadData, ReadEmpty, ReadPending, Recv
<1>2. /\ call[e] \in {"idle", "read", "again"} /\ ended[e] = "no"
      /\ Unfinished(e) /\ CallOK(e) /\ TypeOK
  <2>1. CallOK(e) /\ Unfinished(e) /\ TypeOK
        BY EndFacts DEF TypeInv
  <2>2. (call[e] = "idle" /\ ended[e] = "no") \/ call[e] \in {"read", "again"}
        BY DEF ReadData, ReadEmpty, ReadPending, Recv, Complete, Reading, Usable
  <2> QED
    BY <2>1, <2>2 DEF CallOK
<1>3. /\ call'[e] \in {"idle", "read", "again"}
      /\ call'[e] \in {"read", "again"} => pending'[e] = <<>>
  <2>1. CASE ReadData(e)
        BY <1>2, <2>1 DEF ReadData, TypeOK
  <2>2. CASE ReadEmpty(e)
    <3>1. call[e] \in {"read", "again"} /\ pending' = pending
          BY <2>2 DEF ReadEmpty, Complete, Reading
    <3>2. call'[e] \in {"idle", "again"}
          BY <1>2, <2>2 DEF ReadEmpty, TypeOK
    <3> QED
      BY <1>2, <3>1, <3>2 DEF CallOK
  <2>3. CASE ReadPending(e)
        BY <1>2, <2>3 DEF ReadPending, Usable
  <2>4. CASE Recv(e)
        BY <1>2, <2>4 DEF Recv, CallOK
  <2> QED
    BY <2>1, <2>2, <2>3, <2>4
<1>4. Unfinished(e)'
      BY <1>1, <1>2, <1>3, IdleKeeps DEF outVars
<1>5. CallOK(e)'
      BY <1>1, <1>2, <1>3 DEF CallOK
<1>6. Position(e)' /\ Data(e)'
  <2>1. CASE ReadData(e)
        BY <2>1, ReadDataStep
  <2>2. CASE ReadEmpty(e)
        BY <2>2, ReadEmptyStep
  <2>3. CASE ReadPending(e)
    <3>1. /\ UNCHANGED outVars /\ UNCHANGED <<got, inLeft, nread>> /\ Position(e)
          BY <2>3, EndFacts DEF ReadPending
    <3>2. Position(e)'
          BY <3>1 DEF Position, outVars
    <3> QED
      BY <2>3, <3>2, ReadPendingStep
  <2>4. CASE Recv(e)
        BY <2>4, RecvStep
  <2> QED
    BY <2>1, <2>2, <2>3, <2>4
<1> QED
  BY <1>1, <1>4, <1>5, <1>6, ReaderGood

\* The steps of an idle or reading end that move no data.
LEMMA ReaderQuietGood ==
  ASSUME IInv, NEW e \in End,
         \/ Read(e) \/ RecvWouldBlock(e) \/ RecvEof(e) \/ RecvReset(e)
         \/ ReadCloseNotify(e) \/ CloseNotify(e)
  PROVE  Good(e)
<1> USE DEF Read, RecvWouldBlock, RecvEof, RecvReset, ReadCloseNotify, CloseNotify
<1>1. /\ UNCHANGED outVars
      /\ UNCHANGED <<writing, acked, got, inLeft, nread, pending, rcvd>>
      BY DEF inVars
<1>2. Unfinished(e) /\ CallOK(e) /\ TypeOK
      BY EndFacts DEF TypeInv
<1>3. call[e] \in {"idle", "read", "again"} /\ ended[e] = "no"
  <2>1. (call[e] = "idle" /\ ended[e] = "no") \/ call[e] \in {"read", "again"}
        BY DEF Complete, Reading, Usable
  <2> QED
    BY <1>2, <2>1 DEF CallOK
<1>4. /\ call'[e] \in {"idle", "read", "flush"}
      /\ call'[e] = "read" => ended'[e] = "no" /\ pending[e] = <<>>
      /\ ended'[e] \notin {"refused", "alert"}
  <2>1. CASE Read(e) \/ CloseNotify(e)
        BY <1>2, <1>3, <2>1 DEF TypeOK
  <2>2. CASE RecvWouldBlock(e) \/ RecvEof(e)
        BY <1>2, <1>3, <2>2 DEF TypeOK
  <2>3. CASE RecvReset(e) \/ ReadCloseNotify(e)
        BY <1>2, <1>3, <2>3 DEF TypeOK, Stop
  <2> QED
    BY <2>1, <2>2, <2>3
<1>5. Unfinished(e)'
      BY <1>1, <1>3, <1>4, IdleKeeps DEF outVars
<1>6. CallOK(e)'
      BY <1>1, <1>4 DEF CallOK
<1> QED
  BY <1>1, <1>5, <1>6, QuietGood

\* The socket is lost while something is being sent, or closed after it.
LEMMA ShutGood ==
  ASSUME IInv, NEW e \in End, SendReset(e) \/ NetClose(e)
  PROVE  Good(e)
<1> USE DEF SendReset, NetClose
<1>1. /\ UNCHANGED outVars
      /\ UNCHANGED <<writing, acked, got, inLeft, nread, pending, rcvd>>
      BY DEF inVars
<1>2. CallOK(e) /\ TypeOK
      BY EndFacts DEF TypeInv
<1>3. call'[e] = "idle" /\ ended'[e] \notin {"no", "refused", "alert"}
  <2>1. call'[e] = "idle" /\ ended[e] \notin {"refused", "alert"}
        BY <1>2 DEF TypeOK, CallOK
  <2>2. (ended'[e] = ended[e] /\ ended[e] # "no") \/ ended'[e] \in {"reset", "closed"}
        BY <1>2 DEF TypeOK, Stop
  <2> QED
    BY <2>1, <2>2
<1>4. Issued(e)' = Issued(e)
      BY <1>1 DEF outVars, Issued, Newest
<1>5. Unfinished(e)'
      BY <1>1, <1>3, <1>4, StoppedKeeps
<1>6. CallOK(e)'
      BY <1>3 DEF CallOK
<1> QED
  BY <1>1, <1>5, <1>6, QuietGood

\* close_notify is a record of its own behind all others.
LEMMA CloseAlertGood ==
  ASSUME IInv, NEW e \in End, CloseAlert(e)
  PROVE  Good(e)
<1>1. /\ outLeft[e] = 0 /\ WriteRecord(e, "close", Issued(e), Issued(e), 2)
      /\ wire' = wire /\ atHeader' = atHeader
      /\ UNCHANGED <<writing, acked, ended, got, inLeft, nread, pending, rcvd>>
      BY DEF CloseAlert, WriteMessage, inVars
<1>2. CallOK(e) /\ TypeOK /\ Issued(e) \in Nat
      BY EndFacts, IssuedUpTo DEF TypeInv
<1>3. Issued(e) <= Issued(e)
      BY <1>2
<1>4. Grows /\ (\A f \in End : SenderOK(f)') /\ Issued(e)' = Issued(e)
      BY <1>1, <1>2, <1>3, PrepareStep
<1>5. call'[e] = "close"
      BY <1>2 DEF CloseAlert, TypeOK
<1>6. Unfinished(e)'
      BY <1>1, <1>4, <1>5, StoppedKeeps
<1>7. CallOK(e)'
      BY <1>1, <1>2, <1>5 DEF CallOK
<1>8. Position(e)' /\ Data(e)'
      BY <1>1, <1>4, ReaderKeeps
<1>9. AckedIsOnWire'
      BY <1>1, <1>4, AckedKeeps
<1> QED
  BY <1>4, <1>6, <1>7, <1>8, <1>9 DEF Good

\* A write succeeds when its record is on the wire.
LEMMA WriteReturnGood ==
  ASSUME IInv, NEW e \in End, WriteReturn(e)
  PROVE  Good(e)
<1>1. /\ UNCHANGED outVars
      /\ UNCHANGED <<got, inLeft, nread, pending, rcvd, ended>>
      /\ call[e] = "write" /\ outLeft[e] = 0
      BY DEF WriteReturn, inVars
<1>2. CallOK(e) /\ TypeOK /\ Issued(e) \in Nat
      BY EndFacts, IssuedUpTo DEF TypeInv
<1>3. call'[e] = "idle" /\ writing'[e] = {}
      BY <1>2 DEF WriteReturn, TypeOK
<1>4. Grows /\ \A f \in End : SenderOK(f)'
      BY <1>1, QuietStep
<1>5. acked'[e] = Issued(e) /\ AckedIsOnWire'
      BY WriteReturnStep
<1>6. Issued(e)' = Issued(e) /\ outLeft'[e] = 0
      BY <1>1 DEF outVars, Issued, Newest
<1>7. Unfinished(e)'
      BY <1>2, <1>3, <1>5, <1>6 DEF Unfinished
<1>8. CallOK(e)'
      BY <1>1, <1>2, <1>3 DEF CallOK
<1>9. Position(e)' /\ Data(e)'
      BY <1>1, <1>4, ReaderKeeps
<1> QED
  BY <1>4, <1>5, <1>7, <1>8, <1>9 DEF Good

\* ssl_write starts a record where the last one ended, or goes on with it.
LEMMA WriteGood ==
  ASSUME IInv, NEW e \in End, Write(e)
  PROVE  Good(e)
<1>1. PICK len \in WriteLens :
        /\ writing[e] # {} => writing[e] = {len}
        /\ writing' = [writing EXCEPT ![e] = {len}]
        /\ IF outLeft[e] # 0
             THEN UNCHANGED <<records, outLeft>>
             ELSE WriteRecord(e, "data", acked[e], acked[e] + Least(len, MaxContent),
                              Least(len, MaxContent))
      BY DEF Write
<1>2. /\ UNCHANGED <<atHeader, acked, wire, ended, got, inLeft, nread, pending, rcvd>>
      /\ call[e] = "idle" /\ ended[e] = "no"
      BY DEF Write, Usable, inVars
<1>3. /\ CallOK(e) /\ Unfinished(e) /\ TypeOK /\ outLeft[e] \in Nat
      /\ acked[e] \in Nat /\ Issued(e) \in Nat
      BY EndFacts, IssuedUpTo DEF TypeInv
<1>4. call'[e] = "write" /\ writing'[e] = {len}
      BY <1>1, <1>3 DEF Write, TypeOK
<1>5. len \in Nat /\ Least(len, MaxContent) \in Nat
      BY LeastNat
<1>6. /\ Grows /\ \A f \in End : SenderOK(f)'
      /\ Issued(e)' = acked[e] + Least(len, MaxContent)
  <2>1. CASE outLeft[e] # 0
    <3>1. UNCHANGED outVars
          BY <1>1, <1>2, <2>1 DEF outVars
    <3>2. writing[e] = {len}
          BY <1>1, <1>2, <1>3, <2>1 DEF Unfinished
    <3>3. Issued(e) = acked[e] + Least(len, MaxContent)
          BY <1>2, <1>3, <3>2 DEF Unfinished
    <3>4. Issued(e)' = Issued(e)
          BY <3>1 DEF outVars, Issued, Newest
    <3> QED
      BY <3>1, <3>3, <3>4, QuietStep
  <2>2. CASE outLeft[e] = 0
    <3>1. writing[e] = {}
          BY <1>2, <1>3, <2>2 DEF Unfinished
    <3>2. acked[e] = Issued(e)
          BY <1>3, <3>1 DEF Unfinished
    <3> DEFINE hi == acked[e] + Least(len, MaxContent)
    <3>3. hi \in Nat /\ Issued(e) <= hi
          BY <1>3, <1>5, <3>2
    <3>4. WriteRecord(e, "data", Issued(e), hi, Least(len, MaxContent))
          BY <1>1, <2>2, <3>2
    <3> HIDE DEF hi
    <3>5. Grows /\ (\A f \in End : SenderOK(f)') /\ Issued(e)' = hi
          BY <1>2, <1>5, <2>2, <3>3, <3>4, PrepareStep
    <3> QED
      BY <3>5 DEF hi
  <2> QED
    BY <2>1, <2>2
<1>7. Unfinished(e)'
  <2>1. acked'[e] <= Issued(e)'
        BY <1>2, <1>3, <1>5, <1>6
  <2> QED
    BY <1>2, <1>4, <1>6, <2>1 DEF Unfinished
<1>8. CallOK(e)'
      BY <1>2, <1>3, <1>4 DEF CallOK
<1>9. Position(e)' /\ Data(e)'
      BY <1>2, <1>6, ReaderKeeps
<1>10. AckedIsOnWire'
       BY <1>2, <1>6, AckedKeeps
<1> QED
  BY <1>6, <1>7, <1>8, <1>9, <1>10 DEF Good

\* Nothing but data and close_notify is ever read, and nothing is refused.
LEMMA NoSurprise ==
  ASSUME IInv, NEW e \in End, HelloFrom = {}
  PROVE  /\ ~RefuseRecord(e) /\ ~ReadHello(e) /\ ~ReadAlert(e) /\ ~RefuseReturn(e)
         /\ ~HelloRequest(e)
<1>1. ~RefuseRecord(e)
      BY AlwaysIntact DEF RefuseRecord
<1>2. ASSUME NEW type, Complete(e, type)
      PROVE  type \in {"data", "close"}
  <2>1. /\ nread[e] + 1 \in 1..Len(records[Peer[e]])
        /\ Layout(records[Peer[e]])
        BY <1>2, EndFacts, CompleteRecord DEF SenderOK
  <2>2. records[Peer[e]][nread[e] + 1].type \in {"data", "close"}
        BY <2>1 DEF Layout
  <2> QED
    BY <1>2, <2>2 DEF Complete
<1>3. ~ReadHello(e) /\ ~ReadAlert(e)
      BY <1>2 DEF ReadHello, ReadAlert
<1>4. ~RefuseReturn(e)
      BY EndFacts DEF RefuseReturn, CallOK
<1>5. ~HelloRequest(e)
      BY DEF HelloRequest
<1> QED
  BY <1>1, <1>3, <1>4, <1>5

-----------------------------------------------------------------------------
(* The theorems *)

\* When the socket takes a record header whole and no end asks for
\* renegotiation, every step of ssl_read, ssl_write and ssl_close_notify keeps
\* IInv.
THEOREM IInvInductive == ASSUME Calm PROVE IInv /\ [Next]_vars => IInv'
<1> SUFFICES ASSUME IInv, [Next]_vars PROVE IInv'
    OBVIOUS
<1>1. TypeInv'
      BY TypeInvInductive DEF IInv
<1>2. SUFFICES /\ \A f \in End : /\ SenderOK(f)' /\ Position(f)' /\ Data(f)'
                                 /\ Unfinished(f)' /\ CallOK(f)'
               /\ AckedIsOnWire'
      BY <1>1 DEF IInv, SenderOK
<1>3. ASSUME NEW e \in End, Good(e), \A f \in End \ {e} : Still(f)
      PROVE  /\ \A f \in End : /\ SenderOK(f)' /\ Position(f)' /\ Data(f)'
                               /\ Unfinished(f)' /\ CallOK(f)'
             /\ AckedIsOnWire'
  <2>1. ASSUME NEW f \in End
        PROVE  /\ SenderOK(f)' /\ Position(f)' /\ Data(f)'
               /\ Unfinished(f)' /\ CallOK(f)'
    <3>1. CASE f = e
          BY <1>3, <3>1 DEF Good
    <3>2. CASE f # e
          BY <1>3, <3>2, StillOK DEF Good
    <3> QED
      BY <3>1, <3>2
  <2> QED
    BY <1>3, <2>1 DEF Good
<1>4. CASE UNCHANGED vars
  <2>1. Grows /\ \A f \in End : SenderOK(f)'
        BY <1>4, QuietStep DEF vars, outVars
  <2>2. \A f \in End : Still(f)
        BY <1>4 DEF vars, Still
  <2>3. AckedIsOnWire'
        BY <1>4, <2>1, AckedKeeps DEF vars
  <2> QED
    BY <2>1, <2>2, <2>3, StillOK
<1>5. CASE Next
  <2>1. PICK e \in End :
          \/ Sends(e) \/ SendWouldBlock(e) \/ SendReset(e)
          \/ Recv(e) \/ RecvWouldBlock(e) \/ RecvEof(e) \/ RecvReset(e)
          \/ ReadData(e) \/ ReadEmpty(e) \/ ReadCloseNotify(e)
          \/ WriteReturn(e) \/ CloseAlert(e) \/ NetClose(e)
          \/ Write(e) \/ Read(e) \/ ReadPending(e) \/ CloseNotify(e)
        BY <1>5, NoSurprise DEF Next, Reads, Returns, Calm
  <2>2. \A f \in End \ {e} : Still(f)
        BY <2>1, OneEnd
  <2>3. Good(e)
    <3>1. CASE Sends(e)
          BY <3>1, SendsGood DEF Calm
    <3>2. CASE SendWouldBlock(e)
          BY <3>2, SendWouldBlockGood
    <3>3. CASE SendReset(e) \/ NetClose(e)
          BY <3>3, ShutGood
    <3>4. CASE ReadData(e) \/ ReadEmpty(e) \/ ReadPending(e) \/ Recv(e)
          BY <3>4, ReadsGood
    <3>5. CASE \/ Read(e) \/ RecvWouldBlock(e) \/ RecvEof(e) \/ RecvReset(e)
               \/ ReadCloseNotify(e) \/ CloseNotify(e)
          BY <3>5, ReaderQuietGood
    <3>6. CASE CloseAlert(e)
          BY <3>6, CloseAlertGood
    <3>7. CASE WriteReturn(e)
          BY <3>7, WriteReturnGood
    <3>8. CASE Write(e)
          BY <3>8, WriteGood
    <3> QED
      BY <2>1, <3>1, <3>2, <3>3, <3>4, <3>5, <3>6, <3>7, <3>8
  <2> QED
    BY <1>3, <2>2, <2>3
<1> QED
  BY <1>4, <1>5

\* IInv holds before anything is sent.
LEMMA IInvInit == Init => IInv
<1> SUFFICES ASSUME Init PROVE IInv
    OBVIOUS
<1>1. TypeInv
      BY TypeInvInit
<1>2. ASSUME NEW e \in End
      PROVE  /\ Layout(records[e]) /\ WireBytes(records[e], wire[e])
             /\ WireLength(e) /\ HeaderFirst(e)
             /\ Position(e) /\ Data(e) /\ Unfinished(e) /\ CallOK(e)
  <2>1. Peer[e] \in End
        OBVIOUS
  <2>2. /\ records[e] = <<>> /\ wire[e] = <<>> /\ outLeft[e] = 0 /\ atHeader[e] = TRUE
        /\ records[Peer[e]] = <<>> /\ rcvd[e] = <<>> /\ pending[e] = <<>>
        /\ nread[e] = 0 /\ got[e] = 0 /\ inLeft[e] = 0
        /\ acked[e] = 0 /\ writing[e] = {} /\ call[e] = "idle" /\ ended[e] = "no"
        BY <2>1 DEF Init
  <2>3. Len(<<>>) = 0
        OBVIOUS
  <2>4. Layout(records[e]) /\ WireBytes(records[e], wire[e])
        BY <2>2, <2>3 DEF Layout, WireBytes
  <2>5. WireLength(e) /\ HeaderFirst(e)
        BY <2>2, <2>3 DEF WireLength, HeaderFirst, EndOf
  <2>6. Position(e) /\ Data(e)
        BY <2>2, <2>3 DEF Position, Data, EndOf, UpTo
  <2>7. Unfinished(e) /\ CallOK(e)
        BY <2>2 DEF Unfinished, CallOK, Issued
  <2> QED
    BY <2>4, <2>5, <2>6, <2>7
<1>3. AckedIsOnWire
      BY DEF Init, AckedIsOnWire
<1> QED
  BY <1>1, <1>2, <1>3 DEF IInv

\* Every state is one of IInv.
THEOREM IInvAlways == ASSUME Calm PROVE Spec => []IInv
<1>1. Init => IInv
      BY IInvInit
<1>2. IInv /\ [Next]_vars => IInv'
      BY IInvInductive
<1> QED
  BY <1>1, <1>2, PTL DEF Spec

\* No end ever refuses what the other one sent.
THEOREM NeverRefusedAlways == ASSUME Calm PROVE Spec => []NeverRefused
<1>1. IInv => NeverRefused
      BY DEF IInv, CallOK, NeverRefused
<1> QED
  BY <1>1, IInvAlways, PTL

-----------------------------------------------------------------------------
(* The byte stream, for a socket that cuts it anywhere                      *)

\* Concatenation by name, for the steps that need no more of it than this.
Joined(a, b) == a \o b

\* Three sequences in a row.
LEMMA JoinThree ==
  ASSUME NEW S, NEW q \in Seq(S), NEW a \in Seq(S), NEW b \in Seq(S)
  PROVE  Joined(Joined(q, a), b) = Joined(q, Joined(a, b))
  BY ConcatAssociative DEF Joined

\* Handing out n elements of p moves them behind q.
LEMMA MoveParts ==
  ASSUME NEW S, NEW q \in Seq(S), NEW p \in Seq(S), NEW n \in 1..Len(p)
  PROVE  (q \o SubSeq(p, 1, n)) \o SubSeq(p, n + 1, Len(p)) = q \o p
<1>1. Len(p) \in Nat
      BY LenProperties
<1>2. 1 \in 1..Len(p) + 1 /\ n \in 1 - 1..Len(p) /\ Len(p) \in n..Len(p)
      BY <1>1
<1>3. SubSeq(p, 1, n) \o SubSeq(p, n + 1, Len(p)) = p
      BY <1>2, ConcatAdjacentSubSeq, SubSeqFull
<1>4. SubSeq(p, 1, n) \in Seq(S) /\ SubSeq(p, n + 1, Len(p)) \in Seq(S)
      BY SplitParts
<1>5. \A a, b \in Seq(S) : Joined(Joined(q, a), b) = Joined(q, Joined(a, b))
      BY ONLY q \in Seq(S), JoinThree
<1>6. \A a, b \in Seq(S) : Joined(a, b) = p => Joined(Joined(q, a), b) = Joined(q, p)
      BY ONLY <1>5
<1>7. Joined(SubSeq(p, 1, n), SubSeq(p, n + 1, Len(p))) = p
      BY <1>3 DEF Joined
<1>8. Joined(Joined(q, SubSeq(p, 1, n)), SubSeq(p, n + 1, Len(p))) = Joined(q, p)
      BY ONLY <1>4, <1>6, <1>7
<1> QED
  BY ONLY <1>8 DEF Joined


-----------------------------------------------------------------------------
(* Records, wires and data as sequences *)

\* The k-th record of a sequence and its fields, whatever the layout.
LEMMA RecordTypes ==
  ASSUME NEW R \in Seq(Record), NEW k \in 1..Len(R)
  PROVE  /\ R[k] \in Record /\ k # 0
         /\ R[k].lo \in Nat /\ R[k].hi \in Nat /\ R[k].off \in Nat /\ R[k].plen \in Nat
         /\ Size(R[k]) \in Nat /\ Size(R[k]) >= HdrLen
         /\ EndOf(R, k) = R[k].off + Size(R[k]) /\ EndOf(R, k) \in Nat
         /\ UpTo(R, k) = R[k].hi
<1>1. R[k] \in Record /\ k # 0
      BY ElementOfSeq
<1>2. R[k].lo \in Nat /\ R[k].hi \in Nat /\ R[k].off \in Nat /\ R[k].plen \in Nat
      BY <1>1 DEF Record
<1>3. Size(R[k]) \in Nat /\ Size(R[k]) >= HdrLen
      BY <1>2 DEF Size
<1>4. EndOf(R, k) = R[k].off + Size(R[k]) /\ UpTo(R, k) = R[k].hi
      BY <1>1 DEF EndOf, UpTo
<1> QED
  BY <1>1, <1>2, <1>3, <1>4

\* The place behind the first k records, and behind none.
LEMMA EndTypes ==
  ASSUME NEW R \in Seq(Record), NEW k \in 0..Len(R)
  PROVE  EndOf(R, k) \in Nat /\ UpTo(R, k) \in Nat
<1>1. k = 0 \/ k \in 1..Len(R)
      BY LenProperties
<1>2. CASE k = 0
      BY <1>2 DEF EndOf, UpTo
<1>3. CASE k \in 1..Len(R)
      BY <1>3, RecordTypes
<1> QED
  BY <1>1, <1>2, <1>3

\* Whether the first k records follow each other does not depend on the rest.
LEMMA PrefixUncut ==
  ASSUME NEW R \in Seq(Record), NEW S, NEW k \in 0..Len(R),
         \A i \in 1..Len(R) : S[i] = R[i]
  PROVE  Uncut(S, k) <=> Uncut(R, k)
<1> SUFFICES ASSUME NEW i \in 1..k
             PROVE  S[i] = R[i] /\ EndOf(S, i - 1) = EndOf(R, i - 1)
    BY DEF Uncut
<1>1. Len(R) \in Nat
      BY LenProperties
<1>2. i \in 1..Len(R) /\ i - 1 \in 0..Len(R)
      BY <1>1
<1> QED
  BY <1>2, PrefixEnds

\* A record behind those of R leaves them as they are.
LEMMA AppendedRecord ==
  ASSUME NEW R \in Seq(Record), NEW r \in Record
  PROVE  /\ Append(R, r) \in Seq(Record) /\ Append(R, r) # <<>>
         /\ Len(R) \in Nat /\ Len(Append(R, r)) = Len(R) + 1
         /\ Append(R, r)[Len(R) + 1] = r
         /\ \A k \in 1..Len(R) : Append(R, r)[k] = R[k]
         /\ EndOf(Append(R, r), Len(R) + 1) = r.off + Size(r)
         /\ UpTo(Append(R, r), Len(R) + 1) = r.hi
<1> DEFINE S == Append(R, r)
<1>1. /\ S \in Seq(Record) /\ Len(R) \in Nat /\ Len(S) = Len(R) + 1
      /\ S[Len(R) + 1] = r /\ \A k \in 1..Len(R) : S[k] = R[k]
      BY AppendProperties, LenProperties
<1>2. S # <<>>
      BY AppendProperties
<1>3. Len(R) + 1 # 0
      BY <1>1
<1>4. EndOf(S, Len(R) + 1) = r.off + Size(r) /\ UpTo(S, Len(R) + 1) = r.hi
  <2> HIDE DEF S
  <2> QED
    BY <1>1, <1>3 DEF EndOf, UpTo
<1> QED
  BY <1>1, <1>2, <1>4

\* A record keeps the others in order if it goes on behind an uncut stream.
LEMMA OrderedAppend ==
  ASSUME NEW R \in Seq(Record), Ordered(R), NEW r \in Record, r.lo <= r.hi,
         Uncut(R, Len(R)) /\ r.off = EndOf(R, Len(R)) => UpTo(R, Len(R)) <= r.lo
  PROVE  Ordered(Append(R, r))
<1> DEFINE S == Append(R, r)
           K == Len(R)
<1>1. /\ K \in Nat /\ Len(S) = K + 1 /\ S[K + 1] = r
      /\ \A k \in 1..K : S[k] = R[k]
      BY AppendedRecord
<1> HIDE DEF S
<1>2. ASSUME NEW k \in 0..K
      PROVE  EndOf(S, k) = EndOf(R, k) /\ UpTo(S, k) = UpTo(R, k) /\ (Uncut(S, k) <=> Uncut(R, k))
      BY <1>1, PrefixEnds, PrefixUncut
<1>3. ASSUME NEW k \in 1..K
      PROVE  S[k].lo <= S[k].hi /\ (Uncut(S, k) => UpTo(S, k - 1) <= S[k].lo)
  <2>1. k \in 0..K /\ k - 1 \in 0..K
        BY <1>1
  <2> QED
    BY <1>1, <1>2, <2>1 DEF Ordered
<1>4. Uncut(S, K + 1) => UpTo(S, K) <= r.lo
  <2> SUFFICES ASSUME Uncut(S, K + 1) PROVE UpTo(S, K) <= r.lo
    OBVIOUS
  <2>1. K + 1 \in 1..K + 1 /\ (K + 1) - 1 = K /\ K \in 0..K
        BY <1>1
  <2>2. S[K + 1].off = EndOf(S, (K + 1) - 1)
        BY <2>1 DEF Uncut
  <2>3. r.off = EndOf(R, K) /\ UpTo(S, K) = UpTo(R, K)
        BY <1>1, <1>2, <2>1, <2>2
  <2>4. \A i \in 1..K : i \in 1..K + 1
        BY <1>1
  <2>5. Uncut(S, K)
        BY <2>4 DEF Uncut
  <2>6. Uncut(R, K)
        BY <1>2, <2>1, <2>5
  <2> QED
    BY <2>3, <2>6
<1>5. ASSUME NEW k \in 1..Len(S)
      PROVE  S[k].lo <= S[k].hi /\ (Uncut(S, k) => UpTo(S, k - 1) <= S[k].lo)
  <2>1. k \in 1..K \/ (k = K + 1 /\ k - 1 = K)
        BY <1>1
  <2> QED
    BY <1>1, <1>3, <1>4, <2>1
<1>6. Ordered(S)
      BY <1>5 DEF Ordered
<1> QED
  BY <1>6 DEF S

\* A byte on the wire is a pair of numbers.
LEMMA ByteTypes ==
  ASSUME NEW b \in Byte
  PROVE  b[1] \in Nat /\ b[2] \in Nat
  BY DEF Byte

\* A further record does not take a byte from the others.
LEMMA TaggedAppend ==
  ASSUME NEW R \in Seq(Record), NEW W \in Seq(Byte), Tagged(R, W),
         \A i \in 1..Len(W) : W[i][1] <= Len(R), NEW r \in Record
  PROVE  Tagged(Append(R, r), W)
<1> SUFFICES ASSUME NEW i \in 1..Len(W), W[i][1] # 0
             PROVE  i = Append(R, r)[W[i][1]].off + W[i][2]
    BY DEF Tagged
<1>1. W[i][1] \in Nat /\ Len(R) \in Nat
      BY ElementOfSeq, ByteTypes, LenProperties
<1>2. W[i][1] \in 1..Len(R)
      BY <1>1
<1>3. i = R[W[i][1]].off + W[i][2]
      BY DEF Tagged
<1> QED
  BY <1>2, <1>3, AppendedRecord

\* Bytes of the newest record that continue where the wire ends, and garbage.
LEMMA TaggedFlush ==
  ASSUME NEW R \in Seq(Record), R # <<>>, NEW W \in Seq(Byte), Tagged(R, W),
         NEW left \in Nat, Len(W) + left = EndOf(R, Len(R)),
         NEW s \in Seq(Byte),
         \A i \in 1..Len(s) :
           s[i][1] # 0 => s[i] = <<Len(R), Size(R[Len(R)]) - left + i>>
  PROVE  Tagged(R, W \o s)
<1> DEFINE K == Len(R)
           V == W \o s
<1>1. /\ Len(W) \in Nat /\ Len(s) \in Nat /\ K \in Nat /\ K # 0
      BY LenProperties, EmptySeq
<1>2. /\ V \in Seq(Byte) /\ Len(V) = Len(W) + Len(s)
      /\ \A i \in 1..Len(W) : V[i] = W[i]
      /\ \A i \in 1..Len(s) : V[Len(W) + i] = s[i]
      BY ConcatParts
<1>3. K \in 1..Len(R)
      BY <1>1
<1>4. /\ R[K].off \in Nat /\ Size(R[K]) \in Nat
      /\ Len(W) + left = R[K].off + Size(R[K])
      BY <1>3, RecordTypes
<1> SUFFICES ASSUME NEW i \in 1..Len(V), V[i][1] # 0
             PROVE  i = R[V[i][1]].off + V[i][2]
    BY DEF Tagged
<1> HIDE DEF V, K
<1>5. CASE i <= Len(W)
  <2>1. i \in 1..Len(W)
        BY <1>1, <1>2, <1>5
  <2> QED
    BY <1>2, <2>1 DEF Tagged
<1>6. CASE ~(i <= Len(W))
  <2> DEFINE j == i - Len(W)
  <2>1. j \in 1..Len(s) /\ Len(W) + j = i
        BY <1>1, <1>2, <1>6
  <2>2. V[i] = s[j]
        BY <1>2, <2>1
  <2>3. s[j] = <<K, Size(R[K]) - left + j>>
        BY <2>1, <2>2 DEF K
  <2>4. V[i][1] = K /\ V[i][2] = Size(R[K]) - left + j
        BY <2>2, <2>3
  <2>5. i = R[K].off + (Size(R[K]) - left + j)
    <3> DEFINE off == R[K].off
               size == Size(R[K])
    <3> HIDE DEF off, size, j
    <3>1. off \in Nat /\ size \in Nat /\ Len(W) + left = off + size
          BY <1>4 DEF off, size
    <3>2. j \in Int
          BY <1>1, <2>1
    <3>3. i = off + (size - left + j)
          BY <1>1, <2>1, <3>1, <3>2
    <3> QED
      BY <3>3 DEF off, size
  <2> QED
    BY <2>4, <2>5
<1> QED
  BY <1>5, <1>6

-----------------------------------------------------------------------------
(* One end *)

SenderInv(e) ==
  /\ WireLength(e)
  /\ Tagged(records[e], wire[e])
  /\ Ordered(records[e])

\* What SocketInv says of one end, with the types the steps below need.
LEMMA SocketFacts ==
  ASSUME SocketInv, NEW e \in End
  PROVE  /\ TypeInv /\ TypeOK
         /\ Peer[e] \in End /\ Peer[Peer[e]] = e /\ Peer[e] # e
         /\ records[e] \in Seq(Record) /\ Len(records[e]) \in Nat
         /\ wire[e] \in Seq(Byte) /\ Len(wire[e]) \in Nat
         /\ outLeft[e] \in Nat /\ got[e] \in Nat /\ inLeft[e] \in Nat
         /\ nread[e] \in Nat /\ acked[e] \in Nat /\ Issued(e) \in Nat
         /\ pending[e] \in Seq(Nat) /\ rcvd[e] \in Seq(Nat)
         /\ SenderInv(e) /\ Resumes(e) /\ Following(e)
<1>1. TypeInv /\ TypeOK
      BY DEF SocketInv, TypeInv
<1>2. records[e] \in Seq(Record) /\ wire[e] \in Seq(Byte)
      BY <1>1 DEF TypeOK
<1>3. Len(records[e]) \in Nat /\ Len(wire[e]) \in Nat
      BY <1>2, LenProperties
<1>4. /\ outLeft[e] \in Nat /\ got[e] \in Nat /\ inLeft[e] \in Nat
      /\ nread[e] \in Nat /\ acked[e] \in Nat
      /\ pending[e] \in Seq(Nat) /\ rcvd[e] \in Seq(Nat)
      BY <1>1 DEF TypeOK
<1>5. Issued(e) \in Nat
      BY <1>1, IssuedType
<1>6. SenderInv(e) /\ Resumes(e) /\ Following(e)
      BY DEF SocketInv, SenderInv
<1> QED
  BY <1>1, <1>2, <1>3, <1>4, <1>5, <1>6

\* The stream position behind all records of e.
LEMMA IssuedEnd ==
  ASSUME NEW e \in End, records[e] \in Seq(Record)
  PROVE  Issued(e) = UpTo(records[e], Len(records[e]))
<1>1. CASE records[e] = <<>>
      BY <1>1, EmptySeq DEF Issued, UpTo
<1>2. CASE records[e] # <<>>
  <2>1. Len(records[e]) # 0
        BY <1>2, EmptySeq
  <2> QED
    BY <1>2, <2>1 DEF Issued, UpTo, Newest
<1> QED
  BY <1>1, <1>2

-----------------------------------------------------------------------------
(* The sender *)

\* What a step of e has to establish for the records and the wires.
SentWell(e) ==
  /\ Grows
  /\ SenderInv(e)'
  /\ \A f \in End \ {e} :
       /\ records'[f] = records[f] /\ wire'[f] = wire[f] /\ outLeft'[f] = outLeft[f]

\* What stays as it is grows.
LEMMA UnsentGrows ==
  ASSUME SocketInv, NEW f \in End, records'[f] = records[f], wire'[f] = wire[f]
  PROVE  /\ records'[f] \in Seq(Record)
         /\ Len(records[f]) <= Len(records'[f])
         /\ \A k \in 1..Len(records[f]) : records'[f][k] = records[f][k]
         /\ Len(wire[f]) <= Len(wire'[f])
         /\ \A i \in 1..Len(wire[f]) : wire'[f][i] = wire[f][i]
  BY SocketFacts

\* A step that sends nothing and prepares nothing.
LEMMA NothingSent ==
  ASSUME SocketInv, NEW e \in End, records' = records, wire' = wire, outLeft' = outLeft
  PROVE  SentWell(e)
<1>1. Grows
      BY UnsentGrows DEF Grows
<1>2. SenderInv(e)'
  <2>1. SenderInv(e)
        BY SocketFacts
  <2> QED
    BY <2>1 DEF SenderInv, WireLength
<1> QED
  BY <1>1, <1>2 DEF SentWell

\* f_send takes n bytes, the newest record's or garbage in their place.
LEMMA BytesSent ==
  ASSUME SocketInv, NEW e \in End, outLeft[e] > 0, NEW n \in 1..outLeft[e],
         records' = records,
         outLeft' = [outLeft EXCEPT ![e] = @ - n],
         \/ wire' = [wire EXCEPT ![e] = @ \o HeaderBytes(e, n)]
         \/ wire' = [wire EXCEPT ![e] = @ \o BodyBytes(e, n)]
  PROVE  SentWell(e)
<1> DEFINE R == records[e]
           W == wire[e]
<1>1. /\ TypeInv /\ TypeOK /\ R \in Seq(Record) /\ W \in Seq(Byte) /\ Len(W) \in Nat
      /\ outLeft[e] \in Nat /\ SenderInv(e)
      BY SocketFacts
<1>2. R # <<>> /\ Newest(e) = R[Len(R)]
      BY <1>1 DEF TypeOK, Newest
<1>3. PICK s \in Seq(Byte) :
        /\ Len(s) = n
        /\ \A i \in 1..Len(s) :
             s[i][1] # 0 => s[i] = <<Len(R), Size(R[Len(R)]) - outLeft[e] + i>>
        /\ wire' = [wire EXCEPT ![e] = @ \o s]
  <2>1. /\ HeaderBytes(e, n) \in Seq(Byte) /\ Len(HeaderBytes(e, n)) = n
        /\ BodyBytes(e, n) \in Seq(Byte) /\ Len(BodyBytes(e, n)) = n
        BY <1>1, BytesType
  <2>2. \A i \in 1..n :
          HeaderBytes(e, n)[i] = <<Len(R), Size(R[Len(R)]) - outLeft[e] + i>>
        BY <1>2 DEF HeaderBytes
  <2>3. ASSUME NEW i \in 1..n, BodyBytes(e, n)[i][1] # 0
        PROVE  BodyBytes(e, n)[i] = <<Len(R), Size(R[Len(R)]) - outLeft[e] + i>>
    <3>1. BodyBytes(e, n)[i] =
            IF i <= outLeft[e] - Newest(e).plen
              THEN Garbage ELSE <<Len(R), Size(R[Len(R)]) - outLeft[e] + i>>
          BY <1>2 DEF BodyBytes
    <3>2. Garbage[1] = 0
          BY DEF Garbage
    <3> QED
      BY <2>3, <3>1, <3>2
  <2> QED
    BY <2>1, <2>2, <2>3
<1>4. /\ wire'[e] = W \o s /\ outLeft'[e] = outLeft[e] - n
      /\ \A f \in End \ {e} : wire'[f] = wire[f] /\ outLeft'[f] = outLeft[f]
      BY <1>1, <1>3 DEF TypeOK
<1>5. /\ Len(W \o s) = Len(W) + n
      /\ \A i \in 1..Len(W) : (W \o s)[i] = W[i]
  <2>1. /\ Len(W \o s) = Len(W) + Len(s)
        /\ \A i \in 1..Len(W) : (W \o s)[i] = W[i]
    <3> HIDE DEF W
    <3> QED
      BY <1>1, ConcatParts
  <2> QED
    BY <1>3, <2>1
<1>6. Len(W) + outLeft[e] = EndOf(R, Len(R)) /\ Tagged(R, W) /\ Ordered(R)
      BY <1>1 DEF SenderInv, WireLength
<1>7. Tagged(R, W \o s)
  <2> HIDE DEF R, W
  <2> QED
    BY <1>1, <1>2, <1>3, <1>6, TaggedFlush
<1>8. WireLength(e)'
  <2>1. (Len(W) + n) + (outLeft[e] - n) = Len(W) + outLeft[e]
    <3> HIDE DEF W
    <3> QED
      BY <1>1
  <2> QED
    BY <1>4, <1>5, <1>6, <2>1 DEF WireLength
<1>9. SenderInv(e)'
      BY <1>4, <1>6, <1>7, <1>8 DEF SenderInv
<1>10. Len(wire[e]) <= Len(wire'[e]) /\ \A i \in 1..Len(wire[e]) : wire'[e][i] = wire[e][i]
  <2>1. Len(W) <= Len(W) + n
    <3> HIDE DEF W
    <3> QED
      BY <1>1
  <2> QED
    BY <1>4, <1>5, <2>1
<1>11. Grows
  <2>1. ASSUME NEW f \in End
        PROVE  /\ records'[f] \in Seq(Record)
               /\ Len(records[f]) <= Len(records'[f])
               /\ \A k \in 1..Len(records[f]) : records'[f][k] = records[f][k]
        BY SocketFacts
  <2>2. ASSUME NEW f \in End \ {e}
        PROVE  /\ Len(wire[f]) <= Len(wire'[f])
               /\ \A i \in 1..Len(wire[f]) : wire'[f][i] = wire[f][i]
        BY <1>4, UnsentGrows
  <2> QED
    BY <1>10, <2>1, <2>2 DEF Grows
<1> QED
  BY <1>4, <1>9, <1>11 DEF SentWell

\* A record is prepared, and s, some or none of its bytes, goes to the wire.
LEMMA RecordSent ==
  ASSUME SocketInv, NEW e \in End, NEW r \in Record, r.off = Len(wire[e]),
         r.lo <= r.hi,
         Uncut(records[e], Len(records[e])) /\ outLeft[e] = 0 => Issued(e) <= r.lo,
         NEW s \in Seq(Byte),
         \A i \in 1..Len(s) : s[i] = <<Len(records[e]) + 1, i>>,
         NEW left \in Nat, Len(s) + left = Size(r),
         records' = [records EXCEPT ![e] = Append(@, r)],
         wire' = [wire EXCEPT ![e] = @ \o s],
         outLeft' = [outLeft EXCEPT ![e] = left]
  PROVE  /\ SentWell(e)
         /\ Issued(e)' = r.hi
         /\ Len(records'[e]) = Len(records[e]) + 1
         /\ records'[e][Len(records[e]) + 1] = r
         /\ Uncut(records'[e], Len(records'[e])) =>
              Uncut(records[e], Len(records[e])) /\ outLeft[e] = 0
<1> DEFINE R == records[e]
           W == wire[e]
           S == Append(R, r)
           K == Len(R)
<1>1. /\ TypeInv /\ TypeOK /\ R \in Seq(Record) /\ W \in Seq(Byte) /\ Len(W) \in Nat
      /\ K \in Nat /\ outLeft[e] \in Nat /\ SenderInv(e) /\ Issued(e) = UpTo(R, K)
      BY SocketFacts, IssuedEnd
<1>2. /\ records'[e] = S /\ wire'[e] = W \o s /\ outLeft'[e] = left
      /\ \A f \in End \ {e} :
           records'[f] = records[f] /\ wire'[f] = wire[f] /\ outLeft'[f] = outLeft[f]
      BY <1>1 DEF TypeOK
<1>3. /\ S \in Seq(Record) /\ S # <<>> /\ Len(S) = K + 1 /\ S[K + 1] = r
      /\ \A k \in 1..K : S[k] = R[k]
      /\ EndOf(S, K + 1) = r.off + Size(r) /\ UpTo(S, K + 1) = r.hi
  <2> HIDE DEF R, K, S
  <2> QED
    BY <1>1, AppendedRecord DEF K, S
<1>4. Len(W) + outLeft[e] = EndOf(R, K) /\ Tagged(R, W) /\ Ordered(R)
      BY <1>1 DEF SenderInv, WireLength
<1>5. r.off = EndOf(R, K) => outLeft[e] = 0
      BY <1>1, <1>4
<1>6. Ordered(S)
  <2>1. Uncut(R, K) /\ r.off = EndOf(R, K) => UpTo(R, K) <= r.lo
        BY <1>1, <1>5
  <2> HIDE DEF R
  <2> QED
    BY <1>1, <1>4, <2>1, OrderedAppend
<1>7. Tagged(S, W)
  <2>1. \A i \in 1..Len(W) : W[i][1] <= Len(R)
        BY <1>1 DEF TypeInv, Known
  <2> HIDE DEF R, W
  <2> QED
    BY <1>1, <1>4, <2>1, TaggedAppend
<1>8. /\ Len(W \o s) = Len(W) + Len(s) /\ Len(s) \in Nat
      /\ \A i \in 1..Len(W) : (W \o s)[i] = W[i]
  <2> HIDE DEF W
  <2> QED
    BY <1>1, ConcatParts, LenProperties
<1>9. Size(r) \in Nat
      BY DEF Record, Size
<1>10. Tagged(S, W \o s)
  <2>1. Len(W) + Size(r) = EndOf(S, Len(S))
        BY <1>3
  <2>2. ASSUME NEW i \in 1..Len(s)
        PROVE  s[i] = <<Len(S), Size(S[Len(S)]) - Size(r) + i>>
    <3>1. s[i] = <<K + 1, i>>
          OBVIOUS
    <3>2. Size(r) - Size(r) + i = i
          BY <1>8, <1>9
    <3>3. Len(S) = K + 1 /\ S[Len(S)] = r
          BY <1>3
    <3> HIDE DEF S, K
    <3> QED
      BY <3>1, <3>2, <3>3
  <2> HIDE DEF S, W
  <2> QED
    BY <1>1, <1>3, <1>7, <1>9, <2>1, <2>2, TaggedFlush
<1>11. WireLength(e)'
  <2>1. Len(W) + Len(s) + left = Len(W) + Size(r)
    <3> HIDE DEF W
    <3> QED
      BY <1>1, <1>8, <1>9
  <2> HIDE DEF S
  <2> QED
    BY <1>2, <1>3, <1>8, <2>1 DEF WireLength
<1>12. SenderInv(e)'
      BY <1>2, <1>6, <1>10, <1>11 DEF SenderInv
<1>13. Grows
  <2>1. /\ records'[e] \in Seq(Record)
        /\ Len(records[e]) <= Len(records'[e])
        /\ \A k \in 1..Len(records[e]) : records'[e][k] = records[e][k]
    <3> HIDE DEF S
    <3> QED
      BY <1>1, <1>2, <1>3
  <2>2. Len(wire[e]) <= Len(wire'[e])
    <3>1. Len(W) <= Len(W) + Len(s)
      <4> HIDE DEF W
      <4> QED
        BY <1>1, <1>8
    <3> QED
      BY <1>2, <1>8, <3>1
  <2>3. \A i \in 1..Len(wire[e]) : wire'[e][i] = wire[e][i]
        BY <1>2, <1>8
  <2> QED
    BY <1>2, <2>1, <2>2, <2>3, UnsentGrows DEF Grows
<1>14. Issued(e)' = r.hi
  <2> HIDE DEF S
  <2> QED
    BY <1>2, <1>3 DEF Issued, Newest
<1>15. ASSUME Uncut(S, K + 1)
       PROVE  Uncut(R, K) /\ outLeft[e] = 0
  <2>1. K + 1 \in 1..K + 1 /\ (K + 1) - 1 = K /\ K \in 0..K
        BY <1>1
  <2>2. S[K + 1].off = EndOf(S, (K + 1) - 1)
        BY <1>15, <2>1 DEF Uncut
  <2>3. EndOf(S, K) = EndOf(R, K) /\ (Uncut(S, K) <=> Uncut(R, K))
    <3> HIDE DEF R, S, K
    <3>1. K \in 0..Len(R) /\ \A i \in 1..Len(R) : S[i] = R[i]
          BY <1>3, <2>1 DEF K
    <3> QED
      BY <1>1, <3>1, PrefixEnds, PrefixUncut
  <2>4. \A i \in 1..K : i \in 1..K + 1
        BY <1>1
  <2>5. Uncut(S, K)
        BY <1>15, <2>4 DEF Uncut
  <2> QED
    BY <1>3, <1>5, <2>1, <2>2, <2>3, <2>5
<1> QED
  BY <1>2, <1>3, <1>12, <1>13, <1>14, <1>15 DEF SentWell

-----------------------------------------------------------------------------
(* The reader *)

\* What an end has and holds back is a sequence of stream positions.
LEMMA DataType ==
  ASSUME SocketInv, NEW e \in End
  PROVE  /\ DataOf(e) \in Seq(Nat) /\ Len(DataOf(e)) \in Nat
         /\ pending[e] = <<>> => DataOf(e) = rcvd[e]
<1>1. pending[e] \in Seq(Nat) /\ rcvd[e] \in Seq(Nat)
      BY SocketFacts
<1>2. rcvd[e] \o pending[e] \in Seq(Nat)
      BY <1>1, ConcatProperties
<1>3. pending[e] = <<>> => rcvd[e] \o pending[e] = rcvd[e]
      BY <1>1, ConcatEmptySeq
<1> QED
  BY <1>2, <1>3, LenProperties DEF DataOf

\* A higher bound.
LEMMA AscendsHigher ==
  ASSUME NEW d \in Seq(Nat), NEW top \in Nat, NEW high \in Nat, top <= high,
         Ascends(d, top)
  PROVE  Ascends(d, high)
<1>1. \A i \in 1..Len(d) : d[i] \in Nat
      BY ElementOfSeq
<1> QED
  BY <1>1 DEF Ascends

\* Further data, above everything before it or no data at all.
LEMMA AscendsJoin ==
  ASSUME NEW d \in Seq(Nat), NEW top \in Nat, NEW high \in Nat, top <= high,
         Ascends(d, top), NEW b \in Seq(Nat),
         \A i \in 1..Len(b) :
           /\ b[i] <= high
           /\ b[i] > 0 => top < b[i] /\ \A j \in 1..(i - 1) : b[j] < b[i]
  PROVE  Ascends(d \o b, high)
<1> DEFINE c == d \o b
<1>1. /\ c \in Seq(Nat) /\ Len(c) = Len(d) + Len(b)
      /\ \A i \in 1..Len(d) : c[i] = d[i]
      /\ \A i \in 1..Len(b) : c[Len(d) + i] = b[i]
      BY ConcatParts
<1>2. Len(d) \in Nat /\ Len(b) \in Nat
      BY LenProperties
<1>3. \A i \in 1..Len(d) : d[i] \in Nat
      BY ElementOfSeq
<1>4. \A i \in 1..Len(b) : b[i] \in Nat
      BY ElementOfSeq
<1> HIDE DEF c
<1>5. ASSUME NEW i \in 1..Len(c)
      PROVE  c[i] <= high /\ (c[i] > 0 => \A j \in 1..(i - 1) : c[j] < c[i])
  <2>1. CASE i <= Len(d)
    <3>1. i \in 1..Len(d) /\ \A j \in 1..(i - 1) : j \in 1..Len(d)
          BY <1>1, <1>2, <2>1
    <3>2. c[i] = d[i] /\ d[i] <= top /\ d[i] \in Nat
          BY <1>1, <1>3, <3>1 DEF Ascends
    <3>3. c[i] > 0 => \A j \in 1..(i - 1) : c[j] < c[i]
          BY <1>1, <3>1 DEF Ascends
    <3> QED
      BY <3>2, <3>3
  <2>2. CASE ~(i <= Len(d))
    <3> DEFINE k == i - Len(d)
    <3>1. k \in 1..Len(b) /\ Len(d) + k = i
          BY <1>1, <1>2, <2>2
    <3>2. c[i] = b[k] /\ b[k] <= high /\ b[k] \in Nat
          BY <1>1, <1>4, <3>1
    <3>3. ASSUME c[i] > 0, NEW j \in 1..(i - 1)
          PROVE  c[j] < c[i]
      <4>1. CASE j <= Len(d)
        <5>1. j \in 1..Len(d)
              BY <1>2, <4>1
        <5>2. c[j] = d[j] /\ d[j] <= top /\ d[j] \in Nat
              BY <1>1, <1>3, <5>1 DEF Ascends
        <5>3. top < b[k]
              BY <3>1, <3>2, <3>3
        <5> HIDE DEF k
        <5> QED
          BY <3>2, <5>2, <5>3
      <4>2. CASE ~(j <= Len(d))
        <5>1. j - Len(d) \in 1..(k - 1) /\ j - Len(d) \in 1..Len(b) /\ Len(d) + (j - Len(d)) = j
              BY <1>1, <1>2, <3>1, <4>2
        <5>2. c[j] = b[j - Len(d)]
              BY <1>1, <5>1
        <5> HIDE DEF k
        <5> QED
          BY <3>1, <3>2, <3>3, <5>1, <5>2
      <4> QED
        BY <4>1, <4>2
    <3> QED
      BY <3>2, <3>3
  <2> QED
    BY <2>1, <2>2
<1>6. Ascends(c, high)
      BY <1>5 DEF Ascends
<1> QED
  BY <1>6 DEF c

\* A peer that goes on sending does not disturb a reader that stands still.
LEMMA FollowingKept ==
  ASSUME SocketInv, Grows, NEW f \in End,
         got'[f] = got[f], inLeft'[f] = inLeft[f], nread'[f] = nread[f],
         pending'[f] = pending[f], rcvd'[f] = rcvd[f],
         call'[f] \in {"read", "again", "refuse"} => pending[f] = <<>>
  PROVE  Following(f)'
<1> DEFINE R == records[Peer[f]]
           S == records'[Peer[f]]
<1>1. /\ Peer[f] \in End /\ R \in Seq(Record) /\ Len(R) \in Nat
      /\ nread[f] \in Nat /\ Following(f)
      BY SocketFacts
<1>2. /\ S \in Seq(Record) /\ Len(R) <= Len(S) /\ Len(S) \in Nat
      /\ \A k \in 1..Len(R) : S[k] = R[k]
      BY <1>1, LenProperties DEF Grows
<1>3. /\ nread[f] <= Len(R) /\ Uncut(R, nread[f])
      /\ got[f] = EndOf(R, nread[f]) + inLeft[f]
      /\ Ascends(DataOf(f), UpTo(R, nread[f]))
      BY <1>1 DEF Following
<1> HIDE DEF R, S
<1>4. nread[f] \in 0..Len(R) /\ nread[f] <= Len(S)
      BY <1>1, <1>2, <1>3
<1>5. EndOf(S, nread[f]) = EndOf(R, nread[f]) /\ UpTo(S, nread[f]) = UpTo(R, nread[f])
      BY <1>1, <1>2, <1>4, PrefixEnds
<1>6. Uncut(S, nread[f])
      BY <1>1, <1>2, <1>3, <1>4, PrefixUncut
<1>7. DataOf(f)' = DataOf(f)
      BY DEF DataOf
<1>8. Peer'[f] = Peer[f]
      OBVIOUS
<1> QED
  BY <1>3, <1>4, <1>5, <1>6, <1>7 DEF Following, S

\* A record that came whole began where the one before it ended.
LEMMA CompleteFollows ==
  ASSUME SocketInv, NEW e \in End, NEW type, Complete(e, type)
  PROVE  LET R == records[Peer[e]]
             k == nread[e] + 1
         IN  /\ k \in 1..Len(R) /\ k - 1 = nread[e]
             /\ Uncut(R, k)
             /\ R[k].off = EndOf(R, nread[e])
             /\ got[e] = EndOf(R, k)
             /\ UpTo(R, nread[e]) \in Nat /\ UpTo(R, nread[e]) <= R[k].lo
             /\ R[k].lo <= R[k].hi /\ R[k].hi = UpTo(R, k)
             /\ R[k].lo \in Nat /\ R[k].hi \in Nat
<1> DEFINE P == Peer[e]
           R == records[P]
           W == wire[P]
           k == nread[e] + 1
<1>1. /\ P \in End /\ R \in Seq(Record) /\ Len(R) \in Nat
      /\ nread[e] \in Nat /\ inLeft[e] \in Nat /\ got[e] \in Nat
      /\ TypeInv /\ Following(e)
      BY SocketFacts
<1>2. /\ Tagged(R, W) /\ Ordered(R) /\ Len(W) \in Nat
      BY <1>1, SocketFacts DEF SenderInv
<1>3. k \in 1..Len(R) /\ k \in Nat /\ k - 1 = nread[e]
      BY <1>1, CompleteRecord
<1>4. /\ Uncut(R, nread[e])
      /\ got[e] = EndOf(R, nread[e]) + inLeft[e]
      /\ nread[e] \in 0..Len(R)
      BY <1>1 DEF Following
<1>5. EndOf(R, nread[e]) \in Nat /\ UpTo(R, nread[e]) \in Nat
      BY <1>1, <1>4, EndTypes
<1>6. inLeft[e] = Size(R[k]) /\ inLeft[e] >= HdrLen /\ Intact(e)
      BY DEF Complete, Wanted
<1>7. got[e] - inLeft[e] + 1 \in 1..Len(W)
  <2>1. inLeft[e] <= got[e] /\ got[e] <= Len(W)
        BY <1>1 DEF TypeInv, Known
  <2> HIDE DEF W
  <2> QED
    BY <1>1, <1>2, <1>6, <2>1
<1>8. W[got[e] - inLeft[e] + 1] = <<k, 1>>
  <2>1. 1 \in 1..inLeft[e]
        BY <1>1, <1>6
  <2> QED
    BY <1>6, <2>1 DEF Intact, Fetched
<1>9. /\ R[k].off \in Nat /\ Size(R[k]) \in Nat
      /\ EndOf(R, k) = R[k].off + Size(R[k]) /\ UpTo(R, k) = R[k].hi
      /\ R[k].lo \in Nat /\ R[k].hi \in Nat
      BY <1>1, <1>3, RecordTypes
<1> HIDE DEF P, R, W, k
<1>10. got[e] - inLeft[e] + 1 = R[k].off + 1
  <2>1. <<k, 1>>[1] = k /\ <<k, 1>>[2] = 1 /\ k # 0
        BY <1>1, <1>3
  <2> QED
    BY <1>2, <1>7, <1>8, <2>1 DEF Tagged
<1>11. R[k].off = EndOf(R, nread[e])
  <2> DEFINE off == R[k].off
             end == EndOf(R, nread[e])
  <2> HIDE DEF off, end
  <2>1. /\ off \in Nat /\ end \in Nat /\ got[e] = end + inLeft[e]
        /\ got[e] - inLeft[e] + 1 = off + 1
        BY <1>4, <1>5, <1>9, <1>10 DEF off, end
  <2>2. off = end
        BY <1>1, <2>1
  <2> QED
    BY <2>2 DEF off, end
<1>12. got[e] = EndOf(R, k)
       BY <1>1, <1>4, <1>5, <1>6, <1>9, <1>11
<1>13. Uncut(R, k)
  <2> SUFFICES ASSUME NEW i \in 1..k PROVE R[i].off = EndOf(R, i - 1)
    BY DEF Uncut
  <2>1. i = k \/ i \in 1..nread[e]
        BY <1>1, <1>3
  <2> QED
    BY <1>3, <1>4, <1>11, <2>1 DEF Uncut
<1>14. UpTo(R, nread[e]) <= R[k].lo /\ R[k].lo <= R[k].hi
       BY <1>2, <1>3, <1>13 DEF Ordered
<1> QED
  BY <1>3, <1>5, <1>9, <1>11, <1>12, <1>13, <1>14 DEF P, R, k

\* The reader moves behind a complete record, whatever that one brought.
LEMMA ConsumeFollows ==
  ASSUME SocketInv, NEW e \in End, NEW type, Complete(e, type), Consume(e), got' = got,
         records'[Peer[e]] = records[Peer[e]],
         Ascends(DataOf(e)', UpTo(records[Peer[e]], nread[e] + 1)),
         call'[e] \in {"read", "again", "refuse"} => pending'[e] = <<>>
  PROVE  Following(e)'
<1> DEFINE R == records[Peer[e]]
           k == nread[e] + 1
<1>1. nread'[e] = k /\ inLeft'[e] = 0 /\ got'[e] = got[e]
      BY SocketFacts DEF Consume, TypeOK
<1>2. k \in 1..Len(R) /\ Uncut(R, k) /\ got[e] = EndOf(R, k)
      BY CompleteFollows
<1>3. k <= Len(R) /\ EndOf(R, k) + 0 = EndOf(R, k)
  <2>1. R \in Seq(Record) /\ Len(R) \in Nat
        BY SocketFacts
  <2>2. EndOf(R, k) \in Nat
        BY <1>2, <2>1, RecordTypes
  <2> HIDE DEF R, k
  <2> QED
    BY <1>2, <2>1, <2>2
<1> QED
  BY <1>1, <1>2, <1>3 DEF Following

-----------------------------------------------------------------------------
(* The steps of one end *)

\* What a step of e has to establish, the other ends standing still.
Flows(e) == SentWell(e) /\ Resumes(e)' /\ Following(e)'

\* The stream goes on behind the last record as it did before.
LEMMA ResumesKept ==
  ASSUME SocketInv, NEW e \in End, records'[e] = records[e], acked'[e] = acked[e],
         InWrite(e) => InWrite(e)' \/ Closing(e)',
         Closing(e) => Closing(e)'
  PROVE  Resumes(e)'
<1>1. Resumes(e)
      BY SocketFacts
<1>2. Issued(e)' = Issued(e)
      BY DEF Issued, Newest
<1> QED
  BY <1>1, <1>2 DEF Resumes

\* Steps that move neither records nor data.
LEMMA QuietKeeps ==
  ASSUME SocketInv, NEW e \in End,
         \/ SendWouldBlock(e) \/ SendReset(e) \/ RecvWouldBlock(e) \/ RecvEof(e)
         \/ RecvReset(e) \/ Read(e) \/ CloseNotify(e) \/ ReadCloseNotify(e)
         \/ NetClose(e)
         \/ ReadAlert(e) /\ UNCHANGED <<inLeft, nread>>
         \/ RefuseRecord(e) /\ UNCHANGED <<records, outLeft>>
  PROVE  /\ UNCHANGED <<records, wire, outLeft, writing, acked, got, inLeft, nread, pending, rcvd>>
         /\ InWrite(e) => InWrite(e)' \/ Closing(e)'
         /\ Closing(e) => Closing(e)'
         /\ call'[e] \in {"read", "again", "refuse"} => pending[e] = <<>>
<1> USE DEF outVars, inVars
<1>1. UNCHANGED <<records, wire, outLeft, writing, acked, got, inLeft, nread, pending, rcvd>>
  <2>1. CASE \/ SendWouldBlock(e) \/ SendReset(e) \/ RecvWouldBlock(e) \/ RecvEof(e)
             \/ RecvReset(e) \/ Read(e)
        BY <2>1 DEF SendWouldBlock, SendReset, RecvWouldBlock, RecvEof, RecvReset, Read
  <2>2. CASE \/ CloseNotify(e) \/ ReadCloseNotify(e) \/ NetClose(e)
             \/ ReadAlert(e) /\ UNCHANGED <<inLeft, nread>>
             \/ RefuseRecord(e) /\ UNCHANGED <<records, outLeft>>
        BY <2>2 DEF CloseNotify, ReadCloseNotify, NetClose, ReadAlert, RefuseRecord
  <2> QED
    BY <2>1, <2>2
<1>2. TypeOK /\ Following(e)
      BY SocketFacts
<1>3. Issued(e)' = Issued(e)
      BY <1>1 DEF Issued, Newest
<1>4. /\ InWrite(e) => InWrite(e)' \/ Closing(e)'
      /\ Closing(e) => Closing(e)'
      /\ call'[e] \in {"read", "again", "refuse"} => pending[e] = <<>>
  <2>1. CASE SendWouldBlock(e)
    <3>1. /\ call'[e] = IF call[e] = "alert" THEN "flush" ELSE "idle"
          /\ call[e] \in {"flush", "close"} => ended'[e] # "no"
          /\ ended[e] # "no" => ended'[e] # "no"
          /\ outLeft[e] > 0
          BY <1>2, <2>1 DEF SendWouldBlock, Stop, Flushing, TypeOK
    <3>2. call'[e] # "refuse"
          BY <3>1
    <3> QED
      BY <1>1, <1>3, <3>1, <3>2 DEF InWrite, Closing
  <2>2. CASE \/ SendReset(e) \/ RecvReset(e) \/ NetClose(e)
    <3>1. call'[e] = "idle" /\ ended'[e] # "no"
      <4>1. CASE SendReset(e)
            BY <1>2, <4>1 DEF SendReset, Stop, TypeOK
      <4>2. CASE RecvReset(e)
            BY <1>2, <4>2 DEF RecvReset, Stop, TypeOK
      <4>3. CASE NetClose(e)
            BY <1>2, <4>3 DEF NetClose, Stop, TypeOK
      <4> QED
        BY <2>2, <4>1, <4>2, <4>3
    <3> QED
      BY <3>1 DEF Closing
  <2>3. CASE \/ CloseNotify(e) \/ ReadCloseNotify(e)
             \/ ReadAlert(e) /\ UNCHANGED <<inLeft, nread>>
             \/ RefuseRecord(e) /\ UNCHANGED <<records, outLeft>>
    <3>1. call'[e] \in {"flush", "alert"}
      <4>1. CASE CloseNotify(e) \/ ReadCloseNotify(e)
            BY <1>2, <4>1 DEF CloseNotify, ReadCloseNotify, TypeOK
      <4>2. CASE ReadAlert(e) /\ UNCHANGED <<inLeft, nread>>
            BY <1>2, <4>2 DEF ReadAlert, TypeOK
      <4>3. CASE RefuseRecord(e) /\ UNCHANGED <<records, outLeft>>
            BY <1>2, <4>3 DEF RefuseRecord, TypeOK
      <4> QED
        BY <2>3, <4>1, <4>2, <4>3
    <3> QED
      BY <3>1 DEF Closing
  <2>4. CASE Read(e) \/ RecvWouldBlock(e) \/ RecvEof(e)
    <3>1. /\ call[e] \in {"idle", "read", "again"} /\ call'[e] \in {"read", "idle"}
          /\ ended'[e] = ended[e]
          /\ call'[e] = "read" => pending[e] = <<>>
          BY <1>2, <2>4 DEF Read, Usable, RecvWouldBlock, RecvEof, Reading, TypeOK
    <3> QED
      BY <1>1, <1>3, <3>1 DEF InWrite, Closing
  <2> QED
    BY <2>1, <2>2, <2>3, <2>4
<1> QED
  BY <1>1, <1>4

\* They keep what the ends rely on.
LEMMA QuietFlows ==
  ASSUME SocketInv, NEW e \in End,
         \/ SendWouldBlock(e) \/ SendReset(e) \/ RecvWouldBlock(e) \/ RecvEof(e)
         \/ RecvReset(e) \/ Read(e) \/ CloseNotify(e) \/ ReadCloseNotify(e)
         \/ NetClose(e)
         \/ ReadAlert(e) /\ UNCHANGED <<inLeft, nread>>
         \/ RefuseRecord(e) /\ UNCHANGED <<records, outLeft>>
  PROVE  Flows(e)
<1>1. /\ UNCHANGED <<records, wire, outLeft, writing, acked, got, inLeft, nread, pending, rcvd>>
      /\ InWrite(e) => InWrite(e)' \/ Closing(e)'
      /\ Closing(e) => Closing(e)'
      /\ call'[e] \in {"read", "again", "refuse"} => pending[e] = <<>>
      BY QuietKeeps
<1>2. SentWell(e)
      BY <1>1, NothingSent
<1>3. Resumes(e)'
      BY <1>1, ResumesKept
<1>4. Following(e)'
      BY <1>1, <1>2, FollowingKept DEF SentWell
<1> QED
  BY <1>2, <1>3, <1>4 DEF Flows

\* A number of bytes is received.
LEMMA RecvFlows ==
  ASSUME SocketInv, NEW e \in End, Recv(e)
  PROVE  Flows(e)
<1>1. /\ UNCHANGED <<records, wire, outLeft, writing, acked, call, ended, nread, pending, rcvd>>
      /\ call[e] \in {"read", "again"}
      BY DEF Recv, Reading, outVars
<1>2. /\ TypeOK /\ Following(e)
      /\ got[e] \in Nat /\ inLeft[e] \in Nat /\ nread[e] \in Nat
      /\ Peer[e] \in End
      BY SocketFacts
<1>3. PICK n \in Int : got'[e] = got[e] + n /\ inLeft'[e] = inLeft[e] + n
      BY <1>2 DEF Recv, TypeOK
<1>4. EndOf(records[Peer[e]], nread[e]) \in Nat
  <2>1. records[Peer[e]] \in Seq(Record) /\ Len(records[Peer[e]]) \in Nat
        BY <1>2, SocketFacts
  <2>2. nread[e] \in 0..Len(records[Peer[e]])
        BY <1>2, <2>1 DEF Following
  <2> QED
    BY <2>1, <2>2, EndTypes
<1>5. got'[e] = EndOf(records[Peer[e]], nread[e]) + inLeft'[e]
      BY <1>2, <1>3, <1>4 DEF Following
<1>6. DataOf(e)' = DataOf(e)
      BY <1>1 DEF DataOf
<1>7. Following(e)'
      BY <1>1, <1>2, <1>5, <1>6 DEF Following
<1>8. InWrite(e)' = InWrite(e) /\ Closing(e)' = Closing(e)
      BY <1>1 DEF InWrite, Closing, Issued, Newest
<1>9. Resumes(e)'
      BY <1>1, <1>8, ResumesKept
<1>10. SentWell(e)
      BY <1>1, NothingSent
<1> QED
  BY <1>7, <1>9, <1>10 DEF Flows

\* An end that has read a record, an alert or nothing writes on as before.
LEMMA ReaderResumes ==
  ASSUME SocketInv, NEW e \in End, call[e] \in {"idle", "read", "again", "refuse"},
         call'[e] # "refuse",
         UNCHANGED <<records, outLeft, writing, acked>>,
         ended'[e] = ended[e] \/ ended'[e] # "no"
  PROVE  Resumes(e)'
<1>1. Issued(e)' = Issued(e)
      BY DEF Issued, Newest
<1>2. InWrite(e) => InWrite(e)'
      BY <1>1 DEF InWrite
<1>3. Closing(e) => Closing(e)'
      BY DEF Closing
<1> QED
  BY <1>2, <1>3, ResumesKept

\* The data of a record are above all that came before them.
LEMMA ReadDataFlows ==
  ASSUME SocketInv, NEW e \in End, ReadData(e)
  PROVE  Flows(e)
<1> DEFINE R == records[Peer[e]]
           k == nread[e] + 1
           b == [i \in 1..(R[k].hi - R[k].lo) |-> R[k].lo + i]
<1>1. /\ Complete(e, "data") /\ Consume(e) /\ got' = got
      /\ call[e] \in {"read", "again"}
      /\ pending' = [pending EXCEPT ![e] = b]
      /\ UNCHANGED <<records, wire, outLeft, writing, acked, rcvd, ended>>
      BY DEF ReadData, Complete, Reading, outVars
<1>2. TypeOK /\ Following(e) /\ pending[e] = <<>> /\ rcvd[e] \in Seq(Nat)
      BY <1>1, SocketFacts DEF Following
<1>3. call'[e] = "idle" /\ pending'[e] = b
      BY <1>1, <1>2 DEF ReadData, TypeOK
<1>4. /\ UpTo(R, nread[e]) \in Nat /\ UpTo(R, nread[e]) <= R[k].lo
      /\ R[k].lo <= R[k].hi /\ R[k].hi = UpTo(R, k)
      /\ R[k].lo \in Nat /\ R[k].hi \in Nat
      BY <1>1, CompleteFollows
<1>5. Ascends(rcvd[e], UpTo(R, nread[e]))
      BY <1>2, DataType DEF Following
<1>6. /\ b \in Seq(Nat)
      /\ \A i \in 1..Len(b) :
           /\ b[i] <= R[k].hi
           /\ b[i] > 0 => UpTo(R, nread[e]) < b[i] /\ \A j \in 1..(i - 1) : b[j] < b[i]
  <2> DEFINE lo == R[k].lo
             hi == R[k].hi
             top == UpTo(R, nread[e])
  <2>1. b = [i \in 1..(hi - lo) |-> lo + i]
        OBVIOUS
  <2>2. lo \in Nat /\ hi \in Nat /\ lo <= hi /\ top \in Nat /\ top <= lo
        BY <1>4
  <2> HIDE DEF lo, hi, top, b
  <2>3. hi - lo \in Nat /\ b \in [1..(hi - lo) -> Nat]
        BY <2>1, <2>2
  <2>4. b \in Seq(Nat) /\ Len(b) = hi - lo
        BY <2>3, FunctionIsSeq
  <2>5. \A i \in 1..Len(b) :
           /\ b[i] <= hi
           /\ b[i] > 0 => top < b[i] /\ \A j \in 1..(i - 1) : b[j] < b[i]
        BY <2>1, <2>2, <2>4
  <2> QED
    BY <2>4, <2>5 DEF lo, hi, top
<1> HIDE DEF b
<1>7. Ascends(rcvd[e] \o b, UpTo(R, k))
  <2>1. UpTo(R, nread[e]) <= R[k].hi
        BY <1>4
  <2> HIDE DEF R, k
  <2> QED
    BY <1>2, <1>4, <1>5, <1>6, <2>1, AscendsJoin
<1>8. DataOf(e)' = rcvd[e] \o b
      BY <1>1, <1>3 DEF DataOf
<1>9. Following(e)'
      BY <1>1, <1>3, <1>7, <1>8, ConsumeFollows
<1>10. Resumes(e)'
      BY <1>1, <1>3, ReaderResumes
<1>11. SentWell(e)
      BY <1>1, NothingSent
<1> QED
  BY <1>9, <1>10, <1>11 DEF Flows

\* Records without data move the reader only.
LEMMA ReadNothingFlows ==
  ASSUME SocketInv, NEW e \in End,
         ReadEmpty(e) \/ (ReadAlert(e) /\ Complete(e, "refuse") /\ Consume(e))
  PROVE  Flows(e)
<1> DEFINE R == records[Peer[e]]
           k == nread[e] + 1
<1>1. PICK type : Complete(e, type) /\ Consume(e)
      BY DEF ReadEmpty
<1>2. /\ got' = got /\ call[e] \in {"read", "again"}
      /\ UNCHANGED <<records, wire, outLeft, writing, acked, rcvd, pending>>
      BY <1>1 DEF ReadEmpty, ReadAlert, Complete, Reading, outVars
<1>3. TypeOK /\ Following(e) /\ pending[e] = <<>>
      BY <1>2, SocketFacts DEF Following
<1>4. call'[e] # "refuse" /\ (ended'[e] = ended[e] \/ ended'[e] # "no")
      BY <1>3 DEF ReadEmpty, ReadAlert, Stop, TypeOK
<1>5. /\ UpTo(R, nread[e]) \in Nat /\ UpTo(R, k) \in Nat
      /\ UpTo(R, nread[e]) <= UpTo(R, k)
  <2>1. /\ UpTo(R, nread[e]) \in Nat /\ UpTo(R, nread[e]) <= R[k].lo
        /\ R[k].lo <= R[k].hi /\ R[k].hi = UpTo(R, k)
        /\ R[k].lo \in Nat /\ R[k].hi \in Nat
        BY <1>1, CompleteFollows
  <2> QED
    BY <2>1
<1>6. Ascends(DataOf(e), UpTo(R, k))
  <2>1. DataOf(e) \in Seq(Nat) /\ Ascends(DataOf(e), UpTo(R, nread[e]))
        BY <1>3, DataType DEF Following
  <2> HIDE DEF R, k
  <2> QED
    BY <1>5, <2>1, AscendsHigher
<1>7. DataOf(e)' = DataOf(e)
      BY <1>2 DEF DataOf
<1>8. Following(e)'
      BY <1>1, <1>2, <1>3, <1>6, <1>7, ConsumeFollows
<1>9. Resumes(e)'
      BY <1>2, <1>4, ReaderResumes
<1>10. SentWell(e)
      BY <1>2, NothingSent
<1> QED
  BY <1>8, <1>9, <1>10 DEF Flows

\* What is handed out was held back before.
LEMMA ReadPendingFlows ==
  ASSUME SocketInv, NEW e \in End, ReadPending(e)
  PROVE  Flows(e) /\ DataOf(e)' = DataOf(e)
<1> DEFINE p == pending[e]
<1>1. /\ call[e] = "idle" /\ p # <<>>
      /\ UNCHANGED <<records, wire, outLeft, writing, acked, call, ended, got, inLeft, nread>>
      BY DEF ReadPending, Usable, outVars
<1>2. TypeOK /\ Following(e) /\ p \in Seq(Nat) /\ rcvd[e] \in Seq(Nat)
      BY SocketFacts
<1>3. PICK len \in ReadLens :
        /\ rcvd'[e] = rcvd[e] \o SubSeq(p, 1, Least(len, Len(p)))
        /\ pending'[e] = SubSeq(p, Least(len, Len(p)) + 1, Len(p))
      BY <1>2 DEF ReadPending, TypeOK
<1> DEFINE n == Least(len, Len(p))
<1>4. n \in 1..Len(p)
  <2>1. Len(p) \in Nat /\ Len(p) # 0 /\ len \in Nat \ {0}
        BY <1>1, <1>2, LenProperties, EmptySeq
  <2>2. n = len \/ n = Len(p)
        BY DEF Least
  <2>3. n \in Nat /\ n <= Len(p)
        BY <2>1, LeastNat
  <2> HIDE DEF n, p
  <2> QED
    BY <2>1, <2>2, <2>3
<1>5. (rcvd[e] \o SubSeq(p, 1, n)) \o SubSeq(p, n + 1, Len(p)) = rcvd[e] \o p
  <2> HIDE DEF n, p
  <2> QED
    BY <1>2, <1>4, MoveParts
<1>6. DataOf(e)' = DataOf(e)
      BY <1>3, <1>5 DEF DataOf
<1>7. Following(e)'
      BY <1>1, <1>2, <1>6 DEF Following
<1>8. Resumes(e)'
      BY <1>1, ReaderResumes
<1>9. SentWell(e)
      BY <1>1, NothingSent
<1> QED
  BY <1>6, <1>7, <1>8, <1>9 DEF Flows

\* The bytes of a HelloRequest are below all data.
LEMMA RefuseReturnFlows ==
  ASSUME SocketInv, NEW e \in End, RefuseReturn(e)
  PROVE  Flows(e)
<1> DEFINE b == <<0, 0, 0, 0>>
           top == UpTo(records[Peer[e]], nread[e])
<1>1. /\ call[e] = "refuse"
      /\ pending' = [pending EXCEPT ![e] = b]
      /\ UNCHANGED <<records, wire, outLeft, writing, acked, rcvd, ended, got, inLeft, nread>>
      BY DEF RefuseReturn, outVars
<1>2. TypeOK /\ Following(e) /\ pending[e] = <<>> /\ rcvd[e] \in Seq(Nat)
      BY <1>1, SocketFacts DEF Following
<1>3. call'[e] = "idle" /\ pending'[e] = b
      BY <1>1, <1>2 DEF RefuseReturn, TypeOK
<1>4. Ascends(rcvd[e], top)
      BY <1>2, DataType DEF Following
<1>5. top \in Nat
  <2>1. Peer[e] \in End
        BY SocketFacts
  <2>2. /\ records[Peer[e]] \in Seq(Record) /\ Len(records[Peer[e]]) \in Nat
        /\ nread[e] \in Nat
        BY <2>1, SocketFacts
  <2>3. nread[e] \in 0..Len(records[Peer[e]])
        BY <1>2, <2>2 DEF Following
  <2> QED
    BY <2>2, <2>3, EndTypes
<1>6. b \in Seq(Nat) /\ \A i \in 1..Len(b) : b[i] = 0
      OBVIOUS
<1> HIDE DEF b, top
<1>7. Ascends(rcvd[e] \o b, top)
  <2>1. \A i \in 1..Len(b) :
          /\ b[i] <= top
          /\ b[i] > 0 => top < b[i] /\ \A j \in 1..(i - 1) : b[j] < b[i]
        BY <1>5, <1>6
  <2> QED
    BY <1>2, <1>4, <1>5, <1>6, <2>1, AscendsJoin
<1>8. DataOf(e)' = rcvd[e] \o b
      BY <1>1, <1>3 DEF DataOf
<1>9. Following(e)'
      BY <1>1, <1>2, <1>3, <1>7, <1>8 DEF Following, top
<1>10. Resumes(e)'
      BY <1>1, <1>3, ReaderResumes
<1>11. SentWell(e)
      BY <1>1, NothingSent
<1> QED
  BY <1>9, <1>10, <1>11 DEF Flows

\* Bytes of the newest record go to the wire.
LEMMA SendsFlows ==
  ASSUME SocketInv, NEW e \in End, Sends(e)
  PROVE  Flows(e)
<1>1. /\ UNCHANGED <<records, writing, acked, call, ended, got, inLeft, nread, pending, rcvd>>
      /\ Flushing(e)
      BY DEF Sends, SendHeader, SendBody, inVars
<1>2. TypeOK /\ Following(e) /\ outLeft[e] \in Nat
      BY SocketFacts
<1>3. PICK n \in 1..outLeft[e] :
        /\ outLeft' = [outLeft EXCEPT ![e] = @ - n]
        /\ \/ wire' = [wire EXCEPT ![e] = @ \o HeaderBytes(e, n)]
           \/ wire' = [wire EXCEPT ![e] = @ \o BodyBytes(e, n)]
  <2>1. CASE SendHeader(e)
    <3>1. Newest(e) \in Record
          BY <1>1, SocketFacts, NewestType DEF Flushing, TypeOK
    <3>2. Newest(e).plen \in Nat /\ outLeft[e] \in Nat
          BY <1>2, <3>1 DEF Record
    <3>3. \A n \in 1..HeaderLeft(e) : n \in 1..outLeft[e]
          BY <3>2 DEF HeaderLeft
    <3> QED
      BY <2>1, <3>3 DEF SendHeader
  <2>2. CASE SendBody(e)
        BY <2>2 DEF SendBody
  <2> QED
    BY <2>1, <2>2 DEF Sends
<1>4. SentWell(e)
      BY <1>1, <1>3, BytesSent DEF Flushing
<1>5. InWrite(e) => InWrite(e)' \/ Closing(e)'
      BY <1>1 DEF InWrite, Closing, Flushing, Issued, Newest
<1>6. Resumes(e)'
      BY <1>1, <1>5, ResumesKept DEF Closing
<1>7. Following(e)'
      BY <1>1, <1>2, <1>4, FollowingKept DEF SentWell, Following
<1> QED
  BY <1>4, <1>6, <1>7 DEF Flows

\* What is acknowledged is what the records of the call carry.
LEMMA WriteReturnFlows ==
  ASSUME SocketInv, NEW e \in End, WriteReturn(e)
  PROVE  Flows(e)
<1>1. /\ UNCHANGED <<records, wire, outLeft, ended, got, inLeft, nread, pending, rcvd>>
      /\ call[e] = "write" /\ outLeft[e] = 0
      BY DEF WriteReturn, outVars, inVars
<1>2. /\ TypeOK /\ Following(e) /\ Resumes(e)
      /\ acked[e] \in Nat /\ Issued(e) \in Nat
      BY SocketFacts
<1>3. call'[e] = "idle"
      BY <1>2 DEF WriteReturn, TypeOK
<1>4. PICK len \in writing[e] : acked'[e] = acked[e] + Least(len, MaxContent)
      BY <1>2 DEF WriteReturn, TypeOK
<1>5. len \in Nat /\ Least(len, MaxContent) \in Nat
      BY <1>2, <1>4, LeastNat DEF TypeOK
<1>6. Issued(e)' = Issued(e)
      BY <1>1 DEF Issued, Newest
<1>7. Issued(e) <= acked[e] => Issued(e) <= acked'[e]
      BY <1>2, <1>4, <1>5
<1>8. InWrite(e) => Issued(e) <= acked'[e]
  <2> SUFFICES ASSUME InWrite(e) PROVE Issued(e) = acked'[e]
    BY <1>2, <1>4, <1>5
  <2> QED
    BY <1>4 DEF InWrite
<1>9. Closing(e) => Closing(e)'
      BY <1>1 DEF Closing
<1>10. Resumes(e)'
       BY <1>1, <1>2, <1>6, <1>7, <1>8, <1>9 DEF Resumes
<1>11. SentWell(e)
       BY <1>1, NothingSent
<1>12. Following(e)'
       BY <1>1, <1>3, <1>11, FollowingKept DEF SentWell
<1> QED
  BY <1>10, <1>11, <1>12 DEF Flows

\* A record is prepared and waits.
LEMMA RecordPrepared ==
  ASSUME SocketInv, NEW e \in End, NEW type \in Types, NEW lo \in Nat, NEW hi \in Nat,
         NEW plen \in Nat, lo <= hi,
         Uncut(records[e], Len(records[e])) /\ outLeft[e] = 0 => Issued(e) <= lo,
         WriteRecord(e, type, lo, hi, plen), wire' = wire
  PROVE  /\ SentWell(e)
         /\ Issued(e)' = hi
         /\ Uncut(records'[e], Len(records'[e])) =>
              Uncut(records[e], Len(records[e])) /\ outLeft[e] = 0
<1> DEFINE r == [type |-> type, lo |-> lo, hi |-> hi, plen |-> plen + MacLen,
                 off |-> Len(wire[e])]
<1>1. TypeOK /\ wire[e] \in Seq(Byte) /\ Len(wire[e]) \in Nat
      BY SocketFacts
<1>2. /\ r \in Record /\ r.off = Len(wire[e]) /\ r.lo = lo /\ r.hi = hi
      /\ Size(r) = HdrLen + plen + MacLen /\ Size(r) \in Nat
      BY <1>1 DEF Record, Size
<1>3. /\ records' = [records EXCEPT ![e] = Append(@, r)]
      /\ outLeft' = [outLeft EXCEPT ![e] = Size(r)]
      BY <1>2 DEF WriteRecord
<1> HIDE DEF r
<1> DEFINE s == << >>
           left == Size(r)
<1>4. wire' = [wire EXCEPT ![e] = @ \o s]
  <2>1. wire[e] \o s = wire[e]
        BY <1>1, ConcatEmptySeq
  <2> QED
    BY <1>1, <2>1 DEF TypeOK
<1>5. /\ s \in Seq(Byte) /\ Len(s) + left = Size(r) /\ left \in Nat
      /\ \A i \in 1..Len(s) : s[i] = <<Len(records[e]) + 1, i>>
      BY <1>2, EmptySeq
<1>6. /\ outLeft' = [outLeft EXCEPT ![e] = left]
      /\ Uncut(records[e], Len(records[e])) /\ outLeft[e] = 0 => Issued(e) <= r.lo
      /\ r.lo <= r.hi
      BY <1>2, <1>3
<1> HIDE DEF s, left
<1>7. /\ SentWell(e)
      /\ Issued(e)' = r.hi
      /\ Uncut(records'[e], Len(records'[e])) =>
           Uncut(records[e], Len(records[e])) /\ outLeft[e] = 0
  <2>1. /\ r \in Record /\ r.off = Len(wire[e]) /\ r.lo <= r.hi
        /\ Uncut(records[e], Len(records[e])) /\ outLeft[e] = 0 => Issued(e) <= r.lo
        BY <1>2, <1>6
  <2>2. /\ records' = [records EXCEPT ![e] = Append(@, r)]
        /\ wire' = [wire EXCEPT ![e] = @ \o s]
        /\ outLeft' = [outLeft EXCEPT ![e] = left]
        BY <1>3, <1>4, <1>6
  <2> QED
    BY ONLY SocketInv, e \in End, <1>5, <2>1, <2>2, RecordSent, ZenonT(60)
<1> QED
  BY <1>2, <1>7

\* A write prepares its record behind what was acknowledged, or only flushes.
LEMMA WriteFlows ==
  ASSUME SocketInv, NEW e \in End, Write(e)
  PROVE  Flows(e)
<1>1. /\ UNCHANGED <<wire, acked, ended, got, inLeft, nread, pending, rcvd>>
      /\ call[e] = "idle" /\ ended[e] = "no"
      BY DEF Write, Usable, inVars
<1>2. /\ TypeOK /\ Following(e) /\ Resumes(e)
      /\ acked[e] \in Nat /\ Issued(e) \in Nat
      BY SocketFacts
<1>3. call'[e] = "write"
      BY <1>2 DEF Write, TypeOK
<1>4. PICK len \in WriteLens :
        /\ writing[e] # {} => writing[e] = {len}
        /\ writing'[e] = {len}
        /\ IF outLeft[e] # 0
             THEN UNCHANGED <<records, outLeft>>
             ELSE WriteRecord(e, "data", acked[e], acked[e] + Least(len, MaxContent),
                              Least(len, MaxContent))
      BY <1>2 DEF Write, TypeOK
<1>5. len \in Nat /\ Least(len, MaxContent) \in Nat
      BY LeastNat
<1>6. SentWell(e) /\ Resumes(e)'
  <2>1. CASE outLeft[e] # 0
    <3>1. records' = records /\ outLeft' = outLeft /\ Issued(e)' = Issued(e)
          BY <1>4, <2>1 DEF Issued, Newest
    <3>2. InWrite(e) => InWrite(e)'
          BY <1>1, <1>3, <1>4, <3>1 DEF InWrite
    <3>3. ~Closing(e)
          BY <1>1 DEF Closing
    <3> QED
      BY <1>1, <3>1, <3>2, <3>3, NothingSent, ResumesKept
  <2>2. CASE outLeft[e] = 0
    <3>1. Uncut(records[e], Len(records[e])) => Issued(e) <= acked[e]
          BY <1>1, <1>2, <2>2 DEF Resumes, InWrite, Closing
    <3>2. /\ acked[e] + Least(len, MaxContent) \in Nat
          /\ acked[e] <= acked[e] + Least(len, MaxContent)
          BY <1>2, <1>5
    <3>3. SentWell(e) /\ Issued(e)' = acked[e] + Least(len, MaxContent)
          BY <1>1, <1>2, <1>4, <1>5, <2>2, <3>1, <3>2, RecordPrepared DEF Types
    <3>4. InWrite(e)'
          BY <1>1, <1>3, <1>4, <3>3 DEF InWrite
    <3> QED
      BY <3>3, <3>4 DEF Resumes
  <2> QED
    BY <2>1, <2>2
<1>7. Following(e)'
      BY <1>1, <1>3, <1>6, FollowingKept DEF SentWell
<1> QED
  BY <1>6, <1>7 DEF Flows

\* An alert that ends what e sends.
LEMMA AlertFlows ==
  ASSUME SocketInv, NEW e \in End, NEW type \in Types, WriteMessage(e, type, 2),
         call'[e] \in {"alert", "close"},
         UNCHANGED <<wire, got, inLeft, nread, pending, rcvd>>
  PROVE  Flows(e)
<1>1. Issued(e) \in Nat
      BY SocketFacts
<1>2. SentWell(e)
      BY <1>1, RecordPrepared DEF WriteMessage
<1>3. Resumes(e)'
      BY DEF Resumes, Closing
<1>4. Following(e)'
      BY <1>2, FollowingKept DEF SentWell
<1> QED
  BY <1>2, <1>3, <1>4 DEF Flows

\* The alert against a renegotiation takes the place of nothing the stream can
\* go on without.
LEMMA ReadHelloFlows ==
  ASSUME SocketInv, NEW e \in End, ReadHello(e)
  PROVE  Flows(e)
<1> DEFINE R == records[Peer[e]]
           k == nread[e] + 1
<1>1. /\ Complete(e, "hello") /\ Consume(e) /\ WriteMessage(e, "refuse", 2)
      /\ call[e] \in {"read", "again"}
      /\ UNCHANGED <<writing, acked, wire, got, pending, rcvd, ended>>
      BY DEF ReadHello, Complete, Reading
<1>2. /\ TypeOK /\ Following(e) /\ Resumes(e) /\ Issued(e) \in Nat
      /\ pending[e] = <<>> /\ Peer[e] \in End /\ Peer[e] # e
      BY <1>1, SocketFacts DEF Following
<1>3. call'[e] = "refuse"
      BY <1>2 DEF ReadHello, TypeOK
<1>4. /\ SentWell(e) /\ Issued(e)' = Issued(e)
      /\ Uncut(records'[e], Len(records'[e])) =>
           Uncut(records[e], Len(records[e])) /\ outLeft[e] = 0
      BY <1>1, <1>2, RecordPrepared DEF WriteMessage, Types
<1>5. Resumes(e)'
  <2>1. outLeft[e] = 0 => ~InWrite(e)
        BY <1>1, <1>2 DEF InWrite
  <2>2. Closing(e) => Closing(e)'
        BY <1>1 DEF Closing
  <2> QED
    BY <1>1, <1>2, <1>4, <2>1, <2>2 DEF Resumes
<1>6. /\ UpTo(R, nread[e]) \in Nat /\ UpTo(R, k) \in Nat
      /\ UpTo(R, nread[e]) <= UpTo(R, k)
  <2>1. /\ UpTo(R, nread[e]) \in Nat /\ UpTo(R, nread[e]) <= R[k].lo
        /\ R[k].lo <= R[k].hi /\ R[k].hi = UpTo(R, k)
        /\ R[k].lo \in Nat /\ R[k].hi \in Nat
        BY <1>1, CompleteFollows
  <2> QED
    BY <2>1
<1>7. Ascends(DataOf(e), UpTo(R, k))
  <2>1. DataOf(e) \in Seq(Nat) /\ Ascends(DataOf(e), UpTo(R, nread[e]))
        BY <1>2, DataType DEF Following
  <2> HIDE DEF R, k
  <2> QED
    BY <1>6, <2>1, AscendsHigher
<1>8. DataOf(e)' = DataOf(e)
      BY <1>1 DEF DataOf
<1>9. Following(e)'
  <2>1. records'[Peer[e]] = records[Peer[e]]
        BY <1>2, <1>4 DEF SentWell
  <2> QED
    BY <1>1, <1>2, <1>7, <1>8, <2>1, ConsumeFollows
<1> QED
  BY <1>4, <1>5, <1>9 DEF Flows

\* The request itself is sent between two records.
LEMMA HelloRequestFlows ==
  ASSUME SocketInv, NEW e \in End, HelloRequest(e)
  PROVE  Flows(e)
<1> DEFINE r == [type |-> "hello", lo |-> Issued(e), hi |-> Issued(e),
                 plen |-> 4 + MacLen, off |-> Len(wire[e])]
           s == [j \in 1..(HdrLen + 4 + MacLen) |-> <<Len(records[e]) + 1, j>>]
           left == 0
<1>1. /\ UNCHANGED <<call, outLeft, writing, acked, ended, got, inLeft, nread, pending, rcvd>>
      /\ call[e] = "idle" /\ ended[e] = "no" /\ outLeft[e] = 0
      BY DEF HelloRequest, Usable, inVars
<1>2. /\ TypeOK /\ Following(e) /\ Resumes(e)
      /\ acked[e] \in Nat /\ Issued(e) \in Nat
      /\ Len(records[e]) \in Nat /\ Len(wire[e]) \in Nat
      BY SocketFacts
<1>3. /\ r \in Record /\ r.off = Len(wire[e]) /\ r.lo = Issued(e) /\ r.hi = Issued(e)
      /\ Size(r) = HdrLen + 4 + MacLen /\ Size(r) \in Nat
      BY <1>2 DEF Record, Types, Size
<1>4. /\ s \in Seq(Byte) /\ Len(s) = Size(r)
      /\ \A i \in 1..Len(s) : s[i] = <<Len(records[e]) + 1, i>>
  <2>1. s \in [1..(HdrLen + 4 + MacLen) -> Byte] /\ HdrLen + 4 + MacLen \in Nat
        BY <1>2 DEF Byte
  <2>2. s \in Seq(Byte) /\ Len(s) = HdrLen + 4 + MacLen
        BY ONLY <2>1, FunctionIsSeq
  <2> QED
    BY <1>3, <2>2
<1>5. /\ records' = [records EXCEPT ![e] = Append(@, r)]
      /\ wire' = [wire EXCEPT ![e] = @ \o s]
      /\ outLeft' = [outLeft EXCEPT ![e] = left]
      BY <1>1, <1>2 DEF HelloRequest, TypeOK
<1>6. /\ r.lo <= r.hi
      /\ Uncut(records[e], Len(records[e])) /\ outLeft[e] = 0 => Issued(e) <= r.lo
      BY <1>2, <1>3
<1>7. Len(s) + left = Size(r) /\ left \in Nat
      BY <1>3, <1>4
<1> HIDE DEF r, s, left
<1>8. /\ SentWell(e) /\ Issued(e)' = r.hi
      /\ Uncut(records'[e], Len(records'[e])) =>
           Uncut(records[e], Len(records[e])) /\ outLeft[e] = 0
  <2>1. r \in Record /\ r.off = Len(wire[e]) /\ r.lo <= r.hi
        BY <1>3, <1>6
  <2>2. Uncut(records[e], Len(records[e])) /\ outLeft[e] = 0 => Issued(e) <= r.lo
        BY <1>6
  <2>3. s \in Seq(Byte) /\ \A i \in 1..Len(s) : s[i] = <<Len(records[e]) + 1, i>>
        BY <1>4
  <2> QED
    BY ONLY SocketInv, e \in End, <1>5, <1>7, <2>1, <2>2, <2>3, RecordSent, ZenonT(60)
<1>9. Resumes(e)'
      BY <1>1, <1>2, <1>3, <1>8 DEF Resumes, InWrite, Closing
<1>10. Following(e)'
       BY <1>1, <1>8, FollowingKept DEF SentWell
<1> QED
  BY <1>8, <1>9, <1>10 DEF Flows

-----------------------------------------------------------------------------
(* One step *)

\* A step of e leaves the other ends alone, but for what is on their wire.
LEMMA OthersStandStill ==
  ASSUME SocketInv, NEW e \in End, NEW f \in End \ {e},
         \/ Sends(e) \/ SendWouldBlock(e) \/ SendReset(e)
         \/ Recv(e) \/ RecvWouldBlock(e) \/ RecvEof(e) \/ RecvReset(e)
         \/ RefuseRecord(e)
         \/ Reads(e)
         \/ Returns(e)
         \/ Write(e) \/ Read(e) \/ ReadPending(e) \/ CloseNotify(e)
         \/ HelloRequest(e)
  PROVE  Still(f) /\ eof'[f] = eof[f] /\ shut'[f] = shut[f]
<1> USE DEF Still, outVars, inVars, Stop
<1>1. TypeOK
      BY SocketFacts
<1>2. CASE Sends(e)
      BY <1>1, <1>2 DEF Sends, SendHeader, SendBody, TypeOK
<1>3. CASE SendWouldBlock(e) \/ SendReset(e)
  <2>1. CASE SendWouldBlock(e)
        BY <1>1, <2>1 DEF SendWouldBlock, TypeOK
  <2>2. CASE SendReset(e)
        BY <1>1, <2>2 DEF SendReset, TypeOK
  <2> QED
    BY <1>3, <2>1, <2>2
<1>4. CASE Recv(e) \/ RecvWouldBlock(e) \/ RecvEof(e) \/ RecvReset(e)
  <2>1. CASE Recv(e)
        BY <1>1, <2>1 DEF Recv, TypeOK
  <2>2. CASE RecvWouldBlock(e)
        BY <1>1, <2>2 DEF RecvWouldBlock, TypeOK
  <2>3. CASE RecvEof(e)
        BY <1>1, <2>3 DEF RecvEof, TypeOK
  <2>4. CASE RecvReset(e)
        BY <1>1, <2>4 DEF RecvReset, TypeOK
  <2> QED
    BY <1>4, <2>1, <2>2, <2>3, <2>4
<1>5. CASE RefuseRecord(e)
      BY <1>1, <1>5 DEF RefuseRecord, WriteMessage, WriteRecord, TypeOK
<1>6. CASE ReadData(e) \/ ReadEmpty(e)
  <2>1. CASE ReadData(e)
        BY <1>1, <2>1 DEF ReadData, Consume, TypeOK
  <2>2. CASE ReadEmpty(e)
        BY <1>1, <2>2 DEF ReadEmpty, Consume, TypeOK
  <2> QED
    BY <1>6, <2>1, <2>2
<1>7. CASE ReadHello(e)
      BY <1>1, <1>7 DEF ReadHello, Consume, WriteMessage, WriteRecord, TypeOK
<1>8. CASE ReadAlert(e) \/ ReadCloseNotify(e)
  <2>1. CASE ReadAlert(e)
        BY <1>1, <2>1 DEF ReadAlert, Consume, TypeOK
  <2>2. CASE ReadCloseNotify(e)
        BY <1>1, <2>2 DEF ReadCloseNotify, Consume, TypeOK
  <2> QED
    BY <1>8, <2>1, <2>2
<1>9. CASE WriteReturn(e) \/ RefuseReturn(e) \/ NetClose(e)
  <2>1. CASE WriteReturn(e)
        BY <1>1, <2>1 DEF WriteReturn, TypeOK
  <2>2. CASE RefuseReturn(e)
        BY <1>1, <2>2 DEF RefuseReturn, TypeOK
  <2>3. CASE NetClose(e)
        BY <1>1, <2>3 DEF NetClose, TypeOK
  <2> QED
    BY <1>9, <2>1, <2>2, <2>3
<1>10. CASE CloseAlert(e)
       BY <1>1, <1>10 DEF CloseAlert, WriteMessage, WriteRecord, TypeOK
<1>11. CASE Write(e)
       BY <1>1, <1>11 DEF Write, WriteRecord, TypeOK
<1>12. CASE Read(e) \/ ReadPending(e) \/ CloseNotify(e)
  <2>1. CASE Read(e)
        BY <1>1, <2>1 DEF Read, TypeOK
  <2>2. CASE ReadPending(e)
        BY <1>1, <2>2 DEF ReadPending, TypeOK
  <2>3. CASE CloseNotify(e)
        BY <1>1, <2>3 DEF CloseNotify, TypeOK
  <2> QED
    BY <1>12, <2>1, <2>2, <2>3
<1>13. CASE HelloRequest(e)
       BY <1>1, <1>13 DEF HelloRequest, TypeOK
<1> QED
  BY <1>2, <1>3, <1>4, <1>5, <1>6, <1>7, <1>8, <1>9, <1>10, <1>11, <1>12, <1>13
     DEF Reads, Returns

\* An end that stands still keeps its part of SocketInv.
LEMMA StillFlows ==
  ASSUME SocketInv, Grows, NEW f \in End, Still(f), wire'[f] = wire[f]
  PROVE  SenderInv(f)' /\ Resumes(f)' /\ Following(f)'
<1>1. SenderInv(f) /\ Resumes(f) /\ Following(f)
      BY SocketFacts
<1>2. SenderInv(f)'
      BY <1>1 DEF SenderInv, WireLength, Still
<1>3. Resumes(f)'
  <2>1. InWrite(f) => InWrite(f)'
        BY DEF Still, InWrite, Issued, Newest
  <2>2. Closing(f) => Closing(f)'
        BY DEF Still, Closing
  <2> QED
    BY <2>1, <2>2, ResumesKept DEF Still
<1>4. Following(f)'
      BY <1>1, FollowingKept DEF Still, Following
<1> QED
  BY <1>2, <1>3, <1>4

\* Every step of an end is one of the above.
LEMMA StepFlows ==
  ASSUME SocketInv, NEW e \in End,
         \/ Sends(e) \/ SendWouldBlock(e) \/ SendReset(e)
         \/ Recv(e) \/ RecvWouldBlock(e) \/ RecvEof(e) \/ RecvReset(e)
         \/ RefuseRecord(e)
         \/ Reads(e)
         \/ Returns(e)
         \/ Write(e) \/ Read(e) \/ ReadPending(e) \/ CloseNotify(e)
         \/ HelloRequest(e)
  PROVE  Flows(e)
<1>1. TypeOK
      BY SocketFacts
<1>2. CASE RefuseRecord(e)
  <2>1. CASE UNCHANGED <<records, outLeft>>
        BY <1>2, <2>1, QuietFlows
  <2>2. CASE WriteMessage(e, "fatal", 2) /\ call' = [call EXCEPT ![e] = "alert"]
        BY <1>1, <1>2, <2>2, AlertFlows DEF RefuseRecord, inVars, Types, TypeOK
  <2> QED
    BY <1>2, <2>1, <2>2 DEF RefuseRecord
<1>3. CASE CloseAlert(e)
      BY <1>1, <1>3, AlertFlows DEF CloseAlert, inVars, Types, TypeOK
<1>4. CASE ReadAlert(e)
  <2>1. CASE UNCHANGED <<inLeft, nread>>
        BY <1>4, <2>1, QuietFlows
  <2>2. CASE Complete(e, "refuse") /\ Consume(e)
        BY <1>4, <2>2, ReadNothingFlows
  <2> QED
    BY <1>4, <2>1, <2>2 DEF ReadAlert
<1>5. CASE \/ SendWouldBlock(e) \/ SendReset(e) \/ RecvWouldBlock(e) \/ RecvEof(e)
           \/ RecvReset(e) \/ Read(e) \/ CloseNotify(e) \/ ReadCloseNotify(e)
           \/ NetClose(e)
      BY <1>5, QuietFlows
<1>6. CASE Sends(e) \/ Recv(e) \/ WriteReturn(e) \/ RefuseReturn(e)
      BY <1>6, SendsFlows, RecvFlows, WriteReturnFlows, RefuseReturnFlows
<1>7. CASE ReadData(e) \/ ReadEmpty(e) \/ ReadHello(e) \/ ReadPending(e)
      BY <1>7, ReadDataFlows, ReadNothingFlows, ReadHelloFlows, ReadPendingFlows
<1>8. CASE Write(e) \/ HelloRequest(e)
      BY <1>8, WriteFlows, HelloRequestFlows
<1> QED
  BY <1>2, <1>3, <1>4, <1>5, <1>6, <1>7, <1>8 DEF Reads, Returns

\* SocketInv holds initially.
LEMMA SocketInvInit == Init => SocketInv
<1> SUFFICES ASSUME Init PROVE SocketInv
  OBVIOUS
<1>1. TypeInv
      BY TypeInvInit
<1>2. ASSUME NEW e \in End
      PROVE  SenderInv(e) /\ Resumes(e) /\ Following(e)
  <2>1. /\ records[e] = <<>> /\ records[Peer[e]] = <<>> /\ wire[e] = <<>>
        /\ outLeft[e] = 0 /\ got[e] = 0 /\ inLeft[e] = 0 /\ nread[e] = 0
        /\ acked[e] = 0 /\ rcvd[e] = <<>> /\ pending[e] = <<>> /\ call[e] = "idle"
        BY DEF Init
  <2>2. Len(records[e]) = 0 /\ Len(wire[e]) = 0 /\ Len(records[Peer[e]]) = 0
        BY <2>1, EmptySeq
  <2>3. SenderInv(e)
        BY <2>1, <2>2 DEF SenderInv, WireLength, EndOf, Tagged, Ordered
  <2>4. Resumes(e)
        BY <2>1 DEF Resumes, Issued
  <2>5. Len(rcvd[e] \o pending[e]) = 0
    <3>1. <<>> \in Seq(Nat)
          BY EmptySeq
    <3>2. rcvd[e] \o pending[e] = <<>>
          BY <2>1, <3>1, ConcatEmptySeq
    <3> QED
      BY <3>2, EmptySeq
  <2>6. Ascends(DataOf(e), 0) /\ Uncut(records[Peer[e]], 0)
    <3> HIDE DEF DataOf
    <3>1. Len(DataOf(e)) = 0
          BY <2>5 DEF DataOf
    <3> QED
      BY <3>1 DEF Ascends, Uncut
  <2>7. Following(e)
        BY <2>1, <2>2, <2>6 DEF Following, EndOf, UpTo
  <2> QED
    BY <2>3, <2>4, <2>7
<1> QED
  BY <1>1, <1>2 DEF SocketInv, SenderInv

\* Each step keeps SocketInv, whatever the socket takes at a time and whoever
\* asks for a renegotiation.
THEOREM SocketInvInductive == SocketInv /\ [Next]_vars => SocketInv'
<1> SUFFICES ASSUME SocketInv, [Next]_vars PROVE SocketInv'
  OBVIOUS
<1>1. TypeInv'
      BY TypeInvInductive, SocketFacts DEF SocketInv
<1>2. ASSUME NEW f \in End
      PROVE  SenderInv(f)' /\ Resumes(f)' /\ Following(f)'
  <2>1. CASE UNCHANGED vars
    <3>1. Still(f) /\ wire' = wire /\ records' = records /\ outLeft' = outLeft
          BY <2>1 DEF vars, Still
    <3>2. Grows
          BY <3>1, NothingSent DEF SentWell
    <3> QED
      BY <3>1, <3>2, StillFlows
  <2>2. CASE Next
    <3>1. PICK e \in End :
            \/ Sends(e) \/ SendWouldBlock(e) \/ SendReset(e)
            \/ Recv(e) \/ RecvWouldBlock(e) \/ RecvEof(e) \/ RecvReset(e)
            \/ RefuseRecord(e)
            \/ Reads(e)
            \/ Returns(e)
            \/ Write(e) \/ Read(e) \/ ReadPending(e) \/ CloseNotify(e)
            \/ HelloRequest(e)
          BY <2>2 DEF Next
    <3>2. Flows(e)
          BY <3>1, StepFlows
    <3>3. CASE f = e
          BY <3>2, <3>3 DEF Flows, SentWell
    <3>4. CASE f # e
      <4>1. Still(f)
            BY <3>1, <3>4, OthersStandStill
      <4>2. Grows /\ wire'[f] = wire[f]
            BY <3>2, <3>4 DEF Flows, SentWell
      <4> QED
        BY <4>1, <4>2, StillFlows
    <3> QED
      BY <3>3, <3>4
  <2> QED
    BY <2>1, <2>2
<1> QED
  BY <1>1, <1>2 DEF SocketInv, SenderInv

\* However the socket cuts the stream, and with a peer that asks for a
\* renegotiation too, no byte comes to the application of ssl_read twice or
\* before an earlier one.
THEOREM NothingReorderedAlways == Spec => []NothingReordered
<1>1. Init => SocketInv
      BY SocketInvInit
<1>2. SocketInv /\ [Next]_vars => SocketInv'
      BY SocketInvInductive
<1>3. SocketInv => NothingReordered
  <2> SUFFICES ASSUME SocketInv, NEW e \in End, NEW i \in DOMAIN rcvd[e],
                      NEW j \in DOMAIN rcvd[e], i < j, rcvd[e][j] > 0
               PROVE  rcvd[e][i] < rcvd[e][j]
    BY DEF NothingReordered
  <2>1. /\ rcvd[e] \in Seq(Nat) /\ pending[e] \in Seq(Nat)
        /\ Ascends(DataOf(e), UpTo(records[Peer[e]], nread[e]))
        BY SocketFacts DEF Following
  <2>2. /\ Len(DataOf(e)) = Len(rcvd[e]) + Len(pending[e])
        /\ \A k \in 1..Len(rcvd[e]) : DataOf(e)[k] = rcvd[e][k]
    <3> DEFINE p == pending[e]
               q == rcvd[e]
               d == q \o p
    <3>1. /\ Len(d) = Len(q) + Len(p)
          /\ \A k \in 1..Len(q) : d[k] = q[k]
      <4>1. p \in Seq(Nat) /\ q \in Seq(Nat)
            BY <2>1
      <4> HIDE DEF p, q
      <4> QED
        BY ONLY <4>1, ConcatParts
    <3> QED
      BY <3>1 DEF DataOf
  <2>3. Len(rcvd[e]) \in Nat /\ Len(pending[e]) \in Nat /\ DOMAIN rcvd[e] = 1..Len(rcvd[e])
        BY <2>1, LenProperties
  <2>4. i \in 1..Len(rcvd[e]) /\ j \in 1..Len(rcvd[e])
        BY <2>3
  <2>5. i \in 1..(j - 1) /\ j \in 1..Len(DataOf(e))
    <3> DEFINE n == Len(DataOf(e))
               m == Len(rcvd[e])
               l == Len(pending[e])
    <3>1. n = m + l /\ m \in Nat /\ l \in Nat /\ i \in 1..m /\ j \in 1..m
          BY <2>2, <2>3, <2>4
    <3> HIDE DEF n, m, l
    <3> QED
      BY <3>1 DEF n
  <2>6. DataOf(e)[i] = rcvd[e][i] /\ DataOf(e)[j] = rcvd[e][j]
        BY <2>2, <2>4
  <2> QED
    BY <2>1, <2>5, <2>6 DEF Ascends
<1> QED
  BY <1>1, <1>2, <1>3, PTL DEF Spec

-----------------------------------------------------------------------------
(* Without renegotiation *)

\* What StreamInv says of one end.
LEMMA StreamFacts ==
  ASSUME StreamInv, NEW e \in End
  PROVE  /\ SocketInv
         /\ Chain(e) /\ Settled(e) /\ Prefix(e) /\ Calling(e) /\ AckedIsOnWire
  BY DEF StreamInv

\* The k-th record of a chain, with the types the steps below need.
LEMMA ChainRecord ==
  ASSUME StreamInv, NEW e \in End, NEW k \in 1..Len(records[e])
  PROVE  LET R == records[e]
             r == records[e][k]
         IN  /\ r \in Record /\ r.lo \in Nat /\ r.hi \in Nat
             /\ r.lo <= r.hi /\ r.hi = UpTo(R, k)
             /\ EndOf(R, k) \in Nat /\ EndOf(R, k) = r.off + Size(r)
             /\ r.type \in {"data", "fatal", "close"}
             /\ r.lo = UpTo(R, k - 1)
             /\ r.hi <= Issued(e)
             /\ r.type = "data" => r.off = EndOf(R, k - 1)
             /\ r.type # "data" => r.lo = Issued(e) /\ Closing(e)
             /\ k < Len(R) => Closing(e) \/ EndOf(R, k) <= Len(wire[e])
             /\ r.lo < acked[e] => EndOf(R, k) <= Len(wire[e])
<1>1. /\ records[e] \in Seq(Record) /\ Ordered(records[e]) /\ Chain(e)
      BY StreamFacts, SocketFacts DEF SenderInv
<1>2. records[e][k].lo <= records[e][k].hi
      BY <1>1 DEF Ordered
<1>3. /\ records[e][k] \in Record
      /\ records[e][k].lo \in Nat /\ records[e][k].hi \in Nat
      /\ EndOf(records[e], k) = records[e][k].off + Size(records[e][k])
      /\ EndOf(records[e], k) \in Nat
      /\ UpTo(records[e], k) = records[e][k].hi
      BY <1>1, RecordTypes
<1> QED
  BY <1>1, <1>2, <1>3 DEF Chain

\* An end that closes goes on closing.
LEMMA ClosingKept ==
  ASSUME SocketInv, NEW e \in End, Closing(e),
         \/ Sends(e) \/ SendWouldBlock(e) \/ SendReset(e)
         \/ Recv(e) \/ RecvWouldBlock(e) \/ RecvEof(e) \/ RecvReset(e)
         \/ RefuseRecord(e)
         \/ Reads(e)
         \/ Returns(e)
         \/ Write(e) \/ Read(e) \/ ReadPending(e) \/ CloseNotify(e)
         \/ HelloRequest(e)
  PROVE  Closing(e)'
<1> USE DEF Closing, Stop, Usable, Reading, Complete
<1>1. TypeOK
      BY SocketFacts
<1>2. CASE Sends(e)
      BY <1>1, <1>2 DEF Sends, SendHeader, SendBody
<1>3. CASE SendWouldBlock(e) \/ SendReset(e)
  <2>1. CASE SendWouldBlock(e)
    <3>1. CASE call[e] \in {"flush", "close"}
          BY <1>1, <2>1, <3>1 DEF SendWouldBlock, TypeOK
    <3>2. CASE call[e] \notin {"flush", "close"}
          BY <1>1, <2>1, <3>2 DEF SendWouldBlock, TypeOK
    <3> QED
      BY <3>1, <3>2
  <2>2. CASE SendReset(e)
        BY <1>1, <2>2 DEF SendReset, TypeOK
  <2> QED
    BY <1>3, <2>1, <2>2
<1>4. CASE Recv(e) \/ RecvWouldBlock(e) \/ RecvEof(e) \/ RecvReset(e)
  <2>1. CASE Recv(e)
        BY <2>1 DEF Recv
  <2>2. CASE RecvWouldBlock(e) \/ RecvEof(e)
        BY <1>1, <2>2 DEF RecvWouldBlock, RecvEof, TypeOK
  <2>3. CASE RecvReset(e)
        BY <1>1, <2>3 DEF RecvReset, TypeOK
  <2> QED
    BY <1>4, <2>1, <2>2, <2>3
<1>5. CASE RefuseRecord(e) \/ ReadAlert(e) \/ ReadCloseNotify(e)
      BY <1>1, <1>5 DEF RefuseRecord, ReadAlert, ReadCloseNotify, TypeOK
<1>6. CASE ReadData(e) \/ ReadHello(e)
      BY <1>1, <1>6 DEF ReadData, ReadHello, TypeOK
<1>7. CASE ReadEmpty(e)
      BY <1>1, <1>7 DEF ReadEmpty, TypeOK
<1>8. CASE WriteReturn(e) \/ RefuseReturn(e) \/ CloseAlert(e) \/ NetClose(e)
      BY <1>1, <1>8 DEF WriteReturn, RefuseReturn, CloseAlert, NetClose, TypeOK
<1>9. CASE Write(e) \/ Read(e) \/ ReadPending(e) \/ CloseNotify(e) \/ HelloRequest(e)
      BY <1>1, <1>9 DEF Write, Read, ReadPending, CloseNotify, HelloRequest, TypeOK
<1> QED
  BY <1>2, <1>3, <1>4, <1>5, <1>6, <1>7, <1>8, <1>9 DEF Reads, Returns

\* A chain stays one while nothing is prepared or acknowledged.
LEMMA ChainKept ==
  ASSUME StreamInv, Grows, NEW e \in End,
         records'[e] = records[e], acked'[e] = acked[e], Closing(e) => Closing(e)'
  PROVE  Chain(e)'
<1> DEFINE R == records[e]
<1>1. /\ Len(wire[e]) \in Nat /\ Len(wire'[e]) \in Nat /\ Len(wire[e]) <= Len(wire'[e])
  <2>1. Len(wire[e]) \in Nat /\ outLeft[e] \in Nat /\ Len(wire[e]) <= Len(wire'[e])
        BY StreamFacts, SocketFacts DEF Grows
  <2> QED
    BY <2>1
<1>2. Issued(e)' = Issued(e)
      BY DEF Issued, Newest
<1>3. ASSUME NEW k \in 1..Len(R)
      PROVE  /\ R[k].type \in {"data", "fatal", "close"}
             /\ R[k].lo = UpTo(R, k - 1)
             /\ R[k].hi <= Issued(e)
             /\ R[k].type = "data" => R[k].off = EndOf(R, k - 1)
             /\ R[k].type # "data" => R[k].lo = Issued(e) /\ Closing(e)'
             /\ k < Len(R) => Closing(e)' \/ EndOf(R, k) <= Len(wire'[e])
             /\ R[k].lo < acked[e] => EndOf(R, k) <= Len(wire'[e])
  <2>1. EndOf(R, k) <= Len(wire[e]) => EndOf(R, k) <= Len(wire'[e])
    <3>1. EndOf(R, k) \in Nat
          BY ChainRecord
    <3> QED
      BY <1>1, <3>1
  <2> QED
    BY <2>1, ChainRecord
<1> QED
  BY <1>2, <1>3 DEF Chain

\* A chain goes on with data behind a flushed one, or with an alert.
LEMMA ChainAppended ==
  ASSUME StreamInv, NEW e \in End, NEW r \in Record,
         records'[e] = Append(records[e], r),
         Len(wire'[e]) = Len(wire[e]), acked'[e] = acked[e],
         r.type \in {"data", "fatal", "close"},
         r.lo = Issued(e), r.lo <= r.hi,
         r.type = "data" => ~Closing(e) /\ outLeft[e] = 0 /\ r.off = Len(wire[e]),
         r.type # "data" => r.hi = r.lo /\ Closing(e)'
  PROVE  Chain(e)'
<1> DEFINE R == records[e]
           S == Append(R, r)
           K == Len(R)
<1>1. /\ R \in Seq(Record) /\ K \in Nat /\ Len(wire[e]) \in Nat /\ outLeft[e] \in Nat
      /\ Issued(e) \in Nat /\ acked[e] \in Nat
      /\ Len(wire[e]) + outLeft[e] = EndOf(R, K) /\ Settled(e) /\ acked[e] <= Issued(e)
      /\ Issued(e) = UpTo(R, K)
      BY StreamFacts, SocketFacts, IssuedEnd DEF SenderInv, WireLength, Settled
<1>2. /\ Len(S) = K + 1 /\ S[K + 1] = r /\ S # <<>>
      /\ \A k \in 1..K : S[k] = R[k]
      /\ EndOf(S, K + 1) = r.off + Size(r) /\ UpTo(S, K + 1) = r.hi
  <2> HIDE DEF R
  <2> QED
    BY ONLY <1>1, r \in Record, AppendedRecord
<1>3. Issued(e)' = r.hi
  <2> HIDE DEF S
  <2> QED
    BY <1>2 DEF Issued, Newest, S
<1>4. r.hi \in Nat /\ r.lo \in Nat
      BY DEF Record
<1>5. ASSUME NEW k \in 0..K
      PROVE  EndOf(S, k) = EndOf(R, k) /\ UpTo(S, k) = UpTo(R, k)
  <2> HIDE DEF R, K, S
  <2>1. k \in 0..Len(R) /\ \A i \in 1..Len(R) : S[i] = R[i]
        BY <1>2 DEF K
  <2> QED
    BY <1>1, <2>1, PrefixEnds
<1> DEFINE Link(k) ==
      /\ S[k].type \in {"data", "fatal", "close"}
      /\ S[k].lo = UpTo(S, k - 1)
      /\ S[k].hi <= r.hi
      /\ S[k].type = "data" => S[k].off = EndOf(S, k - 1)
      /\ S[k].type # "data" => S[k].lo = r.hi /\ Closing(e)'
      /\ k < K + 1 => Closing(e)' \/ EndOf(S, k) <= Len(wire[e])
      /\ S[k].lo < acked[e] => EndOf(S, k) <= Len(wire[e])
<1>6. ASSUME NEW k \in 1..K
      PROVE  Link(k)
  <2>1. /\ S[k] = R[k] /\ UpTo(S, k - 1) = UpTo(R, k - 1)
        /\ EndOf(S, k - 1) = EndOf(R, k - 1) /\ EndOf(S, k) = EndOf(R, k)
    <3>1. k \in 0..K /\ k - 1 \in 0..K
          BY <1>1
    <3> QED
      BY <1>2, <1>5, <3>1
  <2>2. /\ R[k].hi \in Nat /\ R[k].lo \in Nat /\ R[k].hi <= Issued(e)
        /\ R[k].type \in {"data", "fatal", "close"}
        /\ R[k].lo = UpTo(R, k - 1)
        /\ R[k].type = "data" => R[k].off = EndOf(R, k - 1)
        /\ R[k].type # "data" => R[k].lo = Issued(e) /\ Closing(e)
        /\ k < K => Closing(e) \/ EndOf(R, k) <= Len(wire[e])
        /\ R[k].lo < acked[e] => EndOf(R, k) <= Len(wire[e])
        BY ChainRecord
  <2>3. R[k].hi <= r.hi
        BY <1>1, <1>4, <2>2
  <2>4. CASE r.type = "data"
    <3>1. ~Closing(e) /\ EndOf(R, K) = Len(wire[e])
          BY <1>1, <2>4
    <3>2. EndOf(R, k) <= Len(wire[e])
      <4>1. k < K \/ k = K
            BY <1>1
      <4> QED
        BY <1>1, <2>2, <3>1, <4>1
    <3> QED
      BY <2>1, <2>2, <2>3, <3>1, <3>2
  <2>5. CASE r.type # "data"
        BY <2>1, <2>2, <2>3, <2>5
  <2> QED
    BY <2>4, <2>5
<1>7. Link(K + 1)
  <2>1. (K + 1) - 1 = K /\ K \in 0..K /\ ~(K + 1 < K + 1)
        BY <1>1
  <2>2. UpTo(S, K) = r.lo /\ EndOf(S, K) = EndOf(R, K)
        BY <1>1, <1>5, <2>1
  <2>3. r.type = "data" => r.off = EndOf(R, K)
        BY <1>1
  <2>4. ~(r.lo < acked[e]) /\ r.hi <= r.hi
        BY <1>1, <1>4
  <2> HIDE DEF S, K, R
  <2> QED
    BY <1>2, <2>1, <2>2, <2>3, <2>4
<1>8. \A k \in 1..K + 1 : k \in 1..K \/ k = K + 1
      BY <1>1
<1>9. \A k \in 1..K + 1 : Link(k)
      BY <1>6, <1>7, <1>8
<1>10. Len(S) = K + 1 /\ records'[e] = S
       BY <1>2
<1> HIDE DEF S, K
<1> QED
  BY <1>3, <1>9, <1>10 DEF Chain

\* No call ends or begins in a connection that is over.
LEMMA CallingKept ==
  ASSUME StreamInv, NEW e \in End,
         \/ Sends(e) \/ SendWouldBlock(e) \/ SendReset(e)
         \/ Recv(e) \/ RecvWouldBlock(e) \/ RecvEof(e) \/ RecvReset(e)
         \/ RefuseRecord(e)
         \/ ReadData(e) \/ ReadEmpty(e) \/ ReadAlert(e) \/ ReadCloseNotify(e)
         \/ WriteReturn(e) \/ CloseAlert(e) \/ NetClose(e)
         \/ Write(e) \/ Read(e) \/ ReadPending(e) \/ CloseNotify(e)
  PROVE  Calling(e)'
<1> USE DEF Calling, Stop, outVars, inVars
<1>1. TypeOK /\ Calling(e)
      BY StreamFacts, SocketFacts
<1>2. CASE Sends(e)
      BY <1>1, <1>2 DEF Sends, SendHeader, SendBody
<1>3. CASE SendWouldBlock(e)
  <2>1. call'[e] \in {"flush", "idle"}
        BY <1>1, <1>3 DEF SendWouldBlock, TypeOK
  <2>2. CASE call[e] \in {"flush", "close"}
        BY <1>1, <1>3, <2>1, <2>2 DEF SendWouldBlock, TypeOK
  <2>3. CASE call[e] \notin {"flush", "close"}
        BY <1>1, <1>3, <2>1, <2>3 DEF SendWouldBlock, TypeOK
  <2> QED
    BY <2>2, <2>3
<1>4. CASE SendReset(e)
      BY <1>1, <1>4 DEF SendReset, TypeOK
<1>5. CASE Recv(e)
      BY <1>1, <1>5 DEF Recv
<1>6. CASE RecvWouldBlock(e) \/ RecvEof(e)
      BY <1>1, <1>6 DEF RecvWouldBlock, RecvEof, TypeOK
<1>7. CASE RecvReset(e)
      BY <1>1, <1>7 DEF RecvReset, TypeOK
<1>8. CASE RefuseRecord(e)
  <2>1. call'[e] \in {"flush", "alert"} /\ ended'[e] # "no"
        BY <1>1, <1>8 DEF RefuseRecord, TypeOK
  <2> QED
    BY <2>1
<1>9. CASE ReadData(e)
      BY <1>1, <1>9 DEF ReadData, TypeOK
<1>10. CASE ReadEmpty(e)
  <2>1. CASE call[e] = "read"
        BY <1>1, <1>10, <2>1 DEF ReadEmpty, TypeOK
  <2>2. CASE call[e] # "read"
        BY <1>1, <1>10, <2>2 DEF ReadEmpty, TypeOK
  <2> QED
    BY <2>1, <2>2
<1>11. CASE ReadAlert(e) \/ ReadCloseNotify(e)
  <2>1. call'[e] = "flush" /\ ended'[e] # "no"
        BY <1>1, <1>11 DEF ReadAlert, ReadCloseNotify, TypeOK
  <2> QED
    BY <2>1
<1>12. CASE WriteReturn(e) \/ CloseAlert(e)
       BY <1>1, <1>12 DEF WriteReturn, CloseAlert, TypeOK
<1>13. CASE NetClose(e)
       BY <1>1, <1>13 DEF NetClose, TypeOK
<1>14. CASE Write(e) \/ Read(e)
       BY <1>1, <1>14 DEF Write, Read, Usable, TypeOK
<1>15. CASE ReadPending(e) \/ CloseNotify(e)
       BY <1>1, <1>15 DEF ReadPending, CloseNotify, Usable, TypeOK
<1> QED
  BY <1>2, <1>3, <1>4, <1>5, <1>6, <1>7, <1>8, <1>9, <1>10, <1>11, <1>12, <1>13,
     <1>14, <1>15

\* The acknowledged bytes of one end, see AckedIsOnWire.
OnWire(e) ==
  acked[e] > 0 =>
    \E k \in DOMAIN records[e] :
      acked[e] <= records[e][k].hi
      /\ records[e][k].off + Size(records[e][k]) <= Len(wire[e])

\* What is on the wire stays there.
LEMMA OnWireKept ==
  ASSUME StreamInv, Grows, NEW e \in End, acked'[e] = acked[e]
  PROVE  OnWire(e)'
<1> DEFINE R == records[e]
           S == records'[e]
<1>1. /\ R \in Seq(Record) /\ Len(R) \in Nat /\ Len(wire[e]) \in Nat /\ outLeft[e] \in Nat
      /\ AckedIsOnWire
      BY StreamFacts, SocketFacts
<1>2. /\ S \in Seq(Record) /\ Len(R) <= Len(S) /\ Len(S) \in Nat
      /\ \A k \in 1..Len(R) : S[k] = R[k]
      /\ Len(wire[e]) <= Len(wire'[e])
      BY LenProperties DEF Grows
<1>3. CASE acked[e] > 0
  <2>1. PICK k \in DOMAIN R : acked[e] <= R[k].hi /\ R[k].off + Size(R[k]) <= Len(wire[e])
        BY <1>1, <1>3 DEF AckedIsOnWire
  <2>2. k \in 1..Len(R) /\ k \in DOMAIN S /\ S[k] = R[k]
        BY <1>1, <1>2, <2>1, LenProperties
  <2>3. R[k].off + Size(R[k]) \in Nat
        BY <1>1, <2>2, RecordTypes
  <2>4. R[k].off + Size(R[k]) <= Len(wire'[e])
        BY <1>1, <1>2, <2>1, <2>3
  <2> QED
    BY <2>1, <2>2, <2>4 DEF OnWire
<1>4. CASE ~(acked[e] > 0)
      BY <1>4 DEF OnWire
<1> QED
  BY <1>3, <1>4

\* Between writes everything stays acknowledged.
LEMMA SettledKept ==
  ASSUME StreamInv, NEW e \in End,
         records'[e] = records[e], acked'[e] = acked[e], writing'[e] = writing[e],
         outLeft[e] = 0 => outLeft'[e] = 0,
         InWrite(e) => InWrite(e)' \/ Closing(e)',
         Closing(e) => Closing(e)'
  PROVE  Settled(e)'
<1>1. Settled(e)
      BY StreamFacts
<1>2. Issued(e)' = Issued(e)
      BY DEF Issued, Newest
<1> QED
  BY <1>1, <1>2 DEF Settled

\* A reader that stands still has the same prefix of a longer stream.
LEMMA PrefixKept ==
  ASSUME StreamInv, Grows, NEW f \in End, nread'[f] = nread[f],
         pending'[f] = pending[f], rcvd'[f] = rcvd[f]
  PROVE  Prefix(f)'
<1> DEFINE R == records[Peer[f]]
           S == records'[Peer[f]]
<1>1. /\ Peer[f] \in End /\ R \in Seq(Record) /\ Len(R) \in Nat
      /\ nread[f] \in Nat /\ nread[f] <= Len(R) /\ Prefix(f)
      BY StreamFacts, SocketFacts DEF Following
<1>2. /\ S \in Seq(Record) /\ \A k \in 1..Len(R) : S[k] = R[k]
      BY <1>1 DEF Grows
<1>3. UpTo(S, nread[f]) = UpTo(R, nread[f])
  <2> HIDE DEF R, S
  <2>1. nread[f] \in 0..Len(R)
        BY <1>1
  <2> QED
    BY <1>1, <1>2, <2>1, PrefixEnds
<1>4. DataOf(f)' = DataOf(f)
      BY DEF DataOf
<1>5. Peer'[f] = Peer[f]
      OBVIOUS
<1> QED
  BY <1>1, <1>3, <1>4, <1>5 DEF Prefix

\* What a step of e has to establish, the other ends standing still.
Orderly(e) == Chain(e)' /\ Settled(e)' /\ Prefix(e)' /\ Calling(e)' /\ OnWire(e)'

\* An end that prepares, acknowledges and reads nothing.
LEMMA NothingNew ==
  ASSUME StreamInv, Grows, NEW e \in End, Calling(e)',
         UNCHANGED <<records, acked, writing, nread, pending, rcvd>>,
         outLeft[e] = 0 => outLeft'[e] = 0,
         InWrite(e) => InWrite(e)' \/ Closing(e)',
         Closing(e) => Closing(e)'
  PROVE  Orderly(e)
<1>1. Chain(e)'
      BY ChainKept
<1>2. Settled(e)'
      BY SettledKept
<1>3. Prefix(e)'
      BY PrefixKept
<1>4. OnWire(e)'
      BY OnWireKept
<1> QED
  BY <1>1, <1>2, <1>3, <1>4 DEF Orderly

\* An end that reads.
LEMMA ReaderOrderly ==
  ASSUME StreamInv, Grows, NEW e \in End, Calling(e)', Prefix(e)',
         UNCHANGED <<records, acked, writing, outLeft>>,
         call[e] \in {"idle", "read", "again"}, call'[e] # "refuse",
         Closing(e) => Closing(e)'
  PROVE  Orderly(e)
<1>1. Chain(e)'
      BY ChainKept
<1>2. InWrite(e) => InWrite(e)'
      BY DEF InWrite, Issued, Newest
<1>3. Settled(e)'
      BY <1>2, SettledKept
<1>4. OnWire(e)'
      BY OnWireKept
<1> QED
  BY <1>1, <1>3, <1>4 DEF Orderly

\* Steps that move neither records nor data.
LEMMA QuietOrderly ==
  ASSUME StreamInv, NEW e \in End,
         \/ SendWouldBlock(e) \/ SendReset(e) \/ RecvWouldBlock(e) \/ RecvEof(e)
         \/ RecvReset(e) \/ Read(e) \/ CloseNotify(e) \/ ReadCloseNotify(e)
         \/ NetClose(e)
         \/ ReadAlert(e) /\ UNCHANGED <<inLeft, nread>>
         \/ RefuseRecord(e) /\ UNCHANGED <<records, outLeft>>
  PROVE  Orderly(e)
<1>1. SocketInv
      BY StreamFacts
<1>2. /\ UNCHANGED <<records, wire, outLeft, writing, acked, got, inLeft, nread, pending, rcvd>>
      /\ InWrite(e) => InWrite(e)' \/ Closing(e)'
      /\ Closing(e) => Closing(e)'
      BY <1>1, QuietKeeps
<1>3. Grows
      BY <1>1, <1>2, NothingSent DEF SentWell
<1>4. Calling(e)'
      BY CallingKept
<1> QED
  BY <1>2, <1>3, <1>4, NothingNew

\* Bytes are received.
LEMMA RecvOrderly ==
  ASSUME StreamInv, NEW e \in End, Recv(e)
  PROVE  Orderly(e)
<1>1. SocketInv
      BY StreamFacts
<1>2. /\ UNCHANGED <<records, wire, outLeft, writing, acked, call, ended, nread, pending, rcvd>>
      /\ call[e] \in {"read", "again"}
      BY DEF Recv, Reading, outVars
<1>3. Grows
      BY <1>1, <1>2, NothingSent DEF SentWell
<1>4. Calling(e)'
      BY CallingKept
<1>5. Prefix(e)'
      BY <1>2, <1>3, PrefixKept
<1>6. Closing(e) => Closing(e)'
      BY <1>2 DEF Closing
<1> QED
  BY <1>2, <1>3, <1>4, <1>5, <1>6, ReaderOrderly

\* Bytes are sent.
LEMMA SendsOrderly ==
  ASSUME StreamInv, NEW e \in End, Sends(e)
  PROVE  Orderly(e)
<1>1. SocketInv /\ TypeOK
      BY StreamFacts, SocketFacts
<1>2. /\ UNCHANGED <<records, writing, acked, call, ended, got, inLeft, nread, pending, rcvd>>
      /\ Flushing(e)
      BY DEF Sends, SendHeader, SendBody, inVars
<1>3. Grows
      BY <1>1, StepFlows DEF Flows, SentWell
<1>4. Calling(e)'
      BY CallingKept
<1>5. InWrite(e) => InWrite(e)' \/ Closing(e)'
      BY <1>2 DEF InWrite, Closing, Flushing, Issued, Newest
<1>6. Closing(e) => Closing(e)'
      BY <1>2 DEF Closing
<1>7. outLeft[e] > 0 /\ outLeft[e] \in Nat
      BY <1>1, <1>2 DEF Flushing, TypeOK
<1> QED
  BY <1>2, <1>3, <1>4, <1>5, <1>6, <1>7, NothingNew

\* The next data are handed out.
LEMMA ReadPendingOrderly ==
  ASSUME StreamInv, NEW e \in End, ReadPending(e)
  PROVE  Orderly(e)
<1>1. SocketInv /\ Prefix(e)
      BY StreamFacts
<1>2. /\ UNCHANGED <<records, wire, outLeft, writing, acked, call, ended, nread>>
      /\ call[e] = "idle"
      BY DEF ReadPending, Usable, outVars
<1>3. Grows
      BY <1>1, <1>2, NothingSent DEF SentWell
<1>4. Calling(e)'
      BY CallingKept
<1>5. DataOf(e)' = DataOf(e)
      BY <1>1, ReadPendingFlows
<1>6. Prefix(e)'
      BY <1>1, <1>2, <1>5 DEF Prefix
<1>7. Closing(e) => Closing(e)'
      BY <1>2 DEF Closing
<1> QED
  BY <1>2, <1>3, <1>4, <1>6, <1>7, ReaderOrderly

\* A record's data come right behind what came before.
LEMMA ReadDataOrderly ==
  ASSUME StreamInv, NEW e \in End, ReadData(e)
  PROVE  Orderly(e)
<1> DEFINE R == records[Peer[e]]
           k == nread[e] + 1
           b == [i \in 1..(R[k].hi - R[k].lo) |-> R[k].lo + i]
<1>1. /\ SocketInv /\ TypeOK /\ Prefix(e) /\ Following(e)
      /\ rcvd[e] \in Seq(Nat) /\ Peer[e] \in End
      BY StreamFacts, SocketFacts
<1>2. /\ Complete(e, "data") /\ Consume(e)
      /\ call[e] \in {"read", "again"}
      /\ pending' = [pending EXCEPT ![e] = b]
      /\ UNCHANGED <<records, wire, outLeft, writing, acked, rcvd, ended>>
      BY DEF ReadData, Complete, Reading, outVars
<1>3. call'[e] = "idle" /\ pending'[e] = b /\ nread'[e] = k
      BY <1>1, <1>2 DEF ReadData, Consume, TypeOK
<1>4. Grows
      BY <1>1, <1>2, NothingSent DEF SentWell
<1>5. /\ k \in 1..Len(R) /\ R[k].lo \in Nat /\ R[k].hi \in Nat /\ R[k].lo <= R[k].hi
      /\ R[k].hi = UpTo(R, k) /\ k - 1 = nread[e]
      BY <1>1, <1>2, CompleteFollows
<1>6. R[k].lo = UpTo(R, nread[e])
      BY <1>1, <1>5, ChainRecord
<1>7. /\ Len(rcvd[e]) = R[k].lo
      /\ \A i \in 1..Len(rcvd[e]) : rcvd[e][i] = i
      BY <1>1, <1>2, <1>6, DataType DEF Prefix, Following
<1>8. /\ b \in Seq(Nat) /\ Len(b) = R[k].hi - R[k].lo
      /\ \A i \in 1..Len(b) : b[i] = R[k].lo + i
  <2> DEFINE lo == R[k].lo
             hi == R[k].hi
  <2>1. b = [i \in 1..(hi - lo) |-> lo + i]
        OBVIOUS
  <2>2. lo \in Nat /\ hi \in Nat /\ lo <= hi
        BY <1>5
  <2> HIDE DEF lo, hi, b
  <2>3. hi - lo \in Nat /\ b \in [1..(hi - lo) -> Nat]
        BY <2>1, <2>2
  <2>4. b \in Seq(Nat) /\ Len(b) = hi - lo
        BY <2>3, FunctionIsSeq
  <2> QED
    BY <2>1, <2>4 DEF lo, hi
<1> HIDE DEF b
<1>9. /\ Len(rcvd[e] \o b) = R[k].hi
      /\ \A i \in 1..Len(rcvd[e] \o b) : (rcvd[e] \o b)[i] = i
  <2> DEFINE q == rcvd[e]
             c == q \o b
             lo == R[k].lo
             hi == R[k].hi
  <2>1. /\ lo \in Nat /\ hi \in Nat /\ lo <= hi /\ Len(q) = lo /\ Len(b) = hi - lo
        /\ \A i \in 1..Len(q) : q[i] = i
        /\ \A i \in 1..Len(b) : b[i] = lo + i
        BY <1>5, <1>7, <1>8
  <2>2. q \in Seq(Nat) /\ b \in Seq(Nat)
        BY <1>1, <1>8
  <2> HIDE DEF q, lo, hi
  <2>3. /\ Len(c) = Len(q) + Len(b)
        /\ \A i \in 1..Len(q) : c[i] = q[i]
        /\ \A i \in 1..Len(b) : c[Len(q) + i] = b[i]
        BY ONLY <2>2, ConcatParts
  <2> HIDE DEF c
  <2>4. Len(c) = hi
        BY <2>1, <2>3
  <2>5. ASSUME NEW i \in 1..Len(c)
        PROVE  c[i] = i
    <3>1. CASE i <= lo
          BY <2>1, <2>3, <2>4, <3>1
    <3>2. CASE ~(i <= lo)
      <4> DEFINE j == i - lo
      <4>1. j \in 1..Len(b) /\ lo + j = i
            BY <2>1, <2>4, <3>2
      <4> HIDE DEF j
      <4> QED
        BY <2>1, <2>3, <4>1
    <3> QED
      BY <3>1, <3>2
  <2> QED
    BY <2>4, <2>5 DEF c, q, hi
<1>10. DataOf(e)' = rcvd[e] \o b
       BY <1>2, <1>3 DEF DataOf
<1>11. Prefix(e)'
       BY <1>2, <1>3, <1>5, <1>9, <1>10 DEF Prefix
<1>12. Calling(e)'
       BY CallingKept
<1>13. Closing(e) => Closing(e)'
       BY <1>1, ClosingKept DEF Reads
<1> QED
  BY <1>2, <1>3, <1>4, <1>11, <1>12, <1>13, ReaderOrderly

\* A record without data.
LEMMA ReadEmptyOrderly ==
  ASSUME StreamInv, NEW e \in End, ReadEmpty(e)
  PROVE  Orderly(e)
<1> DEFINE R == records[Peer[e]]
           k == nread[e] + 1
<1>1. SocketInv /\ TypeOK /\ Prefix(e) /\ Peer[e] \in End
      BY StreamFacts, SocketFacts
<1>2. /\ Complete(e, "data") /\ Consume(e) /\ R[k].lo = R[k].hi
      /\ call[e] \in {"read", "again"}
      /\ UNCHANGED <<records, wire, outLeft, writing, acked, pending, rcvd, ended>>
      BY DEF ReadEmpty, Complete, Reading, outVars
<1>3. call'[e] # "refuse" /\ nread'[e] = k
  <2>1. call'[e] \in {"again", "idle"}
        BY <1>1, <1>2 DEF ReadEmpty, TypeOK
  <2> QED
    BY <1>1, <1>2, <2>1 DEF Consume, TypeOK
<1>4. Grows
      BY <1>1, <1>2, NothingSent DEF SentWell
<1>5. k \in 1..Len(R) /\ R[k].hi = UpTo(R, k) /\ k - 1 = nread[e]
      BY <1>1, <1>2, CompleteFollows
<1>6. R[k].lo = UpTo(R, nread[e])
      BY <1>1, <1>5, ChainRecord
<1>7. DataOf(e)' = DataOf(e)
      BY <1>2 DEF DataOf
<1>8. Prefix(e)'
      BY <1>1, <1>2, <1>3, <1>5, <1>6, <1>7 DEF Prefix
<1>9. Calling(e)'
      BY CallingKept
<1>10. Closing(e) => Closing(e)'
       BY <1>1, ClosingKept DEF Reads
<1> QED
  BY <1>2, <1>3, <1>4, <1>8, <1>9, <1>10, ReaderOrderly

\* All that the records carry is acknowledged.
LEMMA WriteReturnOrderly ==
  ASSUME StreamInv, NEW e \in End, WriteReturn(e)
  PROVE  Orderly(e) /\ acked'[e] = Issued(e)
<1> DEFINE R == records[e]
           K == Len(R)
<1>1. /\ SocketInv /\ TypeOK /\ Settled(e) /\ Calling(e)
      /\ R \in Seq(Record) /\ K \in Nat /\ acked[e] \in Nat /\ Issued(e) \in Nat
      /\ Len(wire[e]) \in Nat /\ WireLength(e) /\ Issued(e) = UpTo(R, K)
      BY StreamFacts, SocketFacts, IssuedEnd DEF SenderInv
<1>2. /\ UNCHANGED <<records, wire, outLeft, ended, got, inLeft, nread, pending, rcvd>>
      /\ call[e] = "write" /\ outLeft[e] = 0
      BY DEF WriteReturn, outVars, inVars
<1>3. writing'[e] = {} /\ call'[e] = "idle" /\ Issued(e)' = Issued(e)
      BY <1>1, <1>2 DEF WriteReturn, TypeOK, Issued, Newest
<1>4. PICK len \in writing[e] : acked'[e] = acked[e] + Least(len, MaxContent)
      BY <1>1 DEF WriteReturn, TypeOK
<1>5. ~Closing(e) /\ ~Closing(e)'
      BY <1>1, <1>2, <1>3 DEF Calling, Closing
<1>6. InWrite(e)
      BY <1>1, <1>4, <1>5 DEF Settled
<1>7. acked'[e] = Issued(e)
      BY <1>4, <1>6 DEF InWrite
<1>8. Settled(e)'
      BY <1>1, <1>2, <1>3, <1>7 DEF Settled
<1>9. Grows
      BY <1>1, <1>2, NothingSent DEF SentWell
<1>10. Len(wire[e]) = EndOf(R, K)
       BY <1>1, <1>2 DEF WireLength
<1>11. ASSUME NEW k \in 1..K
       PROVE  /\ R[k].type \in {"data", "fatal", "close"}
              /\ R[k].lo = UpTo(R, k - 1)
              /\ R[k].hi <= Issued(e)
              /\ R[k].type = "data" => R[k].off = EndOf(R, k - 1)
              /\ R[k].type # "data" => R[k].lo = Issued(e) /\ Closing(e)'
              /\ k < K => Closing(e)' \/ EndOf(R, k) <= Len(wire'[e])
              /\ R[k].lo < acked'[e] => EndOf(R, k) <= Len(wire'[e])
  <2>1. EndOf(R, k) <= Len(wire[e])
    <3>1. k < K \/ k = K
          BY <1>1
    <3> QED
      BY <1>1, <1>5, <1>10, <3>1, ChainRecord
  <2> QED
    BY <1>2, <1>5, <2>1, ChainRecord
<1>12. Chain(e)'
       BY <1>2, <1>3, <1>11 DEF Chain
<1>13. OnWire(e)'
  <2> SUFFICES ASSUME Issued(e) > 0
               PROVE  \E k \in DOMAIN R : Issued(e) <= R[k].hi
                        /\ R[k].off + Size(R[k]) <= Len(wire[e])
    BY <1>2, <1>7 DEF OnWire
  <2>1. K # 0
        BY <1>1 DEF UpTo
  <2>2. K \in 1..Len(R) /\ K \in DOMAIN R
        BY <1>1, <2>1, LenProperties
  <2>3. R[K].hi = Issued(e) /\ R[K].off + Size(R[K]) = Len(wire[e])
        BY <1>1, <1>10, <2>2, RecordTypes
  <2> QED
    BY <1>1, <2>2, <2>3
<1>14. Prefix(e)'
       BY <1>2, <1>9, PrefixKept
<1>15. Calling(e)'
       BY CallingKept
<1> QED
  BY <1>7, <1>8, <1>12, <1>13, <1>14, <1>15 DEF Orderly

\* A write goes on behind a stream that is acknowledged, or goes on flushing.
LEMMA WriteOrderly ==
  ASSUME StreamInv, NEW e \in End, Write(e)
  PROVE  Orderly(e)
<1>1. /\ SocketInv /\ TypeOK /\ Settled(e) /\ acked[e] \in Nat /\ Issued(e) \in Nat
      /\ Len(wire[e]) \in Nat
      BY StreamFacts, SocketFacts
<1>2. /\ UNCHANGED <<wire, acked, ended, got, inLeft, nread, pending, rcvd>>
      /\ call[e] = "idle" /\ ended[e] = "no"
      BY DEF Write, Usable, inVars
<1>3. call'[e] = "write" /\ ~Closing(e)
      BY <1>1, <1>2 DEF Write, Closing, TypeOK
<1>4. PICK len \in WriteLens :
        /\ writing[e] # {} => writing[e] = {len}
        /\ writing'[e] = {len}
        /\ IF outLeft[e] # 0
             THEN UNCHANGED <<records, outLeft>>
             ELSE WriteRecord(e, "data", acked[e], acked[e] + Least(len, MaxContent),
                              Least(len, MaxContent))
      BY <1>1 DEF Write, TypeOK
<1>5. len \in Nat /\ Least(len, MaxContent) \in Nat
      BY LeastNat
<1>6. Flows(e) /\ Grows
      BY <1>1, StepFlows DEF Flows, SentWell
<1>7. Prefix(e)' /\ Calling(e)' /\ OnWire(e)'
      BY <1>2, <1>6, PrefixKept, CallingKept, OnWireKept
<1>8. Chain(e)' /\ Settled(e)'
  <2>1. CASE outLeft[e] # 0
    <3>1. records' = records /\ outLeft' = outLeft /\ Issued(e)' = Issued(e)
          BY <1>4, <2>1 DEF Issued, Newest
    <3>2. InWrite(e)
          BY <1>1, <1>3, <2>1 DEF Settled
    <3>3. InWrite(e)'
          BY <1>2, <1>3, <1>4, <3>1, <3>2 DEF InWrite
    <3>4. Settled(e)'
          BY <1>1, <1>2, <3>1, <3>3 DEF Settled
    <3> QED
      BY <1>2, <1>3, <1>6, <3>1, <3>4, ChainKept
  <2>2. CASE outLeft[e] = 0
    <3> DEFINE n == Least(len, MaxContent)
               r == [type |-> "data", lo |-> acked[e], hi |-> acked[e] + n,
                     plen |-> n + MacLen, off |-> Len(wire[e])]
    <3>1. acked[e] = Issued(e)
          BY <1>1, <1>2, <1>3, <2>2 DEF Settled, InWrite
    <3>2. /\ r \in Record /\ r.type = "data" /\ r.lo = Issued(e) /\ r.lo <= r.hi
          /\ r.off = Len(wire[e]) /\ r.hi = acked[e] + n
          BY <1>1, <1>5, <3>1 DEF Record, Types
    <3>3. records'[e] = Append(records[e], r)
          BY <1>1, <1>4, <2>2 DEF WriteRecord, TypeOK
    <3> HIDE DEF r
    <3>4. Len(wire'[e]) = Len(wire[e]) /\ acked'[e] = acked[e]
          BY <1>2
    <3>5. Chain(e)'
          BY <1>3, <2>2, <3>2, <3>3, <3>4, ChainAppended
    <3>6. Issued(e)' = acked[e] + n
      <4>1. records[e] \in Seq(Record)
            BY <1>1 DEF TypeOK
      <4> DEFINE S == Append(records[e], r)
      <4>2. S # <<>> /\ S[Len(S)] = r
            BY <3>2, <4>1, AppendedRecord
      <4>3. records'[e] = S
            BY <3>3
      <4> HIDE DEF S
      <4> QED
        BY <3>2, <4>2, <4>3 DEF Issued, Newest
    <3>7. InWrite(e)'
          BY <1>2, <1>3, <1>4, <3>6 DEF InWrite
    <3>8. acked'[e] <= Issued(e)'
          BY <1>1, <1>2, <1>5, <3>6
    <3> QED
      BY <3>5, <3>7, <3>8 DEF Settled
  <2> QED
    BY <2>1, <2>2
<1> QED
  BY <1>7, <1>8 DEF Orderly

\* An alert ends the stream, and what is acknowledged by then stays so.
LEMMA AlertOrderly ==
  ASSUME StreamInv, NEW e \in End, NEW type \in {"fatal", "close"},
         WriteMessage(e, type, 2), call'[e] \in {"alert", "close"}, Grows, Calling(e)',
         UNCHANGED <<wire, acked, got, inLeft, nread, pending, rcvd>>
  PROVE  Orderly(e)
<1> DEFINE r == [type |-> type, lo |-> Issued(e), hi |-> Issued(e),
                 plen |-> 2 + MacLen, off |-> Len(wire[e])]
<1>1. /\ SocketInv /\ TypeOK /\ Settled(e) /\ acked[e] \in Nat /\ Issued(e) \in Nat
      /\ Len(wire[e]) \in Nat /\ records[e] \in Seq(Record)
      BY StreamFacts, SocketFacts
<1>2. Closing(e)'
      BY DEF Closing
<1>3. /\ r \in Record /\ r.type = type /\ r.lo = Issued(e) /\ r.hi = Issued(e)
      /\ r.lo <= r.hi
      BY <1>1 DEF Record, Types
<1>4. records'[e] = Append(records[e], r)
      BY <1>1 DEF WriteMessage, WriteRecord, TypeOK
<1> HIDE DEF r
<1>5. Chain(e)'
  <2>1. /\ r.type \in {"data", "fatal", "close"} /\ r.type # "data"
        /\ Len(wire'[e]) = Len(wire[e]) /\ acked'[e] = acked[e]
        BY <1>3
  <2> QED
    BY <1>2, <1>3, <1>4, <2>1, ChainAppended
<1>6. Issued(e)' = Issued(e)
  <2> DEFINE S == Append(records[e], r)
  <2>1. S # <<>> /\ S[Len(S)] = r
        BY <1>1, <1>3, AppendedRecord
  <2>2. records'[e] = S
        BY <1>4
  <2> HIDE DEF S
  <2>3. Issued(e)' = r.hi
        BY <2>1, <2>2 DEF Issued, Newest
  <2> QED
    BY <1>3, <2>3
<1>7. Settled(e)'
      BY <1>1, <1>2, <1>6 DEF Settled
<1>8. Prefix(e)' /\ OnWire(e)'
      BY PrefixKept, OnWireKept
<1> QED
  BY <1>5, <1>7, <1>8 DEF Orderly

\* Nobody asks for a renegotiation.
Quiet == HelloFrom = {}

\* Then nobody answers.
LEMMA NoRenegotiation ==
  ASSUME Quiet, StreamInv, NEW e \in End
  PROVE  /\ ~ReadHello(e) /\ ~RefuseReturn(e) /\ ~HelloRequest(e)
         /\ ReadAlert(e) => UNCHANGED <<inLeft, nread>>
<1>1. SocketInv /\ Calling(e) /\ Peer[e] \in End
      BY StreamFacts, SocketFacts
<1>2. ASSUME NEW type, Complete(e, type)
      PROVE  type \in {"data", "fatal", "close"}
  <2>1. nread[e] + 1 \in 1..Len(records[Peer[e]])
        BY <1>1, <1>2, CompleteFollows
  <2>2. records[Peer[e]][nread[e] + 1].type \in {"data", "fatal", "close"}
        BY <1>1, <2>1, ChainRecord
  <2> QED
    BY <1>2, <2>2 DEF Complete
<1>3. ~Complete(e, "hello") /\ ~Complete(e, "refuse")
      BY <1>2
<1> QED
  BY <1>1, <1>3 DEF ReadHello, RefuseReturn, HelloRequest, ReadAlert, Calling, Quiet

\* Every step of an end is one of the above.
LEMMA StepOrderly ==
  ASSUME Quiet, StreamInv, NEW e \in End,
         \/ Sends(e) \/ SendWouldBlock(e) \/ SendReset(e)
         \/ Recv(e) \/ RecvWouldBlock(e) \/ RecvEof(e) \/ RecvReset(e)
         \/ RefuseRecord(e)
         \/ Reads(e)
         \/ Returns(e)
         \/ Write(e) \/ Read(e) \/ ReadPending(e) \/ CloseNotify(e)
         \/ HelloRequest(e)
  PROVE  Orderly(e)
<1>1. SocketInv /\ TypeOK
      BY StreamFacts, SocketFacts
<1>2. Grows
      BY <1>1, StepFlows DEF Flows, SentWell
<1>3. CASE RefuseRecord(e)
  <2>1. CASE UNCHANGED <<records, outLeft>>
        BY <1>3, <2>1, QuietOrderly
  <2>2. CASE WriteMessage(e, "fatal", 2) /\ call' = [call EXCEPT ![e] = "alert"]
    <3>1. Calling(e)'
          BY <1>3, CallingKept
    <3> QED
      BY <1>1, <1>2, <1>3, <2>2, <3>1, AlertOrderly DEF RefuseRecord, inVars, TypeOK
  <2> QED
    BY <1>3, <2>1, <2>2 DEF RefuseRecord
<1>4. CASE CloseAlert(e)
  <2>1. Calling(e)'
        BY <1>4, CallingKept
  <2> QED
    BY <1>1, <1>2, <1>4, <2>1, AlertOrderly DEF CloseAlert, inVars, TypeOK
<1>5. CASE \/ SendWouldBlock(e) \/ SendReset(e) \/ RecvWouldBlock(e) \/ RecvEof(e)
           \/ RecvReset(e) \/ Read(e) \/ CloseNotify(e) \/ ReadCloseNotify(e)
           \/ NetClose(e) \/ ReadAlert(e)
      BY <1>5, NoRenegotiation, QuietOrderly
<1>6. CASE Sends(e) \/ Recv(e) \/ WriteReturn(e)
      BY <1>6, SendsOrderly, RecvOrderly, WriteReturnOrderly
<1>7. CASE ReadData(e) \/ ReadEmpty(e) \/ ReadPending(e) \/ Write(e)
      BY <1>7, ReadDataOrderly, ReadEmptyOrderly, ReadPendingOrderly, WriteOrderly
<1> QED
  BY <1>3, <1>4, <1>5, <1>6, <1>7, NoRenegotiation DEF Reads, Returns

\* An end that stands still keeps its part of StreamInv.
LEMMA StillOrderly ==
  ASSUME StreamInv, Grows, NEW f \in End, Still(f), eof'[f] = eof[f], shut'[f] = shut[f]
  PROVE  Orderly(f)
<1>1. Calling(f)'
  <2>1. Calling(f)
        BY StreamFacts
  <2> QED
    BY <2>1 DEF Calling, Still
<1>2. /\ InWrite(f) => InWrite(f)'
      /\ Closing(f) => Closing(f)'
      BY DEF InWrite, Closing, Still, Issued, Newest
<1>3. Chain(f)'
      BY <1>2, ChainKept DEF Still
<1>4. Settled(f)'
      BY <1>2, SettledKept DEF Still
<1>5. Prefix(f)'
      BY PrefixKept DEF Still
<1>6. OnWire(f)'
      BY OnWireKept DEF Still
<1> QED
  BY <1>1, <1>3, <1>4, <1>5, <1>6 DEF Orderly

\* StreamInv holds initially.
LEMMA StreamInvInit == Init => StreamInv
<1> SUFFICES ASSUME Init PROVE StreamInv
  OBVIOUS
<1>1. SocketInv
      BY SocketInvInit
<1>2. ASSUME NEW e \in End
      PROVE  Chain(e) /\ Settled(e) /\ Prefix(e) /\ Calling(e) /\ OnWire(e)
  <2>1. /\ records[e] = <<>> /\ outLeft[e] = 0 /\ nread[e] = 0 /\ writing[e] = {}
        /\ acked[e] = 0 /\ rcvd[e] = <<>> /\ pending[e] = <<>> /\ call[e] = "idle"
        /\ shut[e] = FALSE /\ eof[e] = FALSE
        BY DEF Init
  <2>2. Len(records[e]) = 0
        BY <2>1, EmptySeq
  <2>3. Chain(e) /\ OnWire(e)
        BY <2>1, <2>2 DEF Chain, OnWire
  <2>4. Settled(e) /\ Calling(e)
        BY <2>1 DEF Settled, Calling, Issued
  <2>5. Len(DataOf(e)) = 0
        BY <1>1, <2>1, DataType, EmptySeq
  <2>6. Prefix(e)
        BY <2>1, <2>5 DEF Prefix, UpTo
  <2> QED
    BY <2>3, <2>4, <2>6
<1>3. AckedIsOnWire
      BY <1>2 DEF AckedIsOnWire, OnWire
<1> QED
  BY <1>1, <1>2, <1>3 DEF StreamInv

\* Without renegotiation each step keeps StreamInv.
THEOREM StreamInvInductive == ASSUME Quiet PROVE StreamInv /\ [Next]_vars => StreamInv'
<1> SUFFICES ASSUME StreamInv, [Next]_vars PROVE StreamInv'
  OBVIOUS
<1>1. SocketInv /\ SocketInv'
      BY SocketInvInductive, StreamFacts DEF StreamInv
<1>2. ASSUME NEW f \in End
      PROVE  Orderly(f)
  <2>1. CASE UNCHANGED vars
    <3>1. /\ Still(f) /\ eof'[f] = eof[f] /\ shut'[f] = shut[f]
          /\ wire' = wire /\ records' = records /\ outLeft' = outLeft
          BY <2>1 DEF vars, Still
    <3>2. Grows
          BY <1>1, <3>1, NothingSent DEF SentWell
    <3> QED
      BY <3>1, <3>2, StillOrderly
  <2>2. CASE Next
    <3>1. PICK e \in End :
            \/ Sends(e) \/ SendWouldBlock(e) \/ SendReset(e)
            \/ Recv(e) \/ RecvWouldBlock(e) \/ RecvEof(e) \/ RecvReset(e)
            \/ RefuseRecord(e)
            \/ Reads(e)
            \/ Returns(e)
            \/ Write(e) \/ Read(e) \/ ReadPending(e) \/ CloseNotify(e)
            \/ HelloRequest(e)
          BY <2>2 DEF Next
    <3>2. CASE f = e
          BY <3>1, <3>2, StepOrderly
    <3>3. CASE f # e
      <4>1. Still(f) /\ eof'[f] = eof[f] /\ shut'[f] = shut[f]
            BY <1>1, <3>1, <3>3, OthersStandStill
      <4>2. Grows
            BY <1>1, <3>1, StepFlows DEF Flows, SentWell
      <4> QED
        BY <4>1, <4>2, StillOrderly
    <3> QED
      BY <3>2, <3>3
  <2> QED
    BY <2>1, <2>2
<1>3. AckedIsOnWire'
      BY <1>2 DEF AckedIsOnWire, Orderly, OnWire
<1> QED
  BY <1>1, <1>2, <1>3 DEF StreamInv, Orderly

\* Every state without renegotiation is one of StreamInv.
LEMMA StreamInvAlways == ASSUME Quiet PROVE Spec => []StreamInv
<1>1. Init => StreamInv
      BY StreamInvInit
<1>2. StreamInv /\ [Next]_vars => StreamInv'
      BY StreamInvInductive
<1> QED
  BY <1>1, <1>2, PTL DEF Spec

\* Whatever the socket takes at a time, a part of a header included, each
\* application gets a prefix of the other one's stream: no byte is lost, repeated
\* or invented.
THEOREM PrefixAlways == ASSUME Quiet PROVE Spec => []DeliveredInOrder
<1>1. StreamInv => DeliveredInOrder
  <2> SUFFICES ASSUME StreamInv, NEW e \in End
               PROVE  /\ \A i \in DOMAIN DataOf(e) : DataOf(e)[i] = i
                      /\ Len(DataOf(e)) <= Issued(Peer[e])
    BY DEF DeliveredInOrder, DataOf
  <2> DEFINE R == records[Peer[e]]
             n == nread[e]
  <2>1. /\ SocketInv /\ Prefix(e) /\ Following(e) /\ Peer[e] \in End /\ n \in Nat
        BY StreamFacts, SocketFacts
  <2>2. R \in Seq(Record) /\ Len(R) \in Nat /\ Issued(Peer[e]) \in Nat
        BY <2>1, SocketFacts
  <2>3. DataOf(e) \in Seq(Nat)
        BY <2>1, DataType
  <2>4. DOMAIN DataOf(e) = 1..Len(DataOf(e))
        BY <2>3, LenProperties
  <2>5. n = 0 \/ n \in 1..Len(R)
        BY <2>1, <2>2 DEF Following
  <2>6. UpTo(R, n) <= Issued(Peer[e])
    <3>1. CASE n = 0
          BY <2>2, <3>1 DEF UpTo
    <3>2. CASE n \in 1..Len(R)
          BY <2>1, <3>2, ChainRecord
    <3> QED
      BY <2>5, <3>1, <3>2
  <2> QED
    BY <2>1, <2>4, <2>6 DEF Prefix
<1> QED
  BY <1>1, StreamInvAlways, PTL

\* And ssl_write reports success only for bytes the socket has taken.
THEOREM OnWireAlways == ASSUME Quiet PROVE Spec => []AckedIsOnWire
<1>1. StreamInv => AckedIsOnWire
      BY DEF StreamInv
<1> QED
  BY <1>1, StreamInvAlways, PTL

-----------------------------------------------------------------------------
(* The end of the stream *)

\* No application passes an empty message to ssl_write.
Filling == 0 \notin WriteLens

\* Has e been told that its peer's stream is over?
Told(e) == eof[e] \/ ended[e] = "notified"

\* What EndInv says of one end.
LEMMA EndInvFacts ==
  ASSUME EndInv, NEW e \in End
  PROVE  /\ StreamInv /\ SocketInv /\ TypeOK
         /\ Over(e) /\ Calling(e) /\ Settled(e) /\ Prefix(e) /\ Following(e)
         /\ Peer[e] \in End /\ Peer[Peer[e]] = e /\ Peer[e] # e
         /\ acked[e] \in Nat /\ Issued(e) \in Nat /\ Len(rcvd[e]) \in Nat
         /\ rcvd[e] \in Seq(Nat) /\ pending[e] \in Seq(Nat)
         /\ acked[e] <= Issued(e)
<1>1. StreamInv /\ Over(e)
      BY DEF EndInv
<1>2. SocketInv /\ Calling(e) /\ Settled(e) /\ Prefix(e)
      BY <1>1, StreamFacts
<1>3. /\ TypeOK /\ Following(e)
      /\ Peer[e] \in End /\ Peer[Peer[e]] = e /\ Peer[e] # e
      /\ acked[e] \in Nat /\ Issued(e) \in Nat
      /\ rcvd[e] \in Seq(Nat) /\ pending[e] \in Seq(Nat)
      BY <1>2, SocketFacts
<1>4. Len(rcvd[e]) \in Nat
      BY <1>3, LenProperties
<1> QED
  BY <1>1, <1>2, <1>3, <1>4 DEF Settled

\* So ssl_read never skips a record.
LEMMA NothingEmpty ==
  ASSUME EndInv, NEW e \in End
  PROVE  ~ReadEmpty(e)
<1> DEFINE r == records[Peer[e]][nread[e] + 1]
<1> SUFFICES ASSUME Complete(e, "data"), r.lo = r.hi PROVE FALSE
    BY DEF ReadEmpty
<1>1. SocketInv /\ Peer[e] \in End
      BY EndInvFacts
<1>2. nread[e] + 1 \in 1..Len(records[Peer[e]]) /\ r.type = "data" /\ r.lo \in Nat
      BY <1>1, CompleteFollows DEF Complete
<1>3. r.lo < r.hi
      BY <1>1, <1>2, EndInvFacts DEF Over
<1> QED
  BY <1>2, <1>3

\* An end that was told reads no more, and its peer's writes are over.
LEMMA ToldIsOver ==
  ASSUME EndInv, NEW e \in End, Told(e)
  PROVE  /\ pending[e] = <<>> /\ acked[Peer[e]] <= Len(rcvd[e]) /\ Closing(Peer[e])
         /\ call[e] \notin {"read", "again"}
         /\ ~WriteReturn(Peer[e])
<1>1. pending[e] = <<>> /\ acked[Peer[e]] <= Len(rcvd[e]) /\ Closing(Peer[e])
      BY EndInvFacts DEF Over, Told
<1>2. call[e] \notin {"read", "again"}
      BY EndInvFacts DEF Told, Calling
<1>3. ~WriteReturn(Peer[e])
  <2>1. Calling(Peer[e])
        BY EndInvFacts
  <2> QED
    BY <1>1, <2>1 DEF WriteReturn, Closing, Calling
<1> QED
  BY <1>1, <1>2, <1>3

\* The socket's end comes behind every acknowledged record.
LEMMA EofIsEnd ==
  ASSUME EndInv, NEW e \in End, RecvEof(e)
  PROVE  /\ pending[e] = <<>> /\ acked[Peer[e]] <= Len(rcvd[e]) /\ Closing(Peer[e])
         /\ ~Told(e)
<1> DEFINE P == Peer[e]
           R == records[P]
           n == nread[e]
           k == n + 1
<1>1. /\ StreamInv /\ SocketInv /\ TypeOK /\ Following(e) /\ Prefix(e) /\ Calling(e)
      /\ P \in End
      BY EndInvFacts
<1>2. /\ acked[P] \in Nat /\ Issued(P) \in Nat /\ acked[P] <= Issued(P) /\ Calling(P)
      /\ R \in Seq(Record) /\ Len(R) \in Nat /\ Issued(P) = UpTo(R, Len(R))
      /\ Len(wire[P]) \in Nat
      BY <1>1, EndInvFacts, SocketFacts, IssuedEnd
<1>3. /\ call[e] \in {"read", "again"} /\ inLeft[e] < Wanted(e) /\ shut[P]
      /\ Len(wire[P]) - got[e] = 0
      BY DEF RecvEof, Reading, InTransit
<1>4. pending[e] = <<>> /\ ~Told(e) /\ Closing(P)
      BY <1>1, <1>2, <1>3 DEF Following, Calling, Closing, Told
<1>5. /\ n \in Nat /\ n <= Len(R) /\ got[e] \in Nat /\ inLeft[e] \in Nat
      /\ got[e] = EndOf(R, n) + inLeft[e] /\ Len(wire[P]) = got[e]
      BY <1>1, <1>2, <1>3, SocketFacts DEF Following
<1>6. Len(rcvd[e]) = UpTo(R, n)
      BY <1>1, <1>4, DataType DEF Prefix
<1>7. EndOf(R, n) \in Nat /\ UpTo(R, n) \in Nat
      BY <1>2, <1>5, EndTypes
<1>8. ASSUME UpTo(R, n) < acked[P]
      PROVE  FALSE
  <2>1. n # Len(R)
        BY <1>2, <1>7, <1>8
  <2>2. k \in 1..Len(R) /\ k - 1 = n
        BY <1>2, <1>5, <2>1
  <2>3. /\ R[k] \in Record /\ EndOf(R, k) = R[k].off + Size(R[k])
        /\ R[k].lo \in Nat /\ R[k].lo = UpTo(R, n)
        /\ R[k].type = "data" => R[k].off = EndOf(R, n)
        /\ R[k].type # "data" => R[k].lo = Issued(P)
        /\ R[k].lo < acked[P] => EndOf(R, k) <= Len(wire[P])
        BY <1>1, <2>2, ChainRecord
  <2>4. R[k].type = "data"
        BY <1>2, <1>7, <1>8, <2>3
  <2>5. Size(R[k]) \in Nat /\ Size(R[k]) >= HdrLen
        BY <1>2, <2>2, RecordTypes
  <2>6. Size(R[k]) <= inLeft[e]
    <3> DEFINE end == EndOf(R, n)
               size == Size(R[k])
    <3>1. end + size <= end + inLeft[e] /\ end \in Nat /\ size \in Nat
          BY <1>5, <1>7, <1>8, <2>3, <2>4, <2>5
    <3> HIDE DEF end, size
    <3>2. size <= inLeft[e]
          BY <1>5, <3>1
    <3> QED
      BY <3>2 DEF size
  <2>7. Wanted(e) = IF inLeft[e] < HdrLen THEN HdrLen ELSE Size(R[k])
        BY DEF Wanted
  <2> HIDE DEF R, k
  <2> QED
    BY <1>3, <1>5, <2>5, <2>6, <2>7
<1>9. acked[P] <= Len(rcvd[e])
      BY <1>2, <1>6, <1>7, <1>8
<1> QED
  BY <1>4, <1>9

\* And so does the close_notify alert.
LEMMA NotifyIsEnd ==
  ASSUME EndInv, NEW e \in End, ReadCloseNotify(e)
  PROVE  /\ pending[e] = <<>> /\ acked[Peer[e]] <= Len(rcvd[e]) /\ Closing(Peer[e])
         /\ ~Told(e) /\ ended'[e] = "notified"
<1> DEFINE P == Peer[e]
           R == records[P]
           k == nread[e] + 1
<1>1. /\ StreamInv /\ SocketInv /\ TypeOK /\ Following(e) /\ Prefix(e) /\ Calling(e)
      /\ P \in End
      BY EndInvFacts
<1>2. acked[P] <= Issued(P)
      BY <1>1, EndInvFacts
<1>3. Complete(e, "close") /\ call[e] \in {"read", "again"} /\ R[k].type = "close"
      BY DEF ReadCloseNotify, Complete, Reading
<1>4. pending[e] = <<>> /\ ~Told(e) /\ ended[e] = "no"
      BY <1>1, <1>3 DEF Following, Calling, Told
<1>5. ended'[e] = "notified"
      BY <1>1, <1>4 DEF ReadCloseNotify, Stop, TypeOK
<1>6. k \in 1..Len(R) /\ k - 1 = nread[e]
      BY <1>1, <1>3, CompleteFollows
<1>7. R[k].lo = UpTo(R, nread[e]) /\ R[k].lo = Issued(P) /\ Closing(P)
  <2>1. /\ R[k].lo = UpTo(R, k - 1)
        /\ R[k].type # "data" => R[k].lo = Issued(P) /\ Closing(P)
    <3>1. Chain(P)
          BY <1>1, StreamFacts
    <3> HIDE DEF k
    <3> QED
      BY <1>6, <3>1 DEF Chain
  <2> HIDE DEF R, k
  <2> QED
    BY <1>3, <1>6, <2>1
<1>8. Len(rcvd[e]) = UpTo(R, nread[e])
      BY <1>1, <1>4, DataType DEF Prefix
<1> QED
  BY <1>2, <1>4, <1>5, <1>7, <1>8

\* What a step of e moves of the streams: only a write, its return, a read and
\* the two ends of the stream move any of it.
LEMMA StreamsMove ==
  ASSUME Quiet, EndInv, NEW e \in End,
         \/ Sends(e) \/ SendWouldBlock(e) \/ SendReset(e)
         \/ Recv(e) \/ RecvWouldBlock(e) \/ RecvEof(e) \/ RecvReset(e)
         \/ RefuseRecord(e)
         \/ Reads(e)
         \/ Returns(e)
         \/ Write(e) \/ Read(e) \/ ReadPending(e) \/ CloseNotify(e)
         \/ HelloRequest(e)
  PROVE  /\ WriteReturn(e) \/ acked' = acked
         /\ ReadPending(e) \/ rcvd' = rcvd
         /\ ReadPending(e) \/ ReadData(e) \/ pending' = pending
         /\ RecvEof(e) \/ eof' = eof
         /\ ReadCloseNotify(e) \/ (ended'[e] = "notified" <=> ended[e] = "notified")
         /\ Write(e) \/ Issued(e)' = Issued(e)
<1> USE DEF outVars, inVars, Stop
<1>1. TypeOK /\ StreamInv /\ SocketInv
      BY EndInvFacts
<1>2. ~ReadHello(e) /\ ~RefuseReturn(e) /\ ~HelloRequest(e) /\ ~ReadEmpty(e)
      BY <1>1, NoRenegotiation, NothingEmpty
<1>3. ASSUME NEW type \in Types, WriteMessage(e, type, 2), wire' = wire
      PROVE  Issued(e)' = Issued(e)
  <2>1. Issued(e) \in Nat
        BY <1>1, SocketFacts
  <2> QED
    BY <1>1, <1>3, <2>1, RecordPrepared DEF WriteMessage
<1>4. CASE Sends(e)
  <2>1. UNCHANGED <<records, acked, rcvd, pending, eof, ended>>
        BY <1>4 DEF Sends, SendHeader, SendBody
  <2> QED
    BY <2>1 DEF Issued, Newest
<1>5. CASE SendWouldBlock(e)
  <2>1. UNCHANGED <<records, acked, rcvd, pending, eof>>
        BY <1>5 DEF SendWouldBlock
  <2>2. ended'[e] = ended[e] \/ ended'[e] = IF ended[e] = "no" THEN "closed" ELSE ended[e]
        BY <1>1, <1>5 DEF SendWouldBlock, TypeOK
  <2> QED
    BY <2>1, <2>2 DEF Issued, Newest
<1>6. CASE SendReset(e) \/ RecvReset(e)
  <2>1. UNCHANGED <<records, acked, rcvd, pending, eof>>
        BY <1>6 DEF SendReset, RecvReset
  <2>2. ended'[e] = IF ended[e] = "no" THEN "reset" ELSE ended[e]
        BY <1>1, <1>6 DEF SendReset, RecvReset, TypeOK
  <2> QED
    BY <2>1, <2>2 DEF Issued, Newest
<1>7. CASE Recv(e) \/ RecvWouldBlock(e) \/ Read(e) \/ CloseNotify(e)
  <2>1. UNCHANGED <<records, acked, rcvd, pending, eof, ended>>
        BY <1>7 DEF Recv, RecvWouldBlock, Read, CloseNotify
  <2> QED
    BY <2>1 DEF Issued, Newest
<1>8. CASE RecvEof(e) \/ ReadCloseNotify(e) \/ ReadData(e)
  <2>1. UNCHANGED <<records, acked, rcvd>>
        BY <1>8 DEF RecvEof, ReadCloseNotify, ReadData
  <2>2. /\ ReadData(e) \/ pending' = pending
        /\ RecvEof(e) \/ eof' = eof
        /\ ReadCloseNotify(e) \/ ended' = ended
        BY <1>8 DEF RecvEof, ReadCloseNotify, ReadData
  <2> QED
    BY <2>1, <2>2 DEF Issued, Newest
<1>9. CASE RefuseRecord(e)
  <2>1. UNCHANGED <<wire, acked, rcvd, pending, eof>>
        BY <1>9 DEF RefuseRecord
  <2>2. ended'[e] = IF ended[e] = "no" THEN "refused" ELSE ended[e]
        BY <1>1, <1>9 DEF RefuseRecord, TypeOK
  <2>3. Issued(e)' = Issued(e)
    <3>1. CASE UNCHANGED <<records, outLeft>>
          BY <3>1 DEF Issued, Newest
    <3>2. CASE WriteMessage(e, "fatal", 2)
          BY <1>3, <2>1, <3>2 DEF Types
    <3> QED
      BY <1>9, <3>1, <3>2 DEF RefuseRecord
  <2> QED
    BY <2>1, <2>2, <2>3
<1>10. CASE ReadAlert(e)
  <2>1. UNCHANGED <<records, acked, rcvd, pending, eof>>
        BY <1>10 DEF ReadAlert
  <2>2. ended'[e] = IF ended[e] = "no" THEN "alert" ELSE ended[e]
        BY <1>1, <1>10 DEF ReadAlert, TypeOK
  <2> QED
    BY <2>1, <2>2 DEF Issued, Newest
<1>11. CASE NetClose(e)
  <2>1. UNCHANGED <<records, acked, rcvd, pending, eof>>
        BY <1>11 DEF NetClose
  <2>2. ended'[e] = IF ended[e] = "no" THEN "closed" ELSE ended[e]
        BY <1>1, <1>11 DEF NetClose, TypeOK
  <2> QED
    BY <2>1, <2>2 DEF Issued, Newest
<1>12. CASE CloseAlert(e)
  <2>1. UNCHANGED <<wire, acked, rcvd, pending, eof, ended>> /\ WriteMessage(e, "close", 2)
        BY <1>12 DEF CloseAlert
  <2> QED
    BY <1>3, <2>1 DEF Types
<1>13. CASE WriteReturn(e)
  <2>1. UNCHANGED <<records, rcvd, pending, eof, ended>>
        BY <1>13 DEF WriteReturn
  <2> QED
    BY <1>13, <2>1 DEF Issued, Newest
<1>14. CASE Write(e)
  <2>1. UNCHANGED <<acked, rcvd, pending, eof, ended>>
        BY <1>14 DEF Write
  <2> QED
    BY <1>14, <2>1
<1>15. CASE ReadPending(e)
  <2>1. UNCHANGED <<records, acked, eof, ended>>
        BY <1>15 DEF ReadPending
  <2> QED
    BY <1>15, <2>1 DEF Issued, Newest
<1> QED
  BY <1>2, <1>4, <1>5, <1>6, <1>7, <1>8, <1>9, <1>10, <1>11, <1>12, <1>13, <1>14, <1>15
     DEF Reads, Returns

\* An end's data records stay filled.
LEMMA FilledKept ==
  ASSUME Quiet, Filling, EndInv, NEW e \in End,
         \/ Sends(e) \/ SendWouldBlock(e) \/ SendReset(e)
         \/ Recv(e) \/ RecvWouldBlock(e) \/ RecvEof(e) \/ RecvReset(e)
         \/ RefuseRecord(e)
         \/ Reads(e)
         \/ Returns(e)
         \/ Write(e) \/ Read(e) \/ ReadPending(e) \/ CloseNotify(e)
         \/ HelloRequest(e)
  PROVE  \A k \in 1..Len(records'[e]) :
           records'[e][k].type = "data" => records'[e][k].lo < records'[e][k].hi
<1> DEFINE Filled(R) == \A k \in 1..Len(R) : R[k].type = "data" => R[k].lo < R[k].hi
<1>1. /\ TypeOK /\ StreamInv /\ SocketInv /\ Filled(records[e])
      /\ records[e] \in Seq(Record) /\ acked[e] \in Nat /\ Issued(e) \in Nat
      /\ Len(wire[e]) \in Nat
      BY EndInvFacts, SocketFacts DEF Over
<1>2. ASSUME NEW r \in Record, records'[e] = Append(records[e], r),
             r.type = "data" => r.lo < r.hi
      PROVE  Filled(records'[e])
  <2> DEFINE S == Append(records[e], r)
             K == Len(records[e])
  <2>1. /\ K \in Nat /\ Len(S) = K + 1 /\ S[K + 1] = r
        /\ \A k \in 1..K : S[k] = records[e][k]
        BY <1>1, AppendedRecord
  <2> HIDE DEF S
  <2>2. \A k \in 1..K + 1 : k \in 1..K \/ k = K + 1
        BY <2>1
  <2>3. Filled(S)
        BY <1>1, <1>2, <2>1, <2>2
  <2> QED
    BY <1>2, <2>3 DEF S
<1>3. ASSUME NEW type \in {"fatal", "close"}, WriteMessage(e, type, 2)
      PROVE  Filled(records'[e])
  <2> DEFINE r == [type |-> type, lo |-> Issued(e), hi |-> Issued(e), plen |-> 2 + MacLen,
                   off |-> Len(wire[e])]
  <2>1. r \in Record /\ r.type # "data"
        BY <1>1 DEF Record, Types
  <2>2. records'[e] = Append(records[e], r)
        BY <1>1, <1>3 DEF WriteMessage, WriteRecord, TypeOK
  <2> HIDE DEF r
  <2> QED
    BY <1>2, <2>1, <2>2
<1>4. CASE Write(e)
  <2>1. PICK len \in WriteLens :
          \/ records' = records
          \/ WriteRecord(e, "data", acked[e], acked[e] + Least(len, MaxContent),
                         Least(len, MaxContent))
        BY <1>4 DEF Write
  <2> DEFINE n == Least(len, MaxContent)
             r == [type |-> "data", lo |-> acked[e], hi |-> acked[e] + n,
                   plen |-> n + MacLen, off |-> Len(wire[e])]
  <2>2. n \in Nat /\ n # 0
        BY DEF Least, Filling
  <2>3. r \in Record /\ r.lo < r.hi
        BY <1>1, <2>2 DEF Record, Types
  <2>4. CASE records' = records
        BY <1>1, <2>4
  <2>5. CASE WriteRecord(e, "data", acked[e], acked[e] + n, n)
    <3>1. records'[e] = Append(records[e], r)
          BY <1>1, <2>5 DEF WriteRecord, TypeOK
    <3> HIDE DEF r
    <3> QED
      BY <1>2, <2>3, <3>1
  <2> QED
    BY <2>1, <2>4, <2>5
<1>5. CASE RefuseRecord(e) \/ CloseAlert(e)
  <2>1. \/ records' = records
        \/ \E type \in {"fatal", "close"} : WriteMessage(e, type, 2)
        BY <1>5 DEF RefuseRecord, CloseAlert
  <2> QED
    BY <1>1, <1>3, <2>1
<1>6. CASE \/ Sends(e) \/ SendWouldBlock(e) \/ SendReset(e)
           \/ Recv(e) \/ RecvWouldBlock(e) \/ RecvEof(e) \/ RecvReset(e)
  <2>1. records' = records
        BY <1>6 DEF Sends, SendHeader, SendBody, SendWouldBlock, SendReset, Recv,
                    RecvWouldBlock, RecvEof, RecvReset, outVars
  <2> QED
    BY <1>1, <2>1
<1>7. CASE \/ ReadData(e) \/ ReadEmpty(e) \/ ReadAlert(e) \/ ReadCloseNotify(e)
           \/ WriteReturn(e) \/ NetClose(e)
           \/ Read(e) \/ ReadPending(e) \/ CloseNotify(e)
  <2>1. records' = records
        BY <1>7 DEF ReadData, ReadEmpty, ReadAlert, ReadCloseNotify, WriteReturn,
                    NetClose, Read, ReadPending, CloseNotify, outVars
  <2> QED
    BY <1>1, <2>1
<1> QED
  BY <1>1, <1>4, <1>5, <1>6, <1>7, NoRenegotiation DEF Reads, Returns

\* EndInv holds initially.
LEMMA EndInvInit == Init => EndInv
<1> SUFFICES ASSUME Init PROVE EndInv
  OBVIOUS
<1>1. StreamInv
      BY StreamInvInit
<1>2. ASSUME NEW e \in End
      PROVE  Over(e)
  <2>1. records[e] = <<>> /\ eof[e] = FALSE /\ ended[e] = "no"
        BY DEF Init
  <2>2. Len(records[e]) = 0
        BY <2>1, EmptySeq
  <2> QED
    BY <2>1, <2>2 DEF Over
<1> QED
  BY <1>1, <1>2 DEF EndInv

\* Each step keeps EndInv.
THEOREM EndInvInductive == ASSUME Quiet, Filling PROVE EndInv /\ [Next]_vars => EndInv'
<1> SUFFICES ASSUME EndInv, [Next]_vars PROVE EndInv'
  OBVIOUS
<1>1. StreamInv'
      BY StreamInvInductive, EndInvFacts DEF EndInv
<1>2. ASSUME NEW f \in End
      PROVE  Over(f)'
  <2>1. CASE UNCHANGED vars
    <3>1. Over(f)
          BY EndInvFacts
    <3> QED
      BY <2>1, <3>1 DEF vars, Over, Closing
  <2>2. CASE Next
    <3>1. PICK e \in End :
            \/ Sends(e) \/ SendWouldBlock(e) \/ SendReset(e)
            \/ Recv(e) \/ RecvWouldBlock(e) \/ RecvEof(e) \/ RecvReset(e)
            \/ RefuseRecord(e)
            \/ Reads(e)
            \/ Returns(e)
            \/ Write(e) \/ Read(e) \/ ReadPending(e) \/ CloseNotify(e)
            \/ HelloRequest(e)
          BY <2>2 DEF Next
    <3> DEFINE P == Peer[f]
    <3>2. /\ SocketInv /\ Over(f) /\ P \in End /\ P # f
          /\ \A g \in End \ {e} : Still(g) /\ eof'[g] = eof[g]
          BY <3>1, EndInvFacts, OthersStandStill
    <3>3. \A k \in 1..Len(records'[f]) :
            records'[f][k].type = "data" => records'[f][k].lo < records'[f][k].hi
      <4>1. CASE f = e
            BY <3>1, <4>1, FilledKept
      <4>2. CASE f # e
            BY <3>2, <4>2 DEF Still, Over
      <4> QED
        BY <4>1, <4>2
    <3>4. Closing(P) => Closing(P)'
      <4>1. CASE P = e
            BY <3>1, <3>2, <4>1, ClosingKept
      <4>2. CASE P # e
            BY <3>2, <4>2 DEF Still, Closing
      <4> QED
        BY <4>1, <4>2
    <3>5. Told(f) => acked'[P] = acked[P]
      <4>1. CASE P = e
            BY <3>1, <4>1, StreamsMove, ToldIsOver
      <4>2. CASE P # e
            BY <3>2, <4>2 DEF Still
      <4> QED
        BY <4>1, <4>2
    <3>6. Told(f) => pending'[f] = pending[f] /\ rcvd'[f] = rcvd[f]
      <4>1. CASE f = e
        <5> SUFFICES ASSUME Told(f) PROVE pending'[f] = pending[f] /\ rcvd'[f] = rcvd[f]
          OBVIOUS
        <5>1. ~ReadPending(e) /\ ~ReadData(e)
              BY <4>1, ToldIsOver DEF ReadPending, ReadData, Complete, Reading
        <5> QED
          BY <3>1, <4>1, <5>1, StreamsMove
      <4>2. CASE f # e
            BY <3>2, <4>2 DEF Still
      <4> QED
        BY <4>1, <4>2
    <3>7. CASE Told(f)
      <4>1. pending'[f] = <<>> /\ acked'[P] <= Len(rcvd'[f]) /\ Closing(P)'
            BY <3>4, <3>5, <3>6, <3>7, ToldIsOver
      <4> QED
        BY <3>3, <4>1 DEF Over
    <3>8. CASE ~Told(f)
      <4>1. CASE f = e /\ (RecvEof(e) \/ ReadCloseNotify(e))
        <5>1. pending[e] = <<>> /\ acked[P] <= Len(rcvd[e]) /\ Closing(P)
              BY <4>1, EofIsEnd, NotifyIsEnd
        <5>2. pending' = pending /\ acked' = acked /\ rcvd' = rcvd
              BY <4>1 DEF RecvEof, ReadCloseNotify, inVars
        <5>3. pending'[f] = <<>> /\ acked'[P] <= Len(rcvd'[f]) /\ Closing(P)'
              BY <3>4, <4>1, <5>1, <5>2
        <5> QED
          BY <3>3, <5>3 DEF Over
      <4>2. CASE f = e /\ ~RecvEof(e) /\ ~ReadCloseNotify(e)
        <5>1. ~(eof'[f] \/ ended'[f] = "notified")
              BY <3>1, <3>8, <4>2, StreamsMove DEF Told
        <5> QED
          BY <3>3, <5>1 DEF Over
      <4>3. CASE f # e
        <5>1. ~(eof'[f] \/ ended'[f] = "notified")
              BY <3>2, <3>8, <4>3 DEF Told, Still
        <5> QED
          BY <3>3, <5>1 DEF Over
      <4> QED
        BY <4>1, <4>2, <4>3
    <3> QED
      BY <3>7, <3>8
  <2> QED
    BY <2>1, <2>2
<1> QED
  BY <1>1, <1>2 DEF EndInv

\* Every state without renegotiation and empty messages is one of EndInv.
LEMMA EndInvAlways == ASSUME Quiet, Filling PROVE Spec => []EndInv
<1>1. Init => EndInv
      BY EndInvInit
<1>2. EndInv /\ [Next]_vars => EndInv'
      BY EndInvInductive
<1> QED
  BY <1>1, <1>2, PTL DEF Spec

\* When ssl_read reports the end of the stream, by 0 or by the close_notify
\* alert, every byte the peer's ssl_write has reported as written was handed out.
THEOREM EofMeansEndAlways == ASSUME Quiet, Filling PROVE Spec => []EofMeansEnd
<1>1. EndInv => EofMeansEnd
  <2> SUFFICES ASSUME EndInv, NEW e \in End, Told(e)
               PROVE  Len(rcvd[e]) >= acked[Peer[e]]
    BY DEF EofMeansEnd, Told
  <2>1. /\ Len(rcvd[e]) \in Nat /\ acked[Peer[e]] \in Nat
        /\ acked[Peer[e]] <= Len(rcvd[e])
        BY EndInvFacts, ToldIsOver
  <2> QED
    BY <2>1
<1> QED
  BY <1>1, EndInvAlways, PTL

-----------------------------------------------------------------------------
(* The refinement of ByteStream *)

\* The abstract variables of the streams.
SentMap == [e \in End |-> Issued(e)]
OverMap == [e \in End |-> eof[e] \/ ended[e] = "notified"]

\* A step that moves none of them.
LEMMA StreamsStutter ==
  ASSUME UNCHANGED <<acked, rcvd>>, \A x \in End : Issued(x)' = Issued(x),
         \A x \in End : Told(x)' = Told(x)
  PROVE  UNCHANGED Stream!vars
<1>1. SentMap' = SentMap
      BY DEF SentMap
<1>2. OverMap' = OverMap
      BY DEF OverMap, Told
<1> QED
  BY <1>1, <1>2 DEF Stream!vars, SentMap, OverMap

\* ssl_write accepts a message behind an acknowledged one, or goes on flushing.
LEMMA WriteAccepts ==
  ASSUME Filling, EndInv, NEW e \in End, Write(e),
         \A x \in End \ {e} : Issued(x)' = Issued(x)
  PROVE  Stream!Accept(e) \/ UNCHANGED Stream!vars
<1>1. /\ TypeOK /\ StreamInv /\ SocketInv /\ Settled(e)
      /\ acked[e] \in Nat /\ Issued(e) \in Nat
      BY EndInvFacts
<1>2. /\ UNCHANGED <<wire, acked, rcvd, eof, ended>>
      /\ call[e] = "idle" /\ ended[e] = "no"
      BY DEF Write, Usable, inVars
<1>3. \A x \in End : Told(x)' = Told(x)
      BY <1>2 DEF Told
<1>4. PICK len \in WriteLens :
        IF outLeft[e] # 0
          THEN UNCHANGED <<records, outLeft>>
          ELSE WriteRecord(e, "data", acked[e], acked[e] + Least(len, MaxContent),
                           Least(len, MaxContent))
      BY DEF Write
<1>5. CASE outLeft[e] # 0
  <2>1. Issued(e)' = Issued(e)
        BY <1>4, <1>5 DEF Issued, Newest
  <2>2. \A x \in End : Issued(x)' = Issued(x)
        BY <2>1
  <2> QED
    BY <1>2, <1>3, <2>2, StreamsStutter
<1>6. CASE outLeft[e] = 0
  <2> DEFINE n == Least(len, MaxContent)
  <2>1. n \in Nat /\ n # 0
        BY DEF Least, Filling
  <2>2. acked[e] = Issued(e)
        BY <1>1, <1>2, <1>6 DEF Settled, InWrite, Closing
  <2>3. Issued(e)' = acked[e] + n
    <3>1. WriteRecord(e, "data", acked[e], acked[e] + n, n) /\ "data" \in Types
          BY <1>4, <1>6 DEF Types
    <3>2. acked[e] + n \in Nat /\ acked[e] <= acked[e] + n /\ Issued(e) <= acked[e]
          BY <1>1, <2>1, <2>2
    <3> HIDE DEF n
    <3> QED
      BY <1>1, <1>2, <2>1, <3>1, <3>2, RecordPrepared
  <2>4. Issued(e)' > Issued(e)
        BY <1>1, <2>1, <2>2, <2>3
  <2>5. SentMap'[e] = Issued(e)' /\ SentMap[e] = Issued(e)
        BY DEF SentMap
  <2>6. SentMap' = [SentMap EXCEPT ![e] = SentMap'[e]]
        BY DEF SentMap
  <2>7. OverMap' = OverMap
        BY <1>2 DEF OverMap
  <2>8. Stream!Accept(e)
        BY <1>2, <2>2, <2>4, <2>5, <2>6, <2>7 DEF Stream!Accept, SentMap, OverMap
  <2> QED
    BY <2>8
<1> QED
  BY <1>5, <1>6

\* Its return acknowledges the whole message, and never behind the end.
LEMMA ReturnAcknowledges ==
  ASSUME Filling, EndInv, NEW e \in End, WriteReturn(e)
  PROVE  Stream!Acknowledge(e)
<1>1. /\ TypeOK /\ StreamInv /\ SocketInv /\ Settled(e) /\ Calling(e)
      /\ acked[e] \in Nat /\ Issued(e) \in Nat
      /\ Peer[e] \in End /\ Peer[Peer[e]] = e
      BY EndInvFacts
<1>2. /\ UNCHANGED <<records, rcvd, eof, ended>> /\ call[e] = "write" /\ outLeft[e] = 0
      BY DEF WriteReturn, inVars, outVars
<1>3. ~Told(Peer[e])
      BY <1>1, ToldIsOver
<1>4. acked'[e] = Issued(e)
      BY <1>1, WriteReturnOrderly
<1>5. acked' = [acked EXCEPT ![e] = Issued(e)]
  <2>1. \E n : acked' = [acked EXCEPT ![e] = n]
        BY DEF WriteReturn
  <2> QED
    BY <1>1, <1>4, <2>1 DEF TypeOK
<1>6. acked[e] < Issued(e)
  <2>1. PICK len \in writing[e] : acked'[e] = acked[e] + Least(len, MaxContent)
        BY <1>1 DEF WriteReturn, TypeOK
  <2>2. len \in WriteLens
        BY <1>1, <2>1 DEF TypeOK
  <2>3. Least(len, MaxContent) \in Nat /\ Least(len, MaxContent) # 0
        BY <2>2 DEF Least, Filling
  <2> QED
    BY <1>1, <1>4, <2>1, <2>3
<1>7. SentMap' = SentMap /\ OverMap' = OverMap /\ SentMap[e] = Issued(e)
      BY <1>2 DEF SentMap, OverMap, Issued, Newest
<1>8. OverMap[Peer[e]] = Told(Peer[e])
      BY <1>1 DEF OverMap, Told
<1> QED
  BY <1>2, <1>3, <1>5, <1>6, <1>7, <1>8 DEF Stream!Acknowledge, SentMap, OverMap

\* ssl_read hands out the next bytes of the stream, and none behind its end.
LEMMA ReadDelivers ==
  ASSUME EndInv, NEW e \in End, ReadPending(e)
  PROVE  Stream!Deliver(e)
<1> DEFINE p == pending[e]
           q == rcvd[e]
           P == Peer[e]
           R == records[P]
<1>1. /\ TypeOK /\ StreamInv /\ SocketInv /\ Prefix(e) /\ Following(e)
      /\ P \in End /\ Issued(P) \in Nat /\ nread[e] \in Nat
      /\ p \in Seq(Nat) /\ q \in Seq(Nat) /\ Len(q) \in Nat /\ Len(p) \in Nat
  <2>1. TypeOK /\ StreamInv /\ SocketInv /\ Prefix(e) /\ Following(e) /\ P \in End
        BY EndInvFacts
  <2>2. Issued(P) \in Nat /\ nread[e] \in Nat /\ p \in Seq(Nat) /\ q \in Seq(Nat)
        BY <2>1, SocketFacts
  <2> QED
    BY <2>1, <2>2, LenProperties
<1>2. p # <<>> /\ UNCHANGED <<records, acked, eof, ended>>
      BY DEF ReadPending, outVars
<1>3. PICK len \in ReadLens :
        rcvd' = [rcvd EXCEPT ![e] = @ \o SubSeq(p, 1, Least(len, Len(p)))]
      BY DEF ReadPending
<1> DEFINE n == Least(len, Len(p))
<1>4. n \in 1..Len(p)
  <2>1. Len(p) # 0 /\ len \in Nat \ {0}
        BY <1>1, <1>2, EmptySeq
  <2>2. n = len \/ n = Len(p)
        BY DEF Least
  <2>3. n \in Nat /\ n <= Len(p)
        BY <1>1, <2>1, LeastNat
  <2> HIDE DEF n, p
  <2> QED
    BY <1>1, <2>1, <2>2, <2>3
<1>5. Len(q) + Len(p) <= Issued(P)
  <2>1. nread[e] = 0 \/ nread[e] \in 1..Len(R)
    <3>1. Len(R) \in Nat
          BY <1>1, SocketFacts
    <3> QED
      BY <1>1, <3>1 DEF Following
  <2>2. UpTo(R, nread[e]) <= Issued(P)
    <3>1. CASE nread[e] = 0
          BY <1>1, <3>1 DEF UpTo
    <3>2. CASE nread[e] \in 1..Len(R)
          BY <1>1, <3>2, ChainRecord
    <3> QED
      BY <2>1, <3>1, <3>2
  <2>3. Len(DataOf(e)) = Len(q) + Len(p)
    <3> DEFINE d == q \o p
    <3>1. Len(d) = Len(q) + Len(p)
      <4> HIDE DEF p, q
      <4> QED
        BY ONLY <1>1, ConcatParts
    <3> QED
      BY <3>1 DEF DataOf
  <2> QED
    BY <1>1, <2>2, <2>3 DEF Prefix
<1>6. SubSeq(p, 1, n) = [i \in 1..n |-> Len(q) + i]
  <2> DEFINE s == SubSeq(p, 1, n)
             t == [i \in 1..n |-> Len(q) + i]
  <2>1. /\ s \in Seq(Nat) /\ Len(s) = n /\ \A i \in 1..n : s[i] = p[i]
    <3> HIDE DEF n, p
    <3> QED
      BY <1>1, <1>4, SplitParts
  <2>2. \A i \in 1..n : p[i] = Len(q) + i
    <3> DEFINE d == q \o p
    <3>1. /\ Len(d) = Len(q) + Len(p)
          /\ \A i \in 1..Len(p) : d[Len(q) + i] = p[i]
      <4> HIDE DEF p, q
      <4> QED
        BY ONLY <1>1, ConcatParts
    <3>2. \A i \in 1..Len(d) : d[i] = i
          BY <1>1 DEF Prefix, DataOf
    <3> HIDE DEF d, n, p, q
    <3>3. ASSUME NEW i \in 1..n
          PROVE  p[i] = Len(q) + i
      <4>1. i \in 1..Len(p) /\ Len(q) + i \in 1..Len(d)
            BY <1>1, <1>4, <3>1
      <4> QED
        BY <3>1, <3>2, <4>1
    <3> QED
      BY <3>3
  <2>3. n \in Nat
        BY <1>1, <1>4
  <2>4. s \in [1..n -> Nat]
    <3> HIDE DEF s
    <3> QED
      BY <2>1, LenProperties
  <2> HIDE DEF s, n, p, q
  <2>5. s = t
        BY <2>1, <2>2, <2>4
  <2> QED
    BY <2>5 DEF s
<1>7. ~Told(e)
      BY <1>2, ToldIsOver
<1>8. SentMap' = SentMap /\ OverMap' = OverMap /\ SentMap[P] = Issued(P)
      BY <1>1, <1>2 DEF SentMap, OverMap, Issued, Newest
<1>9. OverMap[e] = Told(e)
      BY DEF OverMap, Told
<1>10. n \in 1..(Issued(P) - Len(q))
  <2> HIDE DEF n, p, q
  <2> QED
    BY <1>1, <1>4, <1>5
<1>11. rcvd' = [rcvd EXCEPT ![e] = @ \o [i \in 1..n |-> Len(@) + i]]
  <2> HIDE DEF n
  <2> QED
    BY <1>3, <1>6 DEF n
<1>12. \E m \in 1..(SentMap[P] - Len(rcvd[e])) :
         rcvd' = [rcvd EXCEPT ![e] = @ \o [i \in 1..m |-> Len(@) + i]]
       BY <1>8, <1>10, <1>11
<1> QED
  BY <1>2, <1>7, <1>8, <1>9, <1>12 DEF Stream!Deliver, SentMap, OverMap

\* The stream ends once, behind everything acknowledged.
LEMMA EndFinishes ==
  ASSUME EndInv, NEW e \in End, RecvEof(e) \/ ReadCloseNotify(e),
         \A x \in End \ {e} : Told(x)' = Told(x)
  PROVE  Stream!Finish(e)
<1>1. /\ acked[Peer[e]] <= Len(rcvd[e]) /\ ~Told(e) /\ TypeOK
      /\ acked[Peer[e]] \in Nat /\ Len(rcvd[e]) \in Nat
      BY EofIsEnd, NotifyIsEnd, EndInvFacts
<1>2. UNCHANGED <<records, acked, rcvd>>
      BY DEF RecvEof, ReadCloseNotify, outVars, inVars
<1>3. Told(e)' = TRUE
  <2>1. CASE RecvEof(e)
        BY <1>1, <2>1 DEF RecvEof, Told, TypeOK
  <2>2. CASE ReadCloseNotify(e)
        BY <2>2, NotifyIsEnd DEF Told
  <2> QED
    BY <2>1, <2>2
<1>4. SentMap' = SentMap
      BY <1>2 DEF SentMap, Issued, Newest
<1>5. OverMap' = [OverMap EXCEPT ![e] = TRUE] /\ OverMap[e] = Told(e)
  <2>1. OverMap = [x \in End |-> Told(x)] /\ OverMap' = [x \in End |-> Told(x)']
        BY DEF OverMap, Told
  <2>2. [x \in End |-> Told(x)'] = [[x \in End |-> Told(x)] EXCEPT ![e] = TRUE]
        BY <1>3, Zenon
  <2> QED
    BY <2>1, <2>2
<1> QED
  BY <1>1, <1>2, <1>4, <1>5 DEF Stream!Finish, SentMap, OverMap

\* ssl_read, ssl_write and ssl_close_notify at both ends, on any socket, are the
\* two byte streams of ssl.h: every step is one of ByteStream or none.
THEOREM StreamRefined == ASSUME Quiet, Filling PROVE Spec => ImplementsByteStream
<1>1. Init => Stream!Init
      BY DEF Init, Stream!Init, Issued
<1>2. EndInv /\ [Next]_vars => [Stream!Next]_(Stream!vars)
  <2> SUFFICES ASSUME EndInv, [Next]_vars PROVE Stream!Next \/ UNCHANGED Stream!vars
    OBVIOUS
  <2>1. CASE UNCHANGED vars
    <3>1. UNCHANGED <<acked, rcvd, records, eof, ended>>
          BY <2>1 DEF vars
    <3> QED
      BY <3>1, StreamsStutter DEF Issued, Newest, Told
  <2>2. CASE Next
    <3>1. PICK e \in End :
            \/ Sends(e) \/ SendWouldBlock(e) \/ SendReset(e)
            \/ Recv(e) \/ RecvWouldBlock(e) \/ RecvEof(e) \/ RecvReset(e)
            \/ RefuseRecord(e)
            \/ Reads(e)
            \/ Returns(e)
            \/ Write(e) \/ Read(e) \/ ReadPending(e) \/ CloseNotify(e)
            \/ HelloRequest(e)
          BY <2>2 DEF Next
    <3>2. /\ SocketInv
          /\ \A x \in End \ {e} : Still(x) /\ eof'[x] = eof[x]
          BY <3>1, EndInvFacts, OthersStandStill
    <3>3. \A x \in End \ {e} : Issued(x)' = Issued(x) /\ Told(x)' = Told(x)
          BY <3>2 DEF Still, Issued, Newest, Told
    <3>4. CASE Write(e)
          BY <3>3, <3>4, WriteAccepts DEF Stream!Next
    <3>5. CASE WriteReturn(e)
          BY <3>5, ReturnAcknowledges DEF Stream!Next
    <3>6. CASE ReadPending(e)
          BY <3>6, ReadDelivers DEF Stream!Next
    <3>7. CASE RecvEof(e) \/ ReadCloseNotify(e)
          BY <3>3, <3>7, EndFinishes DEF Stream!Next
    <3>8. CASE /\ ~Write(e) /\ ~WriteReturn(e) /\ ~ReadPending(e)
               /\ ~RecvEof(e) /\ ~ReadCloseNotify(e)
      <4>1. /\ acked' = acked /\ rcvd' = rcvd /\ eof' = eof
            /\ ended'[e] = "notified" <=> ended[e] = "notified"
            /\ Issued(e)' = Issued(e)
            BY <3>1, <3>8, StreamsMove
      <4>2. \A x \in End : Issued(x)' = Issued(x) /\ Told(x)' = Told(x)
            BY <3>3, <4>1 DEF Told
      <4> QED
        BY <4>1, <4>2, StreamsStutter
    <3> QED
      BY <3>4, <3>5, <3>6, <3>7, <3>8
  <2> QED
    BY <2>1, <2>2
<1> QED
  BY <1>1, <1>2, EndInvAlways, PTL DEF Spec, Stream!Spec, ImplementsByteStream

=============================================================================

-------------------------------- MODULE Der --------------------------------
(***************************************************************************)
(* DER as asn1parse.c reads it and asn1write.c writes it, byte by byte.       *)
(*                                                                         *)
(* A reader is a cursor: the buffer, the place p, what the last call put     *)
(* into its output arguments, the fields found, and the error that ends a     *)
(* chain of calls.  An end is a place too, one behind the last byte; the      *)
(* buffer goes on for one byte there, which is whatever the memory holds.     *)
(* A writer fills a buffer from its end: what is written so far, and the      *)
(* room left in front of it.                                                *)
(***************************************************************************)
EXTENDS Integers, Sequences, Binding

Ok == << >>
Cursor(buf) == [buf |-> buf, p |-> 1, ret |-> Ok, len |-> 0, val |-> 0, got |-> << >>]
Failed(s, error) == [s EXCEPT !.ret = error]
\* An error that came up on the way from s to t gets the area's own code added.
Under(area, s, t) == IF s.ret # Ok \/ t.ret = Ok THEN t ELSE [t EXCEPT !.ret = <<area>> \o @]
\* A field is its name, its place, its length and what was made of its bytes.
Got(s, name, p, len, value) ==
  IF s.ret = Ok THEN [s EXCEPT !.got = Append(@, <<name, p, len, value>>)] ELSE s
Skip(s) == IF s.ret = Ok THEN [s EXCEPT !.p = @ + s.len] ELSE s
Expect(s, condition, error) == IF s.ret = Ok /\ ~condition THEN Failed(s, error) ELSE s

\* Memory: behind the buffer every byte is the stray one.
Byte(s, i) == s.buf[IF i <= Len(s.buf) THEN i ELSE Len(s.buf)]
Span(s, from, len) == LET m == [i \in 1..len |-> Byte(s, from + i - 1)] IN SubSeq(m, 1, len)

OutOfData == <<"out of data">>
UnexpectedTag == <<"unexpected tag">>
InvalidLength == <<"invalid length">>
LengthMismatch == <<"length mismatch">>
BufTooSmall == <<"buffer too small">>

\* A loop that reads on up to end; every turn of it takes a byte at least.
Until(end, Turn(_), s) ==
  LET n == IF end > s.p THEN end - s.p ELSE 0
      turn[i \in 0..n] ==
        IF i = 0 THEN s
        ELSE LET t == turn[i - 1] IN IF t.ret # Ok \/ t.p >= end THEN t ELSE Turn(t)
  IN  turn[n]

\* The number bytes stand for; only taken of two bytes, or of a short integer.
Number(bytes) ==
  LET n[i \in 0..Len(bytes)] == IF i = 0 THEN 0 ELSE n[i - 1] * 256 + bytes[i]
  IN  n[Len(bytes)]

-----------------------------------------------------------------------------
(* asn1parse.c *)

\* Defect: a length may reach over the end.
GetLenOver(s, end) ==
  IF s.ret # Ok THEN s
  ELSE IF end - s.p < 1 THEN Failed(s, OutOfData)
  ELSE LET first == Byte(s, s.p)
           n == IF first < 128 THEN 0 ELSE first - 128
       IN  IF first < 128 THEN [s EXCEPT !.p = @ + 1, !.len = first]
           ELSE IF n \notin 1..4 THEN Failed(s, InvalidLength)
           ELSE IF end - s.p < n + 1 THEN Failed(s, OutOfData)
           ELSE [s EXCEPT !.p = @ + n + 1, !.len = Byte(s, s.p + n)]

\* A length of which more than two bytes count is longer than any buffer here.  One
\* that is too long has been read, and p is behind it, when it is refused.
GetLen(s, end) ==
  IF s.ret # Ok THEN s
  ELSE IF end - s.p < 1 THEN Failed(s, OutOfData)
  ELSE LET first == Byte(s, s.p) IN
       With(IF first < 128 THEN 0 ELSE first - 128, LAMBDA n :
       With(IF first < 128 THEN <<first>> ELSE Span(s, s.p + 1, n), LAMBDA bytes :
       LET huge == \E i \in 1..(Len(bytes) - 2) : bytes[i] # 0
           after == s.p + n + 1 IN
         IF first >= 128 /\ n \notin 1..4 THEN Failed(s, InvalidLength)
         ELSE IF end - s.p < n + 1 THEN Failed(s, OutOfData)
         ELSE IF huge \/ Number(bytes) > end - after
              THEN Failed([s EXCEPT !.p = after], OutOfData)
         ELSE [s EXCEPT !.p = after, !.len = Number(bytes)]))

GetTag(s, end, tag) ==
  IF s.ret # Ok THEN s
  ELSE IF end - s.p < 1 THEN Failed(s, OutOfData)
  ELSE IF Byte(s, s.p) # tag THEN Failed(s, UnexpectedTag)
  ELSE GetLen([s EXCEPT !.p = @ + 1], end)

\* The bytes of the element whose head was just read.
Contents(s) == Span(s, s.p, s.len)

GetBool(s, end) ==
  With(GetTag(s, end, 1), LAMBDA t :
  With(Expect(t, t.len = 1, InvalidLength), LAMBDA one :
    IF one.ret # Ok THEN one
    ELSE Skip([one EXCEPT !.val = IF Byte(one, one.p) # 0 THEN 1 ELSE 0])))

\* Of an integer without bytes the code looks at the byte behind it for the sign.
GetInt(s, end) ==
  With(GetTag(s, end, 2), LAMBDA t :
  With(IF t.ret # Ok THEN t
       ELSE Expect(t, t.len <= 4 /\ Byte(t, t.p) < 128, InvalidLength), LAMBDA short :
    IF short.ret # Ok THEN short ELSE Skip([short EXCEPT !.val = Number(Contents(short))])))

\* An mpi is its bytes without leading zeros.
Stripped(bytes) ==
  LET from == CHOOSE i \in 1..(Len(bytes) + 1) :
                /\ \A j \in 1..(i - 1) : bytes[j] = 0
                /\ i <= Len(bytes) => bytes[i] # 0
  IN  SubSeq(bytes, from, Len(bytes))

GetMpi(s, end) ==
  With(GetTag(s, end, 2), LAMBDA t :
    IF t.ret # Ok THEN t ELSE Got(Skip(t), "mpi", t.p, t.len, Stripped(Contents(t))))

\* bs->p and bs->len are left in val and len.
GetBitString(s, end) ==
  With(GetTag(s, end, 3), LAMBDA t :
  With(Expect(t, t.len >= 1, OutOfData), LAMBDA some :
  With(IF some.ret # Ok THEN some
       ELSE Expect(some, Byte(some, some.p) <= 7, InvalidLength), LAMBDA bits :
  LET read == IF bits.ret # Ok THEN bits
              ELSE Skip([bits EXCEPT !.val = bits.p + 1]) IN
    IF read.ret # Ok THEN read
    ELSE Expect([read EXCEPT !.len = @ - 1], read.p = end, LengthMismatch))))

GetSequenceOf(s, end, tag) ==
  LET t == GetTag(s, end, 48)
      fits == Expect(t, t.p + t.len = end, LengthMismatch)
      Item(u) == LET i == GetTag(u, end, tag)
                 IN  Got(Skip(i), "item", i.p, i.len, << >>)
      items == Until(end, Item, fits)
  IN  Expect(items, items.p = end, LengthMismatch)

-----------------------------------------------------------------------------
(* asn1write.c *)

Writer(size) == [bytes |-> << >>, room |-> size, ret |-> Ok]

Put(w, bytes) ==
  IF w.ret # Ok THEN w
  ELSE IF w.room < Len(bytes) THEN [w EXCEPT !.ret = BufTooSmall]
  ELSE [w EXCEPT !.bytes = bytes \o @, !.room = @ - Len(bytes)]

WriteLen(w, n) ==
  IF n < 128 THEN Put(w, <<n>>)
  ELSE IF n <= 255 THEN Put(w, <<129, n>>)
  ELSE Put(w, <<130, (n \div 256) % 256, n % 256>>)

WriteTag(w, tag) == Put(w, <<tag>>)

\* Head of what was written since before.
Close(before, w, tag) == WriteTag(WriteLen(w, Len(w.bytes) - Len(before.bytes)), tag)

WriteMpi(w, mpi) ==
  LET number == Put(w, mpi)
      signed == IF number.ret = Ok /\ number.bytes[1] >= 128 THEN Put(number, <<0>>) ELSE number
  IN  Close(w, signed, 2)

WriteNull(w) == Close(w, w, 5)
WriteOid(w, oid) == Close(w, Put(w, oid), 6)
WriteAlgorithmIdentifier(w, oid) == Close(w, WriteOid(WriteNull(w), oid), 48)

\* One byte of the value, and a zero in front of one that would read as negative.
WriteInt(w, val) ==
  LET byte == val % 256
      signed == IF val > 0 /\ byte >= 128 THEN Put(Put(w, <<byte>>), <<0>>) ELSE Put(w, <<byte>>)
  IN  Close(w, signed, 2)

WritePrintableString(w, text) == Close(w, Put(w, text), 19)
WriteIa5String(w, text) == Close(w, Put(w, text), 22)

=============================================================================

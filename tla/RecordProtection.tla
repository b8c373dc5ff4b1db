-------------------------- MODULE RecordProtection --------------------------
(***************************************************************************)
(* How a record is protected (ssl_tls.c): ssl_derive_keys cuts the keys of  *)
(* both directions from a block that the PRF fills, ssl_encrypt_buf adds    *)
(* MAC, padding and IV and encrypts, ssl_decrypt_buf undoes it and checks.  *)
(* The network between the two may damage, cut, drop, repeat and exchange   *)
(* records.                                                                *)
(*                                                                         *)
(* Lengths are the code's.  A block or a byte of ciphertext is the place it  *)
(* was made at, <<record, position>>; a byte of plaintext is what it stands  *)
(* for.  A cipher and a MAC are ideal: what was not made with the same key  *)
(* decrypts to bytes of any value and matches no MAC.                       *)
(***************************************************************************)
EXTENDS Integers, Sequences, FiniteSets, Binding

CONSTANTS
  RpKinds,     \* [suite, ver]: families of ciphersuites with minor versions, 0 for SSLv3
  RpTypes,     \* content types the network may put on a record
  RpLengths,   \* lengths of messages
  RpStray,     \* what a byte of damaged plaintext may read as, in 0..255
  RpMaxSent,   \* bound: records without a fault
  RpMaxFaults, \* bound: faults of the network
  RpExposed    \* bound: records with faults

ASSUME RpAssumption ==
  /\ \A k \in RpKinds : k.ver \in 0..3
  /\ RpLengths \subseteq Nat
  /\ RpStray \subseteq 0..255 /\ RpStray # {}

VARIABLES
  rpKind,    \* [suite, ver]: what was negotiated
  rpShared,  \* which of "key", "mac" and "iv" the two ends have in common
  rpSent,    \* the records that were encrypted: type, length and place in the keystream
  rpNet,     \* the records on their way
  rpInCtr,   \* in_ctr
  rpInPos,   \* how much of the receiver's keystream is used
  rpInIv,    \* iv_dec: the last block the receiver has decrypted
  rpZero,    \* nb_zero
  rpGot,     \* the records ssl_decrypt_buf has accepted
  rpFaults,  \* the faults so far
  rpState    \* "closed", "open", "failed" or "died"

rpVars == <<rpKind, rpShared, rpSent, rpNet, rpInCtr, rpInPos, rpInIv, rpZero, rpGot,
            rpFaults, rpState>>

-----------------------------------------------------------------------------
(* ssl_derive_keys *)

Suite(mode, key, min, iv, mac, fixed) ==
  [mode |-> mode, key |-> key, min |-> min, iv |-> iv, mac |-> mac, fixed |-> fixed]

Lengths ==
  [RC4_128_MD5    |-> Suite("stream", 16, 16, 0, 16, 0),
   RC4_128_SHA    |-> Suite("stream", 16, 20, 0, 20, 0),
   DES3_CBC_SHA   |-> Suite("cbc", 24, 24, 8, 20, 0),
   DES_CBC_SHA    |-> Suite("cbc", 8, 8, 8, 20, 0),
   CBC_128_SHA    |-> Suite("cbc", 16, 32, 16, 20, 0),
   CBC_256_SHA    |-> Suite("cbc", 32, 32, 16, 20, 0),
   CBC_128_SHA256 |-> Suite("cbc", 16, 32, 16, 32, 0),
   CBC_256_SHA256 |-> Suite("cbc", 32, 32, 16, 32, 0),
   GCM_128_SHA256 |-> Suite("gcm", 16, 1, 12, 0, 4),
   GCM_256_SHA384 |-> Suite("gcm", 32, 1, 12, 0, 4),
   NULL_MD5       |-> Suite("null", 0, 0, 0, 16, 0),
   NULL_SHA       |-> Suite("null", 0, 0, 0, 20, 0),
   NULL_SHA256    |-> Suite("null", 0, 0, 0, 32, 0)]

ASSUME RpSuiteAssumption == \A k \in RpKinds : k.suite \in DOMAIN Lengths

\* The offsets below dlen that one pass of a PRF over a hash of step bytes writes.
HashPass(step, dlen) ==
  UNION {LET k == IF i * step + step > dlen THEN dlen % step ELSE step
         IN  i * step .. i * step + k - 1 : i \in 0..((dlen - 1) \div step)}

\* ssl3_prf writes whole hashes, behind 1, 2, ... letters kept in sixteen bytes.
Ssl3Pass(dlen) ==
  IF dlen \div 16 > 16 THEN {} ELSE 0 .. (dlen \div 16) * 16 - 1

\* The bytes of the output that every pass of the PRF has set; tmp must hold the
\* hash, the label and the two randoms.
PrfFills(k, label, dlen) ==
  LET fits(hash) == hash + label + 64 <= 128
      tls(hash) == IF fits(hash) THEN HashPass(hash, dlen) ELSE {}
  IN  CASE k.ver = 0 -> Ssl3Pass(dlen)
        [] k.ver \in {1, 2} -> IF fits(20) THEN HashPass(16, dlen) \cap HashPass(20, dlen)
                               ELSE {}
        [] k.ver = 3 /\ k.suite = "GCM_256_SHA384" -> tls(48)
        [] OTHER -> tls(32)

\* The two ends agree on a byte that the PRF has set; another is not even the same
\* at every run, which the name of the endpoint stands for.
Derived(e, k, n) ==
  LET filled == PrfFills(k, 13, n)
  IN  [i \in 0..(n - 1) |-> IF i \in filled THEN <<"both", i>> ELSE <<e, i>>]

\* Defect: the server takes the IVs in the client's order.
SlicesIvUnswapped(e, s) ==
  LET iv == IF s.fixed # 0 THEN s.fixed ELSE s.iv
      at(first, n, mine) == [at |-> first + (IF (e = "client") = mine THEN 0 ELSE n), len |-> n]
      ivAt(mine) == [at |-> 2 * s.mac + 2 * s.key + (IF mine THEN 0 ELSE iv), len |-> iv]
      keys(mine) == [key |-> at(2 * s.mac, s.key, mine), mac |-> at(0, s.mac, mine),
                     iv |-> ivAt(mine)]
  IN  [enc |-> keys(TRUE), dec |-> keys(FALSE)]

\* The places of the keys, MAC secrets and IVs of an endpoint in the key block.
Slices(e, s) ==
  LET client == e = "client"
      iv == IF s.fixed # 0 THEN s.fixed ELSE s.iv
      first == 2 * s.mac
      cut(at, n) == [at |-> at, len |-> n]
      own(at, n) == cut(IF client THEN at ELSE at + n, n)
      other(at, n) == cut(IF client THEN at + n ELSE at, n)
  IN  [enc |-> [key |-> own(first, s.key), mac |-> own(0, s.mac),
                iv |-> own(first + 2 * s.key, iv)],
       dec |-> [key |-> other(first, s.key), mac |-> other(0, s.mac),
                iv |-> other(first + 2 * s.key, iv)]]

\* The keys themselves: every byte the slice covers.
KeysOf(e, k, cut) ==
  LET block == Derived(e, k, 256)
      bytes(c) == [i \in 1..c.len |-> block[c.at + i - 1]]
  IN  [key |-> bytes(cut.key), mac |-> bytes(cut.mac), iv |-> bytes(cut.iv)]

DeriveKeys ==
  /\ rpState = "closed"
  /\ \E sender \in {"client", "server"} :
       LET receiver == CHOOSE e \in {"client", "server"} : e # sender
           s == Lengths[rpKind.suite]
           enc == KeysOf(sender, rpKind, Slices(sender, s).enc)
           dec == KeysOf(receiver, rpKind, Slices(receiver, s).dec)
       IN  rpShared' = IF Derived(sender, rpKind, 48) = Derived(receiver, rpKind, 48)
                       THEN {part \in DOMAIN enc : enc[part] = dec[part]} ELSE {}
  /\ rpState' = "open"
  /\ UNCHANGED <<rpKind, rpSent, rpNet, rpInCtr, rpInPos, rpInIv, rpZero, rpGot, rpFaults>>

-----------------------------------------------------------------------------
(* ssl_encrypt_buf *)

Transform == Lengths[rpKind.suite]

\* The length of an explicit IV or nonce in front of the ciphertext.
ExplicitIv == CASE Transform.mode = "gcm" -> Transform.iv - Transform.fixed
                [] Transform.mode = "cbc" /\ rpKind.ver >= 2 -> Transform.iv
                [] OTHER -> 0

\* The value of the padding bytes, of which there is one more.
PadLen(len) ==
  LET p == Transform.iv - ((len + 1) % Transform.iv) IN IF p = Transform.iv THEN 0 ELSE p

Padded(len) ==
  len + Transform.mac
  + IF Transform.mode = "cbc" THEN PadLen(len + Transform.mac) + 1 ELSE 0

WireLength(len) ==
  ExplicitIv + Padded(len) + (IF Transform.mode = "gcm" THEN 16 ELSE 0)

\* A cipher block, or a byte.
Unit == IF Transform.mode = "cbc" THEN Transform.iv ELSE 1

Encrypt(type, len) ==
  /\ rpState = "open" /\ Len(rpSent) < IF rpFaults = 0 THEN RpMaxSent ELSE RpExposed
  /\ LET n == Len(rpSent) + 1
         used == IF rpSent = <<>> THEN 0
                 ELSE rpSent[n - 1].at + rpSent[n - 1].len + Transform.mac
     IN  /\ rpSent' = Append(rpSent, [type |-> type, len |-> len, at |-> used])
         /\ rpNet' = Append(rpNet, [type |-> type, len |-> WireLength(len),
                       body |-> [i \in 1..(WireLength(len) \div Unit) |-> <<n, i - 1>>]])
  /\ UNCHANGED <<rpKind, rpShared, rpInCtr, rpInPos, rpInIv, rpZero, rpGot, rpFaults, rpState>>

-----------------------------------------------------------------------------
(* ssl_decrypt_buf *)

Damaged == <<0, -1>>   \* a unit of ciphertext that nobody has made
KeyIv == <<0, 0>>      \* the IV from the key block
StrayByte == <<"stray", 0, 0>>

Body == Head(rpNet).body
InLen == Head(rpNet).len

SameKey(part) == part \in rpShared

\* What byte q of record r was encrypted from: message, MAC or padding.
PlainByte(r, q) ==
  With(q - ExplicitIv, LAMBDA pos :
  LET n == rpSent[r].len IN
    IF pos < n THEN <<"data", r, pos>>
    ELSE IF pos < n + Transform.mac THEN <<"mac", r, pos - n>>
    ELSE <<"pad", PadLen(n + Transform.mac), 0>>)

\* The block that CBC has chained a block to.
ChainedTo(block) ==
  IF block[2] > 0 THEN <<block[1], block[2] - 1>>
  ELSE IF block[1] = 1 THEN KeyIv
  ELSE <<block[1] - 1, WireLength(rpSent[block[1] - 1].len) \div Transform.iv - 1>>

\* Does block k of the body decrypt to what it was made from?
BlockGood(k) ==
  LET before == IF k = 1 THEN rpInIv ELSE Body[k - 1]
  IN  /\ Body[k] # Damaged /\ SameKey("key")
      /\ Body[k][2] > 0 \/ ExplicitIv = 0
      /\ before = ChainedTo(Body[k]) /\ (before = KeyIv => SameKey("iv"))

StreamByte(at) ==
  LET byte == Body[at]
  IN  IF /\ byte # Damaged
         /\ Transform.mode = "stream" =>
              SameKey("key") /\ rpSent[byte[1]].at + byte[2] = rpInPos + at - 1
      THEN PlainByte(byte[1], byte[2]) ELSE StrayByte

\* The bytes behind the explicit IV, decrypted.
Decrypted ==
  IF Transform.mode # "cbc" THEN [at \in 1..InLen |-> StreamByte(at)]
  ELSE LET blocks == (ExplicitIv \div Transform.iv + 1)..Len(Body) IN
       With({k \in blocks : BlockGood(k)}, LAMBDA good :
         [j \in 1..(InLen - ExplicitIv) |->
            LET at == ExplicitIv + j - 1
                k == at \div Transform.iv + 1
            IN  IF k \in good THEN PlainByte(Body[k][1],
                                             Body[k][2] * Transform.iv + (at % Transform.iv))
                ELSE StrayByte])

\* The MAC behind the first n bytes was made by ssl_mac_* or HMAC with the same
\* secret over the same counter, type, length and bytes.
MacMatches(plain, n) ==
  \E r \in 1..Len(rpSent) :
    /\ SameKey("mac")
    /\ r = rpInCtr + 1 /\ rpSent[r].type = Head(rpNet).type /\ rpSent[r].len = n
    /\ \A j \in 1..(n + Transform.mac) : plain[j] = PlainByte(r, ExplicitIv + j - 1)

Fail(how) == rpState' = how /\ UNCHANGED <<rpInCtr, rpZero, rpGot>>

\* A record that is correct; the fourth empty one in a row is refused.
Accept(n) ==
  IF n = 0 /\ rpZero + 1 > 3
  THEN rpState' = "failed" /\ rpZero' = rpZero + 1 /\ UNCHANGED <<rpInCtr, rpGot>>
  ELSE /\ rpZero' = IF n = 0 THEN rpZero + 1 ELSE 0
       /\ rpInCtr' = rpInCtr + 1
       /\ rpGot' = Append(rpGot, [type |-> Head(rpNet).type, len |-> n])
       /\ UNCHANGED rpState

Receives == rpState = "open" /\ rpNet # <<>>
Received == rpNet' = Tail(rpNet) /\ UNCHANGED <<rpKind, rpShared, rpSent, rpFaults>>

DecryptShort ==
  /\ Receives /\ InLen < Transform.min
  /\ Fail("failed")
  /\ Received /\ UNCHANGED <<rpInPos, rpInIv>>

\* A length below the MAC's wraps around.
DecryptStream ==
  /\ Receives /\ Transform.iv = 0 /\ InLen >= Transform.min
  /\ LET n == InLen - Transform.mac
     IN  IF n < 0 THEN Fail("died")
         ELSE IF MacMatches(Decrypted, n) THEN Accept(n) ELSE Fail("failed")
  /\ rpInPos' = rpInPos + InLen
  /\ Received /\ UNCHANGED rpInIv

\* The tag covers nonce, counter, type, length and text.
DecryptGcm ==
  /\ Receives /\ Transform.iv = 12 /\ InLen >= Transform.min
  /\ LET n == InLen - ExplicitIv - 16
         r == rpInCtr + 1
     IN  IF n < 0 THEN Fail("died")
         ELSE IF /\ r <= Len(rpSent)
                 /\ rpSent[r].type = Head(rpNet).type /\ rpSent[r].len = n
                 /\ \A j \in 1..InLen : Body[j] = <<r, j - 1>>
                 /\ SameKey("key") /\ SameKey("iv")
              THEN Accept(n) ELSE Fail("failed")
  /\ Received /\ UNCHANGED <<rpInPos, rpInIv>>

\* Whole blocks, at least one behind the explicit IV, and room for a MAC.
CbcSane(len) ==
  /\ len % Transform.iv = 0
  /\ len >= ExplicitIv + Transform.iv
  /\ len >= ExplicitIv + Transform.mac + 1

\* Is padding of value v correct?  SSLv3 looks at its length alone; a byte that is
\* no padding may read as v or not.
PaddingCorrect(plain, v, agree) ==
  LET len == Len(plain)
  IN  /\ len >= Transform.mac + v + 1
      /\ IF rpKind.ver = 0 THEN v + 1 <= Transform.iv
         ELSE \A j \in (len - v)..len :
                plain[j] = <<"pad", v, 0>> \/ (plain[j][1] # "pad" /\ agree)

\* The padding that is taken off: what does not fit, or from TLSv1 is wrong, counts as none.
PaddingTaken(plain, v, correct) ==
  IF correct \/ (rpKind.ver = 0 /\ Len(plain) >= Transform.mac + v + 1) THEN v + 1 ELSE 0

\* What the last byte may read as.
LastByte(plain) ==
  LET last == plain[Len(plain)] IN IF last[1] = "pad" THEN {last[2]} ELSE RpStray

DecryptCbc ==
  /\ Receives /\ Transform.mode = "cbc" /\ InLen >= Transform.min
  /\ IF ~CbcSane(InLen) THEN Fail("failed") /\ UNCHANGED rpInIv
     ELSE /\ \E plain \in {Decrypted}, agree \in BOOLEAN :
               \E v \in LastByte(plain) : \E correct \in {PaddingCorrect(plain, v, agree)} :
                 \E n \in {Len(plain) - Transform.mac - PaddingTaken(plain, v, correct)} :
                   IF n < 0 THEN Fail("died")
                   ELSE IF correct /\ MacMatches(plain, n) THEN Accept(n)
                   ELSE Fail("failed")
          /\ rpInIv' = Body[Len(Body)]
  /\ Received /\ UNCHANGED rpInPos

-----------------------------------------------------------------------------
(* The network *)

Fault(net) ==
  /\ rpState = "open" /\ rpFaults < RpMaxFaults /\ Len(rpSent) <= RpExposed
  /\ rpNet' = net
  /\ rpFaults' = rpFaults + 1
  /\ UNCHANGED <<rpKind, rpShared, rpSent, rpInCtr, rpInPos, rpInIv, rpZero, rpGot, rpState>>

\* A unit in front, in the middle, before the last and at the end.
Damage(i) ==
  LET n == Len(rpNet[i].body)
  IN  \E p \in {1, (n + 1) \div 2, n - 1, n} \cap 1..n :
        Fault([rpNet EXCEPT ![i].body[p] = Damaged])

\* The record is shortened, its length with it.
Cut(i) ==
  LET len == rpNet[i].len
  IN  \E n \in {0, 1, ExplicitIv + 15, Transform.min, 32, len - Transform.iv,
                len - 1} \cap 0..(len - 1) :
        Fault([rpNet EXCEPT ![i].len = n, ![i].body = SubSeq(@, 1, n \div Unit)])

Retype(i) == \E t \in RpTypes \ {rpNet[i].type} : Fault([rpNet EXCEPT ![i].type = t])
Drop(i) == Fault(SubSeq(rpNet, 1, i - 1) \o SubSeq(rpNet, i + 1, Len(rpNet)))
Repeat(i) == Fault(Append(rpNet, rpNet[i]))
Exchange(i) == i > 1 /\ Fault([rpNet EXCEPT ![i] = rpNet[i - 1], ![i - 1] = rpNet[i]])

\* The last block of a record is replaced by the one before it.
Splice(i) ==
  LET n == Len(rpNet[i].body)
  IN  /\ Transform.mode = "cbc" /\ n >= 2
      /\ Fault([rpNet EXCEPT ![i].body[n] = rpNet[i].body[n - 1]])

-----------------------------------------------------------------------------
RpInit ==
  /\ rpKind \in RpKinds
  /\ rpShared = {}
  /\ rpSent = <<>> /\ rpNet = <<>> /\ rpGot = <<>>
  /\ rpInCtr = 0 /\ rpInPos = 0 /\ rpInIv = KeyIv /\ rpZero = 0 /\ rpFaults = 0
  /\ rpState = "closed"

RpNext ==
  \/ DeriveKeys
  \/ \E len \in RpLengths : Encrypt("data", len)
  \/ DecryptShort \/ DecryptStream \/ DecryptGcm \/ DecryptCbc
  \/ \E i \in 1..Len(rpNet) :
       Damage(i) \/ Cut(i) \/ Retype(i) \/ Drop(i) \/ Repeat(i) \/ Exchange(i) \/ Splice(i)

RpSpec == RpInit /\ [][RpNext]_rpVars

-----------------------------------------------------------------------------
(* Properties *)

\* Whatever the network does, the receiver is handed what was sent, in order, with
\* nothing left out in between (ssl_encrypt_buf against ssl_decrypt_buf).
RpOnlyWhatWasSent ==
  /\ Len(rpGot) <= Len(rpSent)
  /\ \A i \in 1..Len(rpGot) : rpGot[i].type = rpSent[i].type /\ rpGot[i].len = rpSent[i].len

\* Without a fault both ends derive the same keys and every record is accepted, of
\* whatever length, padded to whatever border, unless it is the fourth empty one in
\* a row (ssl_derive_keys, ssl_encrypt_buf, ssl_decrypt_buf).
RpUndamagedAccepted ==
  rpFaults = 0 =>
    /\ rpState # "died"
    /\ rpState = "failed" =>
         rpZero > 3 /\ \A i \in (rpInCtr - 2)..(rpInCtr + 1) : rpSent[i].len = 0

\* The checks on a CBC record leave no length to wrap around, however it was cut or
\* damaged: what is left for the message is never negative (ssl_decrypt_buf).
RpNoWrap == rpState = "died" => Transform.mode \in {"gcm", "null"}

\* No connection is looked at: another part of the library is.
RpAtRest ==
  LET atRest == "at rest"
  IN  /\ rpState = atRest /\ rpKind = atRest /\ rpShared = atRest /\ rpSent = atRest
      /\ rpNet = atRest /\ rpInCtr = atRest /\ rpInPos = atRest /\ rpInIv = atRest
      /\ rpZero = atRest /\ rpGot = atRest /\ rpFaults = atRest

\* ssl_decrypt_buf accepts only what ssl_encrypt_buf of the other end made, in order and
\* once, whatever the network did to a record; it accepts everything nobody touched, in
\* every family of suites; and no length or padding a damaged record claims lets it
\* compute below 0 under a CBC or stream cipher.  Under GCM and NULL suites a record that
\* is too short does, and nothing is said of what follows (ssl_tls.c:1037-1555).
RecordsProtected == RpAtRest \/ (RpOnlyWhatWasSent /\ RpUndamagedAccepted /\ RpNoWrap)
=============================================================================

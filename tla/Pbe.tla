--------------------------------- MODULE Pbe ---------------------------------
(***************************************************************************)
(* Password based encryption: pkcs5.c and pkcs12.c.                          *)
(*                                                                         *)
(* A digest has HLen bytes, a block of it BlockLen, a cipher block two; the   *)
(* key of a cipher has as many bytes as its name has keys.  The digest and    *)
(* the ciphers are stand-ins: mixing sums, and a key and an iv that are added *)
(* to every byte.  The derivations, what is read of the parameters and what   *)
(* of them is used are the code's.  A block, which the code makes as long as *)
(* any password, holds the first character of one here.                     *)
(***************************************************************************)
EXTENDS Der, Bitwise, SequencesExt

HLen == 2
BlockLen == 3
CbcBlock == 2
PbeLimit == 6     \* bytes of salt and of password pkcs12_derivation takes (64 in the code)
DeriveKey == 1
DeriveIv == 2

OidPbes2 == <<5, 13>>
OidPbkdf2 == <<5, 12>>
OidHmacSha1 == <<2, 7>>
OidDesCbc == <<2, 1>>
OidDes3Cbc == <<3, 7>>
OidPkcs12Rc4 == <<12, 1>>
OidPkcs12Des3 == <<12, 3>>
OidPkcs12Des2 == <<12, 4>>

\* The digest of md.c (module Digest) and its HMAC, as two sums.
PbeMd(data) ==
  LET sum[i \in 0..Len(data)] == IF i = 0 THEN 17 ELSE (31 * sum[i - 1] + data[i]) % 65536
  IN  <<sum[Len(data)] \div 256, sum[Len(data)] % 256>>
PbeHmac(pwd, data) == PbeMd(pwd \o <<54>> \o PbeMd(pwd \o <<92>> \o data))

PbeResult(ret, out) == [ret |-> ret, out |-> out]

\* cipher_update and cipher_finish in CBC mode, decrypting: the output holds the padding too,
\* and a last byte of 0 passes for none.
CbcDecrypt(key, iv, data) ==
  LET plain == [i \in 1..Len(data) |->
                  (data[i] - key[((i - 1) % Len(key)) + 1] - iv[((i - 1) % Len(iv)) + 1]) % 256]
      out == SubSeq(plain, 1, Len(plain))
      pad == IF out = << >> THEN 0 ELSE Last(out)
  IN  [fits |-> /\ data # << >> /\ Len(data) % CbcBlock = 0 /\ pad \in 0..CbcBlock
                /\ \A i \in (Len(out) - pad + 1)..Len(out) : out[i] = pad,
       out |-> out]

-----------------------------------------------------------------------------
(* pkcs5.c *)

XorBytes(a, b) == [i \in 1..Len(a) |-> a[i] ^^ b[i]]

\* pkcs5_pbkdf2_hmac: block after block, each from count digests of which md1 is the last
\* and work the sum; a count of 0 is taken as 1.
Pbkdf2(pwd, salt, count, keylen) ==
  LET block(k) ==
        LET first == PbeHmac(pwd, salt \o <<0, 0, 0, k>>)
            turn[i \in 0..count] ==
              IF i <= 1 THEN <<first, first>>
              ELSE LET md1 == PbeHmac(pwd, turn[i - 1][1]) IN <<md1, XorBytes(turn[i - 1][2], md1)>>
        IN  SubSeq(turn[count][2], 1, HLen)
  IN  SubSeq(FlattenSeq([k \in 1..keylen |-> block(k)]), 1, keylen)

\* Salt and count are left in fields of these names; the key length is read and not used,
\* the cipher says how long its key is.  Behind a prf's identifier the code wants the end
\* of the parameters while it still stands in front of it.
ParsePbkdf2Params(s, limit) ==
  With(GetTag(s, limit, 48), LAMBDA t :
  With(t.p + t.len, LAMBDA end :
  LET salt == GetTag(t, end, 4)
      kept == Got(Skip(salt), "salt", salt.p, salt.len, << >>) IN
  With(GetInt(kept, end), LAMBDA number :
  With(Got(number, "count", number.p, 0, <<number.val>>), LAMBDA count :
  LET length == GetInt(count, end) IN
  With(IF length.ret = UnexpectedTag THEN count ELSE length, LAMBDA after :
  LET prf == GetTag(after, end, 6)
      known == Expect(prf, Contents(prf) = OidHmacSha1, <<"feature unavailable">>) IN
    Under("pbes2", s,
      IF count.ret # Ok \/ count.p = end THEN count
      ELSE IF after.ret # Ok \/ after.p = end THEN after
      ELSE Expect(known, known.p = end, LengthMismatch)))))))

\* pkcs5_pbes2, decrypting.
Pbes2(params, pwd, data, stray) ==
  LET n == Len(params) + 1 IN
  With(GetTag(GetTag(Cursor(params \o <<stray>>), n, 48), n, 48), LAMBDA seq :
  LET kdf == GetTag(seq, seq.p + seq.len, 6)
      is2 == Expect(kdf, Contents(kdf) = OidPbkdf2, <<"feature unavailable">>) IN
  With(ParsePbkdf2Params(Skip(is2), seq.p + seq.len), LAMBDA par :
  With(GetTag(par, n, 48), LAMBDA enc :
  With(enc.p + enc.len, LAMBDA end2 :
  With(GetTag(enc, end2, 6), LAMBDA scheme :
  LET oid == Contents(scheme) IN
  With(Expect(scheme, oid \in {OidDesCbc, OidDes3Cbc}, <<"feature unavailable">>), LAMBDA known :
  LET keylen == IF oid = OidDesCbc THEN 1 ELSE 3 IN
  With(GetTag(Skip(known), end2, 4), LAMBDA iv :
  With(Expect(iv, iv.len = CbcBlock, <<"pbes2">>), LAMBDA whole :
  LET field(name) == LET i ==
    CHOOSE i \in DOMAIN whole.got : whole.got[i][1] = name IN whole.got[i] IN
    IF whole.ret # Ok THEN PbeResult(whole.ret, << >>)
    ELSE LET salt == Span(whole, field("salt")[2], field("salt")[3])
             plain == CbcDecrypt(Pbkdf2(pwd, salt, field("count")[4][1], keylen), Contents(iv),
                                 data)
         IN  PbeResult(IF plain.fits THEN Ok ELSE <<"password mismatch">>, plain.out)))))))))

-----------------------------------------------------------------------------
(* pkcs12.c *)

\* pkcs12_fill_buffer; it would not end for an empty filler.
Filled(len, filler) == [i \in 1..len |-> filler[((i - 1) % Len(filler)) + 1]]

\* a + b + carry, the carry out of the first byte being lost.
AddBlock(a, b) ==
  LET n == Len(a)
      sum[i \in 0..n] ==    \* the last i bytes, and the carry in front of them
        IF i = 0 THEN <<<< >>, 0>>
        ELSE LET v == a[n - i + 1] + b[n - i + 1] + sum[i - 1][2]
             IN  <<<<v % 256>> \o sum[i - 1][1], v \div 256>>
  IN  sum[n][1]

Iterated(data, count) ==
  LET hash[i \in Nat] == IF i <= 1 THEN PbeMd(data) ELSE PbeMd(hash[i - 1])
  IN  hash[count]

\* pkcs12_derivation: salt and password blocks grow by the last digest + 1 each round.
Pkcs12Derivation(datalen, pwd, salt, id, count) ==
  LET one == [i \in 1..BlockLen |-> IF i = BlockLen THEN 1 ELSE 0]
      from(s, p) == Iterated([i \in 1..BlockLen |-> id] \o s \o p, count)
      round[k \in 0..datalen] ==      \* output, salt block, password block
        IF k = 0 THEN <<<< >>, Filled(BlockLen, salt), Filled(BlockLen, pwd)>>
        ELSE LET last == round[k - 1]
                 hash == from(last[2], last[3])
                 more == AddBlock(Filled(BlockLen, hash), one)
             IN  <<last[1] \o hash, AddBlock(last[2], more), AddBlock(last[3], more)>>
  IN  SubSeq(round[datalen][1], 1, datalen)

ParsePbeParams(params, stray) ==
  With(GetTag(Cursor(params \o <<stray>>), Len(params) + 1, 48), LAMBDA s :
  LET end == s.p + s.len IN
  With(GetTag(s, end, 4), LAMBDA salt :
  LET count == GetInt(Got(Skip(salt), "salt", salt.p, salt.len, << >>), end) IN
    Under("pbe", Cursor(<< >>), Expect(count, count.p = end, LengthMismatch))))

\* The password with a zero in front of every byte, and two behind.
Unicode(pwd) == FlattenSeq([i \in 1..Len(pwd) |-> <<0, pwd[i]>>]) \o <<0, 0>>

\* An empty salt never comes back from pkcs12_fill_buffer: the result is none.
Pkcs12Pbe(oid, params, pwd, data, stray) ==
  With(ParsePbeParams(params, stray), LAMBDA par :
  With(Span(par, par.got[1][2], par.got[1][3]), LAMBDA salt :
  LET keylen == CASE oid = OidPkcs12Des3 -> 3 [] oid = OidPkcs12Des2 -> 2 [] OTHER -> 2 IN
  With(Pkcs12Derivation(keylen, Unicode(pwd), salt, DeriveKey, par.val), LAMBDA key :
  With(Pkcs12Derivation(CbcBlock, Unicode(pwd), salt, DeriveIv, par.val), LAMBDA iv :
  LET plain == CbcDecrypt(key, iv, data)
      stream == CbcDecrypt(key, <<0>>, data) IN
    IF par.ret # Ok THEN PbeResult(par.ret, << >>)
    ELSE IF Len(Unicode(pwd)) > PbeLimit \/ Len(salt) > PbeLimit
         THEN PbeResult(<<"bad input">>, << >>)
    ELSE IF salt = << >> THEN PbeResult(<<"does not return">>, << >>)
    ELSE IF oid = OidPkcs12Rc4 THEN PbeResult(Ok, stream.out)
    ELSE PbeResult(IF plain.fits THEN Ok ELSE <<"password mismatch">>, plain.out)))))

=============================================================================

---------------------------- MODULE RsaPadding ----------------------------
(***************************************************************************)
(* The blocks rsa.c puts around a message or a digest before the private or   *)
(* public operation, and takes off again behind it.  The operations undo each *)
(* other (module Rsa) and are left out: a block is made, may be altered once  *)
(* (what a signature made for other bytes would give), and is read.           *)
(*                                                                         *)
(* PKCS#1 v1.5 blocks are bytes.  Those of v2.1 are masked with the outputs   *)
(* of hashes, about which nothing is known but that equal inputs give equal   *)
(* outputs: a byte is the set of the unknowns that are xored into it, so the  *)
(* empty set is 0, and a mask xored in twice is gone.                         *)
(***************************************************************************)
EXTENDS Integers, Sequences

CONSTANTS
  PkLen,         \* bytes of the modulus for signatures, and for encryption
  PkCryptLen,
  PkMinPad,      \* the least padding of what is made (8 in the code)
  PkTries,       \* draws for one byte of padding that is not 0 (100 in the code)
  PkMessages,    \* messages encrypted, sequences of bytes
  PkDraws,       \* what the random source gives before it fails
  PkHash,        \* bytes of a v2.1 digest
  PkMaskedLens,  \* bytes of the modulus for v2.1, and whether its top byte is 1
  PkSmall        \* messages and labels of v2.1

VARIABLES
  pkPadding,     \* ctx->padding
  pkMade,        \* what was asked for
  pkBlock,       \* the block, or << >>
  pkAltered,     \* one byte of it was replaced
  pkAsked,       \* what the block was read as
  pkRet          \* "none" before, then the result

pkVars == <<pkPadding, pkMade, pkBlock, pkAltered, pkAsked, pkRet>>

Done(out) == [ret |-> "ok", out |-> out]
PkFault(error) == [ret |-> error, out |-> << >>]
Fill(byte, n) == SubSeq([i \in 1..n |-> byte], 1, n)

-----------------------------------------------------------------------------
(* PKCS#1 v1.5 signatures *)

Algorithms == {"RAW", "MD2", "MD4", "MD5", "SHA1", "SHA224", "SHA256", "SHA384", "SHA512"}
HashLen(alg) ==
  CASE alg = "RAW" -> 36 [] alg \in {"MD2", "MD4", "MD5"} -> 16 [] alg = "SHA1" -> 20
    [] alg = "SHA224" -> 28 [] alg = "SHA256" -> 32 [] alg = "SHA384" -> 48 [] OTHER -> 64
\* The last byte of the digest's object identifier.
Arc(alg) == CASE alg \in {"MD2", "SHA384"} -> 2 [] alg \in {"MD4", "SHA224"} -> 4
              [] alg = "MD5" -> 5 [] alg = "SHA256" -> 1 [] OTHER -> 3

HashMdx(arc) == <<48, 32, 48, 12, 6, 8, 42, 134, 72, 134, 247, 13, 2, arc, 5, 0, 4, 16>>
HashSha1 == <<48, 33, 48, 9, 6, 5, 43, 14, 3, 2, 26, 5, 0, 4, 20>>
HashSha1Alt == <<48, 31, 48, 7, 6, 5, 43, 14, 3, 2, 26, 4, 20>>
HashSha2x(len, arc) == <<48, 17 + len, 48, 13, 6, 9, 96, 134, 72, 1, 101, 3, 4, 2, arc, 5, 0, 4,
                         len>>

DigestInfo(alg, hash) ==
  CASE alg = "RAW" -> hash
    [] alg \in {"MD2", "MD4", "MD5"} -> HashMdx(Arc(alg)) \o hash
    [] alg = "SHA1" -> HashSha1 \o hash
    [] OTHER -> HashSha2x(HashLen(alg), Arc(alg)) \o hash

\* nb_pad is unsigned: too long a digest makes it longer than the block.
Pkcs1V15Sign(len, alg, hash) ==
  LET body == DigestInfo(alg, hash)
      pad == len - 3 - Len(body)
  IN  IF pad < PkMinPad THEN PkFault("bad input")
      ELSE Done(<<0, 1>> \o Fill(255, pad) \o <<0>> \o body)

Same(p, from, bytes) == SubSeq(p, from, from + Len(bytes) - 1) = bytes
Verdict(same) == IF same THEN Done(<< >>) ELSE PkFault("verify failed")

\* The part behind the padding.  A 34 byte body is taken for one of the MD hashes, and the
\* byte at 14 is 0 in it from then on.
VerifyDigestInfo(p, alg, hash) ==
  LET len == Len(p)
      mdx == SubSeq(p, 1, 13) \o <<0>> \o SubSeq(p, 15, len)
      c == (p[2] - 17) % 256
      sha2x == <<p[1], 17>> \o SubSeq(p, 3, 14) \o <<0>> \o SubSeq(p, 16, len)
  IN  IF len = 33 /\ alg = "SHA1" THEN Verdict(Same(p, 1, HashSha1Alt) /\ Same(p, 14, hash))
      ELSE IF len = 34 /\ ~Same(mdx, 1, HashMdx(0)) THEN PkFault("verify failed")
      ELSE IF len = 34 /\ alg \in {"MD2", "MD4", "MD5"} /\ p[14] = Arc(alg)
           THEN Verdict(Same(p, 19, hash))
      ELSE IF len = 35 /\ alg = "SHA1" THEN Verdict(Same(p, 1, HashSha1) /\ Same(p, 16, hash))
      ELSE IF /\ alg \in {"SHA224", "SHA256", "SHA384", "SHA512"}
              /\ len = 19 + HashLen(alg) /\ p[15] = Arc(alg)
           THEN Verdict(/\ p[19] = c
                        /\ Same(sha2x, 1, SubSeq(HashSha2x(0, 0), 1, 18))
                        /\ Same(p, 20, SubSeq(hash, 1, c)))
      ELSE IF len = Len(hash) /\ alg = "RAW" THEN Verdict((IF len = 34 THEN mdx ELSE p) = hash)
      ELSE PkFault("invalid padding")

Pkcs1V15Verify(block, alg, hash) ==
  LET ends == {i \in 3..Len(block) : block[i] = 0 /\ \A j \in 3..(i - 1) : block[j] = 255}
  IN  IF block[1] # 0 \/ block[2] # 1 \/ ends = {} THEN PkFault("invalid padding")
      ELSE VerifyDigestInfo(SubSeq(block, (CHOOSE i \in ends : TRUE) + 1, Len(block)), alg, hash)

-----------------------------------------------------------------------------
(* PKCS#1 v1.5 encryption *)

\* n bytes of padding: the draws that are not 0, with fewer than PkTries zeros before each.
DrawPad(n, draws) ==
  LET taken == {i \in 1..Len(draws) : draws[i] # 0}
      pad == SelectSeq(draws, LAMBDA b : b # 0)
      patient == \A i \in 1..(Len(draws) - PkTries + 1) :
                   \/ \E j \in i..(i + PkTries - 1) : j \in taken
                   \/ Len(SelectSeq(SubSeq(draws, 1, i - 1), LAMBDA b : b # 0)) >= n
  IN  IF Len(pad) < n \/ ~patient THEN PkFault("rng failed") ELSE Done(SubSeq(pad, 1, n))

Pkcs1V15Encrypt(len, mode, message, draws) ==
  LET pad == IF mode = "public" THEN DrawPad(len - 3 - Len(message), draws)
             ELSE Done(Fill(255, len - 3 - Len(message)))
  IN  IF len < Len(message) + 3 + PkMinPad THEN PkFault("bad input")
      ELSE IF pad.ret # "ok" THEN pad
      ELSE Done(<<0, IF mode = "public" THEN 2 ELSE 1>> \o pad.out \o <<0>> \o message)

\* A block for encryption is padded with what is not 0, one for signing with 255; the 0
\* behind the padding may not be the last byte of the block.
Pkcs1V15Decrypt(mode, block) ==
  LET ilen == Len(block)
      pads(b) == IF block[2] = 2 THEN b # 0 ELSE b = 255
      end == CHOOSE p \in 3..ilen : /\ \A j \in 3..(p - 1) : pads(block[j])
                                    /\ p = ilen \/ ~pads(block[p])
  IN  IF block[1] # 0 \/ block[2] # (IF mode = "private" THEN 2 ELSE 1)
         \/ block[end] # 0 \/ end = ilen
      THEN PkFault("invalid padding") ELSE Done(SubSeq(block, end + 1, ilen))

-----------------------------------------------------------------------------
(* PKCS#1 v2.1: OAEP and PSS *)

Difference(a, b) == (a \ b) \cup (b \ a)
One == {<<"01">>}
Md(data) == SubSeq([i \in 1..PkHash |-> {<<"md", data, i>>}], 1, PkHash)

\* Every byte of the mask has some bits at the top and some below them.
MgfMask(dst, src) ==
  LET mask(i) == LET at == <<src, ((i - 1) \div PkHash) % 256, (i - 1) % PkHash>>
                 IN  {<<"high", at>>, <<"low", at>>}
  IN  SubSeq([i \in 1..Len(dst) |-> Difference(dst[i], mask(i))], 1, Len(dst))

OaepEncrypt(olen, label, message) ==
  LET zeros == olen - 2 * PkHash - 2 - Len(message)
      seed == SubSeq([i \in 1..PkHash |-> {<<"seed", i>>}], 1, PkHash)
      maskedDb == MgfMask(Md(label) \o Fill({}, zeros) \o <<One>> \o message, seed)
  IN  IF zeros < 0 THEN PkFault("bad input")
      ELSE Done(<<{}>> \o MgfMask(seed, maskedDb) \o maskedDb)

\* The first byte from p on that is not 0, or one behind the end.
SkipZeros(block, p) ==
  CHOOSE q \in p..(Len(block) + 1) :
    /\ \A j \in p..(q - 1) : block[j] = {}
    /\ q <= Len(block) => block[q] # {}

OaepDecrypt(label, block) ==
  LET maskedDb == SubSeq(block, PkHash + 2, Len(block))
      db == MgfMask(maskedDb, MgfMask(SubSeq(block, 2, PkHash + 1), maskedDb))
      p == SkipZeros(db, PkHash + 1)
  IN  IF block[1] # {} THEN PkFault("invalid padding")
      ELSE IF SubSeq(db, 1, PkHash) # Md(label) THEN PkFault("invalid padding")
      ELSE IF p > Len(db) \/ db[IF p > Len(db) THEN 1 ELSE p] # One THEN PkFault("invalid padding")
      ELSE Done(SubSeq(db, p + 1, Len(db)))

\* The bits of the first byte that do not count: all of them where the modulus' top byte
\* is 1, the high ones else.
Cleared(byte, whole) == IF whole THEN {} ELSE {a \in byte : a[1] # "high"}

PssSign(olen, whole, hash) ==
  LET salt == SubSeq([i \in 1..PkHash |-> {<<"salt", i>>}], 1, PkHash)
      h == Md(Fill({}, 8) \o hash \o salt)
      db == Fill({}, olen - 2 * PkHash - 2) \o <<One>> \o salt
      masked == IF whole THEN <<db[1]>> \o MgfMask(Tail(db), h) ELSE MgfMask(db, h)
  IN  IF olen < 2 * PkHash + 2 THEN PkFault("bad input")
      ELSE Done(<<Cleared(masked[1], whole)>> \o SubSeq(masked, 2, Len(masked)) \o h
                \o <<{<<"bc">>}>>)

PssVerify(whole, hash, block) ==
  LET siglen == Len(block)
      from == IF whole THEN 2 ELSE 1
      h == SubSeq(block, siglen - PkHash, siglen - 1)
      masked == SubSeq(block, from, siglen - PkHash - 1)
      plain == MgfMask(masked, h)
      db == IF whole THEN plain ELSE <<Cleared(plain[1], FALSE)>> \o Tail(plain)
      p == SkipZeros(db, 1)
  IN  IF block[siglen] # {<<"bc">>} THEN PkFault("invalid padding")
      ELSE IF ~whole /\ \E a \in block[1] : a[1] = "high" THEN PkFault("bad input")
      ELSE IF p > Len(db) \/ db[IF p > Len(db) THEN 1 ELSE p] # One THEN PkFault("invalid padding")
      ELSE Verdict(h = Md(Fill({}, 8) \o hash \o SubSeq(db, p + 1, Len(db))))

-----------------------------------------------------------------------------
(* The calls *)

PkInit ==
  /\ pkPadding \in {"v15", "v21"}
  /\ pkMade = << >> /\ pkBlock = << >> /\ pkAltered = FALSE
  /\ pkAsked = << >> /\ pkRet = [ret |-> "none", out |-> << >>]

Make(what, result) ==
  /\ pkMade = << >>
  /\ pkMade' = what
  /\ pkBlock' = result.out
  /\ pkRet' = [ret |-> IF result.ret = "ok" THEN "none" ELSE result.ret, out |-> << >>]
  /\ UNCHANGED <<pkPadding, pkAltered, pkAsked>>

Read(what, result) ==
  /\ pkBlock # << >> /\ pkRet.ret = "none"
  /\ pkAsked' = what
  /\ pkRet' = result
  /\ UNCHANGED <<pkPadding, pkMade, pkBlock, pkAltered>>

Hashes(alg) == {Fill(b, HashLen(alg)) : b \in {7, 9}}

RsaPkcs1Sign ==
  \/ /\ pkPadding = "v15"
     /\ \E alg \in Algorithms : \E hash \in Hashes(alg) :
          Make(<<"sign", alg, hash>>, Pkcs1V15Sign(PkLen, alg, hash))
  \/ /\ pkPadding = "v21"
     /\ \E n \in PkMaskedLens, hash \in PkSmall :
          Make(<<"sign", n, hash>>, PssSign(n[1], n[2], hash))

RsaPkcs1Verify ==
  /\ pkMade # << >> /\ pkMade[1] = "sign"
  /\ \/ /\ pkPadding = "v15"
        /\ \E alg \in IF pkAltered THEN {pkMade[2]} ELSE Algorithms : \E hash \in Hashes(alg) :
             Read(<<"sign", alg, hash>>, Pkcs1V15Verify(pkBlock, alg, hash))
     \/ /\ pkPadding = "v21"
        /\ \E hash \in PkSmall :
             Read(<<"sign", pkMade[2], hash>>, PssVerify(pkMade[2][2], hash, pkBlock))

RsaPkcs1Encrypt ==
  \/ /\ pkPadding = "v15"
     /\ \E mode \in {"public", "private"}, message \in PkMessages :
          \E draws \in IF mode = "public" THEN PkDraws ELSE {<< >>} :
            Make(<<"crypt", mode, message>>, Pkcs1V15Encrypt(PkCryptLen, mode, message, draws))
  \/ /\ pkPadding = "v21"
     /\ \E n \in PkMaskedLens, label, message \in PkSmall :
          Make(<<"crypt", label, message>>, OaepEncrypt(n[1], label, message))

RsaPkcs1Decrypt ==
  /\ pkMade # << >> /\ pkMade[1] = "crypt"
  /\ \/ /\ pkPadding = "v15"
        /\ \E mode \in {"public", "private"} :
             Read(<<"crypt", IF mode = "public" THEN "private" ELSE "public">>,
                  Pkcs1V15Decrypt(mode, pkBlock))
     \/ /\ pkPadding = "v21"
        /\ \E label \in PkSmall : Read(<<"crypt", label>>, OaepDecrypt(label, pkBlock))

\* The places at which something else than padding or digest is, and one of each of these.
Places ==
  LET zeros == {i \in 3..Len(pkBlock) : pkBlock[i] = 0}
      sep == CHOOSE i \in zeros : \A j \in zeros : i <= j
  IN  IF pkPadding = "v21" THEN 1..Len(pkBlock)
      ELSE IF pkMade[1] = "sign" THEN {1, 2, 3} \cup ((sep - 1)..(sep + 20)) \cup {Len(pkBlock)}
      ELSE {}

Alter ==
  /\ pkBlock # << >> /\ pkRet.ret = "none" /\ ~pkAltered
  /\ \E i \in Places :
       \E b \in IF pkPadding = "v21" THEN {Difference(pkBlock[i], {<<"other">>})}
                ELSE {0, 1, 255, (pkBlock[i] + 1) % 256} \ {pkBlock[i]} :
         pkBlock' = [pkBlock EXCEPT ![i] = b]
  /\ pkAltered' = TRUE
  /\ UNCHANGED <<pkPadding, pkMade, pkAsked, pkRet>>

PkNext == RsaPkcs1Sign \/ RsaPkcs1Verify \/ RsaPkcs1Encrypt \/ RsaPkcs1Decrypt \/ Alter

-----------------------------------------------------------------------------
(* Properties *)

\* A signature verifies for the very algorithm and digest it was made for, and for no
\* others; and no block that differs from it in a byte does.  With v2.1 the byte in front
\* of a modulus that starts with 1 does not count, and where there is no room left for it
\* the code signs what nobody can verify.
PkOnlySigned ==
  pkAsked # << >> /\ pkAsked[1] = "sign" =>
    LET idle == pkPadding = "v21" /\ pkMade[2][2] /\ pkBlock[1] # {}
        lost == pkPadding = "v21" /\ pkMade[2] = <<2 * PkHash + 2, TRUE>>
    IN  (pkRet.ret = "ok") = ((~pkAltered \/ idle) /\ pkAsked = pkMade /\ ~lost)

\* What is encrypted is decrypted to the same message, zeros in it and all, whatever the
\* random source gives, unless it is empty; and only under the mode or label it was
\* encrypted under.
PkRoundTrip ==
  pkAsked # << >> /\ pkAsked[1] = "crypt" =>
    LET same == ~pkAltered /\ pkAsked[2] = pkMade[2]
        empty == pkPadding = "v15" /\ pkMade[3] = << >>
    IN  pkRet = IF same /\ ~empty THEN Done(pkMade[3]) ELSE PkFault("invalid padding")

=============================================================================

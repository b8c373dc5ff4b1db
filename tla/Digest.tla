------------------------------- MODULE Digest -------------------------------
(***************************************************************************)
(* Message digests: md.c and md_wrap.c over md2.c, md4.c, md5.c, sha1.c,     *)
(* sha2.c and sha4.c, with their HMACs.                                     *)
(*                                                                         *)
(* The six files keep one text: input collects in a buffer of one block,     *)
(* whole blocks are processed, and finish pads with the length in bits.     *)
(* md2.c counts differently.  What processing computes is abstracted to      *)
(* what it was computed from: a state is the sequence of the algorithm's     *)
(* initial value and the blocks processed, and the first byte of a digest    *)
(* carries the state it was read from.  Blocks and digests have the       *)
(* code's sizes; the two words of the byte count are scaled to DgWord.      *)
(***************************************************************************)
EXTENDS Integers, Sequences, Binding

CONSTANTS
  DgAlgorithms,   \* those of md_wrap.c that are run
  DgWord,         \* values of one word of total
  DgLengths(_),   \* lengths of input, by the size of a block
  DgKeyLengths(_),\* lengths of HMAC keys, by the size of a block
  DgMaxCalls,     \* bound: calls that give input
  DgMaxStarts     \* bound: messages begun

ASSUME DgAssumption == DgWord % 128 = 0 /\ DgWord > 0

VARIABLES
  dgAlg,     \* md_info of the context
  dgCtx,     \* the context: [state, total, buffer, ipad, opad]
  dgMode,    \* ghost: "hash", "hmac" or "done" after finish
  dgText,    \* ghost: the input since the message was begun
  dgKey,     \* ghost: the HMAC key
  dgOut,     \* the last digest, with the mode, key and text it is of
  dgBegun,   \* messages begun so far
  dgCalls    \* input calls so far

dgVars == <<dgAlg, dgCtx, dgMode, dgText, dgKey, dgOut, dgBegun, dgCalls>>

Zero == <<"byte", 0>>
Xored(pad, byte) == <<pad, byte>>
InputByte(message, i) == <<"in", message, i>>
Bytes(n, byte) == SubSeq([i \in 1..n |-> byte], 1, n)

\* memcpy(buffer + at, in, Len(in))
CopyTo(buffer, at, in) ==
  SubSeq(buffer, 1, at) \o in \o SubSeq(buffer, at + Len(in) + 1, Len(buffer))

-----------------------------------------------------------------------------
(* What the files have in common *)

Blank(block) ==
  [state |-> << >>, total |-> <<0, 0>>, buffer |-> Bytes(block, Zero),
   ipad |-> << >>, opad |-> << >>]

\* A context of the algorithm begun anew; buffer and pads stay as they are.
Begin(c, iv) == [c EXCEPT !.state = << <<iv>> >>, !.total = <<0, 0>>]

\* total after n more bytes.
Counted(total, n) ==
  LET low == (total[1] + n) % DgWord
  IN  <<low, (total[2] + (IF low < n THEN 1 ELSE 0)) % DgWord>>

BlockUpdate(Process(_, _), block, c, in) ==
  LET left == c.total[1] % block
      fill == block - left
      full == left > 0 /\ Len(in) >= fill IN
  With(IF full THEN CopyTo(c.buffer, left, SubSeq(in, 1, fill)) ELSE c.buffer, LAMBDA held :
  With(IF full THEN Process(c.state, held) ELSE c.state, LAMBDA first :
  With(IF full THEN SubSeq(in, fill + 1, Len(in)) ELSE in, LAMBDA rest :
  LET n == Len(rest) \div block
      state[i \in 0..n] ==
        IF i = 0 THEN first
        ELSE Process(state[i - 1], SubSeq(rest, (i - 1) * block + 1, i * block)) IN
    IF in = << >> THEN c
    ELSE [c EXCEPT !.total = Counted(@, Len(in)), !.state = state[n],
                   !.buffer = CopyTo(held, IF full THEN 0 ELSE left,
                                     SubSeq(rest, n * block + 1, Len(rest)))])))

Word(n, w) == <<<<"word", w>>>> \o Bytes(n - 1, <<"more">>)

\* The padding and the length in bits, in words of size bytes, that finish gives to
\* Update; the digest is read from the state they leave.
BlockFinish(Update(_, _), Ordered(_, _), block, size, c) ==
  LET high == (c.total[1] \div (DgWord \div 8) + c.total[2] * 8) % DgWord
      low == (c.total[1] * 8) % DgWord
      last == c.total[1] % block
      padn == IF last < block - 2 * size THEN block - 2 * size - last
              ELSE 2 * block - 2 * size - last
      padding == <<<<"byte", 128>>>> \o Bytes(padn - 1, Zero)
  IN  Update(Update(c, padding), Ordered(Word(size, high), Word(size, low)))

LittleEndian(high, low) == low \o high
BigEndian(high, low) == high \o low

\* The n bytes finish reads from the state.
DigestOf(c, n) == <<<<"digest", c.state>>>> \o Bytes(n - 1, <<"more">>)

Pads(c, block, key) ==
  LET long == key \o Bytes(block - Len(key), Zero)
      padded(pad) == SubSeq([i \in 1..block |-> Xored(pad, long[i])], 1, block)
  IN  [c EXCEPT !.ipad = padded("ipad"), !.opad = padded("opad")]

-----------------------------------------------------------------------------
(* md4.c and md5.c *)

Md5Starts(c) == Begin(c, "MD5")
Md5Process(state, block) == Append(state, block)
Md5Update(c, in) == BlockUpdate(Md5Process, 64, c, in)
Md5Finish(c) == BlockFinish(Md5Update, LittleEndian, 64, 4, c)
Md5Hash(in) == DigestOf(Md5Finish(Md5Update(Md5Starts(Blank(64)), in)), 16)
Md5HmacStarts(c, key) ==
  LET pads == Pads(c, 64, IF Len(key) > 64 THEN Md5Hash(key) ELSE key)
  IN  Md5Update(Md5Starts(pads), pads.ipad)
Md5HmacFinish(c) ==
  Md5Finish(Md5Update(Md5Update(Md5Starts(c), c.opad), DigestOf(Md5Finish(c), 16)))
Md5HmacReset(c) == Md5Update(Md5Starts(c), c.ipad)

Md4Starts(c) == Begin(c, "MD4")
Md4Process(state, block) == Append(state, block)
Md4Update(c, in) == BlockUpdate(Md4Process, 64, c, in)
Md4Finish(c) == BlockFinish(Md4Update, LittleEndian, 64, 4, c)
Md4Hash(in) == DigestOf(Md4Finish(Md4Update(Md4Starts(Blank(64)), in)), 16)
Md4HmacStarts(c, key) ==
  LET pads == Pads(c, 64, IF Len(key) > 64 THEN Md4Hash(key) ELSE key)
  IN  Md4Update(Md4Starts(pads), pads.ipad)
Md4HmacFinish(c) ==
  Md4Finish(Md4Update(Md4Update(Md4Starts(c), c.opad), DigestOf(Md4Finish(c), 16)))
Md4HmacReset(c) == Md4Update(Md4Starts(c), c.ipad)

-----------------------------------------------------------------------------
(* sha1.c *)

Sha1Starts(c) == Begin(c, "SHA1")
Sha1Process(state, block) == Append(state, block)
Sha1Update(c, in) == BlockUpdate(Sha1Process, 64, c, in)
Sha1Finish(c) == BlockFinish(Sha1Update, BigEndian, 64, 4, c)
Sha1Hash(in) == DigestOf(Sha1Finish(Sha1Update(Sha1Starts(Blank(64)), in)), 20)
Sha1HmacStarts(c, key) ==
  LET pads == Pads(c, 64, IF Len(key) > 64 THEN Sha1Hash(key) ELSE key)
  IN  Sha1Update(Sha1Starts(pads), pads.ipad)
Sha1HmacFinish(c) ==
  Sha1Finish(Sha1Update(Sha1Update(Sha1Starts(c), c.opad), DigestOf(Sha1Finish(c), 20)))
Sha1HmacReset(c) == Sha1Update(Sha1Starts(c), c.ipad)

-----------------------------------------------------------------------------
(* sha2.c and sha4.c, whose second algorithm has other initial values and reads *)
(* fewer bytes.  The flag for it, is224 or is384, lives in the context: here it *)
(* is the name of the initial values in the state. *)

IvOf(c) == c.state[1][1]

Sha2Starts(c, is224) == Begin(c, IF is224 THEN "SHA224" ELSE "SHA256")
Sha2Process(state, block) == Append(state, block)
Sha2Update(c, in) == BlockUpdate(Sha2Process, 64, c, in)
Sha2Length(c) == IF IvOf(c) = "SHA224" THEN 28 ELSE 32
Sha2Finish(c) == BlockFinish(Sha2Update, BigEndian, 64, 4, c)
Sha2Hash(in, is224) ==
  With(Sha2Finish(Sha2Update(Sha2Starts(Blank(64), is224), in)), LAMBDA c :
    DigestOf(c, Sha2Length(c)))
Sha2HmacStarts(c, key, is224) ==
  With(Pads(c, 64, IF Len(key) > 64 THEN Sha2Hash(key, is224) ELSE key), LAMBDA pads :
    Sha2Update(Sha2Starts(pads, is224), pads.ipad))
\* Defect: the outer hash is always SHA-256.
Sha2HmacFinish256(c) ==
  Sha2Finish(Sha2Update(Sha2Update(Sha2Starts(c, FALSE), c.opad),
                        DigestOf(Sha2Finish(c), Sha2Length(c))))

Sha2HmacFinish(c) ==
  Sha2Finish(Sha2Update(Sha2Update(Sha2Starts(c, IvOf(c) = "SHA224"), c.opad),
                        DigestOf(Sha2Finish(c), Sha2Length(c))))
Sha2HmacReset(c) == Sha2Update(Sha2Starts(c, IvOf(c) = "SHA224"), c.ipad)

Sha4Starts(c, is384) == Begin(c, IF is384 THEN "SHA384" ELSE "SHA512")
Sha4Process(state, block) == Append(state, block)
Sha4Update(c, in) == BlockUpdate(Sha4Process, 128, c, in)
Sha4Length(c) == IF IvOf(c) = "SHA384" THEN 48 ELSE 64
Sha4Finish(c) == BlockFinish(Sha4Update, BigEndian, 128, 8, c)
Sha4Hash(in, is384) ==
  With(Sha4Finish(Sha4Update(Sha4Starts(Blank(128), is384), in)), LAMBDA c :
    DigestOf(c, Sha4Length(c)))
Sha4HmacStarts(c, key, is384) ==
  With(Pads(c, 128, IF Len(key) > 128 THEN Sha4Hash(key, is384) ELSE key), LAMBDA pads :
    Sha4Update(Sha4Starts(pads, is384), pads.ipad))
Sha4HmacFinish(c) ==
  Sha4Finish(Sha4Update(Sha4Update(Sha4Starts(c, IvOf(c) = "SHA384"), c.opad),
                        DigestOf(Sha4Finish(c), Sha4Length(c))))
Sha4HmacReset(c) == Sha4Update(Sha4Starts(c, IvOf(c) = "SHA384"), c.ipad)

-----------------------------------------------------------------------------
(* md2.c counts only what is in the buffer, as total[1] here, and ends with a block *)
(* made of its checksum, another function of what was processed. *)

Md2Starts(c) == [Begin(c, "MD2") EXCEPT !.buffer = Bytes(16, Zero)]
Md2Process(c) == [c EXCEPT !.state = Append(@, c.buffer)]

\* The body of md2_update's loop on a context and what is left of the input.
Md2Round(r) ==
  LET left == r.c.total[1]
      fill == IF left + Len(r.in) > 16 THEN 16 - left ELSE Len(r.in)
      held == [r.c EXCEPT !.buffer = CopyTo(@, left, SubSeq(r.in, 1, fill))]
  IN  [c |-> IF left + fill = 16 THEN Md2Process([held EXCEPT !.total[1] = 0])
             ELSE [held EXCEPT !.total[1] = left + fill],
       in |-> SubSeq(r.in, fill + 1, Len(r.in))]

Md2Update(c, in) ==
  LET after[n \in 0..Len(in)] ==
        IF n = 0 THEN [c |-> c, in |-> in]
        ELSE LET before == after[n - 1] IN IF before.in = << >> THEN before ELSE Md2Round(before)
  IN  after[Len(in)].c

Md2Finish(c) ==
  LET left == c.total[1]
      last == Md2Process([c EXCEPT !.buffer =
                            SubSeq(@, 1, left) \o Bytes(16 - left, <<"byte", 16 - left>>)])
      sum == <<<<"cksum", last.state>>>> \o Bytes(15, <<"more">>)
  IN  Md2Process([last EXCEPT !.buffer = sum])

Md2Hash(in) == DigestOf(Md2Finish(Md2Update(Md2Starts(Blank(16)), in)), 16)
Md2HmacStarts(c, key) ==
  LET pads == Pads(c, 16, IF Len(key) > 16 THEN Md2Hash(key) ELSE key)
  IN  Md2Update(Md2Starts(pads), pads.ipad)
Md2HmacFinish(c) ==
  Md2Finish(Md2Update(Md2Update(Md2Starts(c), c.opad), DigestOf(Md2Finish(c), 16)))
Md2HmacReset(c) == Md2Update(Md2Starts(c), c.ipad)

-----------------------------------------------------------------------------
(* md_wrap.c: the functions of an algorithm by their place in md_info_t *)

Md2Info(f, c, x) ==
  CASE f = "starts" -> Md2Starts(c) [] f = "update" -> Md2Update(c, x)
    [] f = "finish" -> Md2Finish(c) [] f = "hmac_starts" -> Md2HmacStarts(c, x)
    [] f = "hmac_finish" -> Md2HmacFinish(c) [] f = "hmac_reset" -> Md2HmacReset(c)

Md4Info(f, c, x) ==
  CASE f = "starts" -> Md4Starts(c) [] f = "update" -> Md4Update(c, x)
    [] f = "finish" -> Md4Finish(c) [] f = "hmac_starts" -> Md4HmacStarts(c, x)
    [] f = "hmac_finish" -> Md4HmacFinish(c) [] f = "hmac_reset" -> Md4HmacReset(c)

Md5Info(f, c, x) ==
  CASE f = "starts" -> Md5Starts(c) [] f = "update" -> Md5Update(c, x)
    [] f = "finish" -> Md5Finish(c) [] f = "hmac_starts" -> Md5HmacStarts(c, x)
    [] f = "hmac_finish" -> Md5HmacFinish(c) [] f = "hmac_reset" -> Md5HmacReset(c)

Sha1Info(f, c, x) ==
  CASE f = "starts" -> Sha1Starts(c) [] f = "update" -> Sha1Update(c, x)
    [] f = "finish" -> Sha1Finish(c) [] f = "hmac_starts" -> Sha1HmacStarts(c, x)
    [] f = "hmac_finish" -> Sha1HmacFinish(c) [] f = "hmac_reset" -> Sha1HmacReset(c)

Sha224Info(f, c, x) ==
  CASE f = "starts" -> Sha2Starts(c, TRUE) [] f = "update" -> Sha2Update(c, x)
    [] f = "finish" -> Sha2Finish(c) [] f = "hmac_starts" -> Sha2HmacStarts(c, x, TRUE)
    [] f = "hmac_finish" -> Sha2HmacFinish(c) [] f = "hmac_reset" -> Sha2HmacReset(c)

Sha256Info(f, c, x) ==
  CASE f = "starts" -> Sha2Starts(c, FALSE) [] f = "update" -> Sha2Update(c, x)
    [] f = "finish" -> Sha2Finish(c) [] f = "hmac_starts" -> Sha2HmacStarts(c, x, FALSE)
    [] f = "hmac_finish" -> Sha2HmacFinish(c) [] f = "hmac_reset" -> Sha2HmacReset(c)

Sha384Info(f, c, x) ==
  CASE f = "starts" -> Sha4Starts(c, TRUE) [] f = "update" -> Sha4Update(c, x)
    [] f = "finish" -> Sha4Finish(c) [] f = "hmac_starts" -> Sha4HmacStarts(c, x, TRUE)
    [] f = "hmac_finish" -> Sha4HmacFinish(c) [] f = "hmac_reset" -> Sha4HmacReset(c)

Sha512Info(f, c, x) ==
  CASE f = "starts" -> Sha4Starts(c, FALSE) [] f = "update" -> Sha4Update(c, x)
    [] f = "finish" -> Sha4Finish(c) [] f = "hmac_starts" -> Sha4HmacStarts(c, x, FALSE)
    [] f = "hmac_finish" -> Sha4HmacFinish(c) [] f = "hmac_reset" -> Sha4HmacReset(c)

Block(alg) == CASE alg = "MD2" -> 16 [] alg \in {"SHA384", "SHA512"} -> 128 [] OTHER -> 64
Size(alg) ==
  CASE alg \in {"MD2", "MD4", "MD5"} -> 16 [] alg = "SHA1" -> 20 [] alg = "SHA224" -> 28
    [] alg = "SHA256" -> 32 [] alg = "SHA384" -> 48 [] alg = "SHA512" -> 64

\* md_info_from_type and the call through the structure it finds.
Call(alg, f, c, x) ==
  CASE alg = "MD2" -> Md2Info(f, c, x) [] alg = "MD4" -> Md4Info(f, c, x)
    [] alg = "MD5" -> Md5Info(f, c, x) [] alg = "SHA1" -> Sha1Info(f, c, x)
    [] alg = "SHA224" -> Sha224Info(f, c, x) [] alg = "SHA256" -> Sha256Info(f, c, x)
    [] alg = "SHA384" -> Sha384Info(f, c, x) [] alg = "SHA512" -> Sha512Info(f, c, x)

-----------------------------------------------------------------------------
(* Calls on one context *)

\* A message is begun: its bytes are told from those of the one before it.
Beginning == dgBegun < DgMaxStarts /\ dgBegun' = dgBegun + 1 /\ dgText' = << >>

MdStarts ==
  /\ Beginning
  /\ dgCtx' = Call(dgAlg, "starts", dgCtx, << >>)
  /\ dgMode' = "hash"
  /\ UNCHANGED <<dgAlg, dgKey, dgOut, dgCalls>>

KeyBytes(begun, n) == SubSeq([i \in 1..n |-> <<"key", begun, i>>], 1, n)
MdHmacStarts(n) ==
  /\ Beginning
  /\ dgKey' = KeyBytes(dgBegun, n)
  /\ dgCtx' = Call(dgAlg, "hmac_starts", dgCtx, dgKey')
  /\ dgMode' = "hmac"
  /\ UNCHANGED <<dgAlg, dgOut, dgCalls>>

\* Of a context that has a key: in the midst of a message or after one.
MdHmacReset ==
  /\ dgCtx.ipad # << >> /\ Beginning
  /\ dgCtx' = Call(dgAlg, "hmac_reset", dgCtx, << >>)
  /\ dgMode' = "hmac"
  /\ UNCHANGED <<dgAlg, dgKey, dgOut, dgCalls>>

\* md_update and md_hmac_update alike.
MdUpdate(n) ==
  /\ dgMode \in {"hash", "hmac"} /\ dgCalls < DgMaxCalls
  /\ LET in == SubSeq([i \in 1..n |-> InputByte(dgBegun, Len(dgText) + i)], 1, n)
     IN  /\ dgCtx' = Call(dgAlg, "update", dgCtx, in)
         /\ dgText' = dgText \o in
  /\ dgCalls' = dgCalls + 1
  /\ UNCHANGED <<dgAlg, dgMode, dgKey, dgOut, dgBegun>>

MdFinish ==
  /\ dgMode \in {"hash", "hmac"}
  /\ dgCtx' = Call(dgAlg, IF dgMode = "hash" THEN "finish" ELSE "hmac_finish", dgCtx, << >>)
  /\ dgOut' = [mode |-> dgMode, key |-> dgKey, text |-> dgText,
               digest |-> DigestOf(dgCtx', Size(dgAlg))]
  /\ dgMode' = "done"
  /\ UNCHANGED <<dgAlg, dgText, dgKey, dgBegun, dgCalls>>

NoOutput == [mode |-> "none", key |-> << >>, text |-> << >>, digest |-> << >>]

DgInit ==
  /\ dgAlg \in DgAlgorithms
  /\ \/ /\ dgMode = "hash" /\ dgKey = << >>
        /\ dgCtx = Call(dgAlg, "starts", Blank(Block(dgAlg)), << >>)
     \/ /\ dgMode = "hmac" /\ \E n \in DgKeyLengths(Block(dgAlg)) : dgKey = KeyBytes(0, n)
        /\ dgCtx = Call(dgAlg, "hmac_starts", Blank(Block(dgAlg)), dgKey)
  /\ dgText = << >> /\ dgOut = NoOutput /\ dgBegun = 1 /\ dgCalls = 0

DgNext ==
  \/ MdStarts \/ MdHmacReset \/ MdFinish
  \/ \E n \in DgKeyLengths(Block(dgAlg)) : MdHmacStarts(n)
  \/ \E n \in DgLengths(Block(dgAlg)) : MdUpdate(n)

-----------------------------------------------------------------------------
(* Properties *)

BlocksOf(text, block) ==
  LET n == Len(text) \div block
  IN  SubSeq([i \in 1..n |-> SubSeq(text, (i - 1) * block + 1, i * block)], 1, n)

\* RFC 1319: as many bytes as are missing, each their number, and the checksum.
Md2Digest(text) ==
  LET n == 16 - (Len(text) % 16)
      state == << <<"MD2">> >> \o BlocksOf(text \o Bytes(n, <<"byte", n>>), 16)
      sum == <<<<"cksum", state>>>> \o Bytes(15, <<"more">>)
  IN  DigestOf([state |-> Append(state, sum)], 16)

\* RFC 1321 and FIPS 180: a one bit, zeros and the length in bits to a whole block.
PaddedDigest(alg, text) ==
  LET block == Block(alg)
      size == block \div 16
      zeros == CHOOSE n \in 0..block : (Len(text) + 1 + n + 2 * size) % block = 0
      high == Word(size, ((Len(text) * 8) \div DgWord) % DgWord)
      low == Word(size, (Len(text) * 8) % DgWord)
      padded == text \o <<<<"byte", 128>>>> \o Bytes(zeros, Zero)
                \o IF alg \in {"MD4", "MD5"} THEN low \o high ELSE high \o low
      state == << <<alg>> >> \o BlocksOf(padded, block)
  IN  DigestOf([state |-> state], Size(alg))

DigestFor(alg, text) == IF alg = "MD2" THEN Md2Digest(text) ELSE PaddedDigest(alg, text)

\* RFC 2104
HmacFor(alg, key, text) ==
  LET short == IF Len(key) > Block(alg) THEN DigestFor(alg, key) ELSE key
      long == short \o Bytes(Block(alg) - Len(short), Zero)
      pad(p) == [i \in 1..Block(alg) |-> Xored(p, long[i])]
  IN  DigestFor(alg, pad("opad") \o DigestFor(alg, pad("ipad") \o text))

\* However the input is cut into calls, and whatever the context was used for before,
\* finish hashes the input since the message was begun as the standard pads it: no
\* byte lost in the buffer at the seam of two calls, none left over from the last
\* message, none padded a block too many, and the length right when its low word
\* overflows.
DgWholeInput == dgOut.mode = "hash" => dgOut.digest = DigestFor(dgAlg, dgOut.text)

\* An HMAC is RFC 2104's for the key of the last hmac_starts and the input since the last
\* reset, after any use of the context, and with one algorithm inside and outside.
DgHmacOfKey == dgOut.mode = "hmac" => dgOut.digest = HmacFor(dgAlg, dgOut.key, dgOut.text)

=============================================================================

------------------------------ MODULE Cipher ------------------------------
(* Ciphers on streams: cipher.c with the tables of cipher_wrap.c, the modes  *)
(* of aes.c (des.c, camellia.c and blowfish.c hold the same loops for blocks *)
(* of their size) and gcm.c.                                                 *)
(*                                                                         *)
(* The ciphers of a single block and GCM's multiplication are stand-ins: all *)
(* that counts of them is that they can be undone and that they depend on    *)
(* every byte. Blocks are shorter, and a byte has fewer values, than in the  *)
(* code; the cfg says how many.                                              *)
EXTENDS Integers, FiniteSets, Sequences, SequencesExt, Bitwise, Binding

CONSTANTS CiByte,        \* values of a byte (256 in the code, a power of 2)
          CiWide,        \* bytes of a block of AES and Camellia (16)
          CiNarrow,      \* of DES and Blowfish (8)
          CiGcmIv,       \* bytes of the iv GCM takes as it is (12)
          CiTypes,       \* the ciphers of the run
          CiPieces,      \* bytes one call is given
          CiMaxCalls,    \* calls of cipher_update in a direction
          CiGcmLengths   \* bytes of iv, additional data and text GCM is given

VARIABLES ciCtx,    \* the cipher_context_t
          ciText,   \* how many bytes have been encrypted
          ciFed,    \* how many bytes of the ciphertext have been given back
          ciSecret, \* the ciphertext, cut short or not
          ciOut,    \* what has come out in the present direction
          ciCalls,  \* calls in it
          ciRet,    \* the last call's answer
          ciGcm     \* a sealed text, what became of it and what opened it

ciVars == <<ciCtx, ciText, ciFed, ciSecret, ciOut, ciCalls, ciRet, ciGcm>>

-----------------------------------------------------------------------------
(* The tables *)

WithKeys(base, block, modes) == {[base |-> base, key |-> k, mode |-> m, block |-> block] :
                                   k \in {128, 192, 256}, m \in modes}
AesInfos == WithKeys("AES", CiWide, {"CBC", "CFB", "CTR"})
CamelliaInfos == WithKeys("CAMELLIA", CiWide, {"CBC", "CFB", "CTR"})
DesInfos == {[base |-> "DES", key |-> k, mode |-> "CBC", block |-> CiNarrow] : k \in {64, 128, 192}}
BlowfishInfos == {[base |-> "BLOWFISH", key |-> 128, mode |-> m, block |-> CiNarrow] :
                    m \in {"CBC", "CFB", "CTR"}}
NullInfo == [base |-> "NULL", key |-> 0, mode |-> "NULL", block |-> 1]

\* A type is its base, key length and mode; a set of at most one.
CipherInfoFromType(type) ==
  {i \in AesInfos \cup CamelliaInfos \cup DesInfos \cup BlowfishInfos \cup {NullInfo} :
     <<i.base, i.key, i.mode>> = type}

-----------------------------------------------------------------------------
(* Modes *)

NoBytes(n) == SubSeq([i \in 1..n |-> 0], 1, n)
CiXor(a, b) == SubSeq([i \in 1..Len(a) |-> a[i] ^^ b[i]], 1, Len(a))
Scrambled(block) ==
  LET c[i \in 0..Len(block)] == IF i = 0 THEN 1 ELSE (block[i] + c[i - 1] + 5 + i) % CiByte
  IN  Reverse([i \in 1..Len(block) |-> c[i]])
Unscrambled(cipher) ==
  LET c == Reverse(cipher)
  IN  [i \in 1..Len(c) |-> (c[i] - (IF i = 1 THEN 1 ELSE c[i - 1]) - 5 - i) % CiByte]

\* The block, by the schedule the key was set for; DES asks for no direction but that. A
\* schedule used the other way gives some other block.
Ecb(ctx, op, block) ==
  IF ctx.schedule = "encrypt" /\ (op = "encrypt" \/ ctx.info.base = "DES") THEN Scrambled(block)
  ELSE IF ctx.schedule = "decrypt" /\ (op = "decrypt" \/ ctx.info.base = "DES")
       THEN Unscrambled(block)
  ELSE Reverse(Scrambled(block))

\* Whole blocks only; the last block of ciphertext is the next call's iv.
CryptCbc(ctx, iv, input) ==
  LET n == ctx.info.block
      block(i) == SubSeq(input, (i - 1) * n + 1, i * n)
      C[i \in 0..(Len(input) \div n)] ==
        IF i = 0 THEN iv
        ELSE IF ctx.op = "decrypt" THEN block(i) ELSE Ecb(ctx, ctx.op, CiXor(block(i), C[i - 1]))
      out(i) == IF ctx.op = "decrypt" THEN CiXor(Ecb(ctx, ctx.op, block(i)), C[i - 1]) ELSE C[i]
  IN  IF Len(input) % n # 0 THEN [ret |-> "invalid length", iv |-> iv, out |-> << >>]
      ELSE [ret |-> "ok", iv |-> C[Len(input) \div n],
            out |-> FlattenSeq([i \in 1..(Len(input) \div n) |-> out(i)])]

\* The iv takes in the ciphertext byte by byte, and is encrypted when it is full of it.
CryptCfb(ctx, input) ==
  LET st[k \in 0..Len(input)] ==
        IF k = 0 THEN [iv |-> ctx.iv, n |-> ctx.len, out |-> << >>]
        ELSE LET s == st[k - 1] IN
             With(IF s.n = 0 THEN Ecb(ctx, "encrypt", s.iv) ELSE s.iv, LAMBDA iv :
             LET o == input[k] ^^ iv[s.n + 1] IN
               [iv |-> [iv EXCEPT ![s.n + 1] = IF ctx.op = "decrypt" THEN input[k] ELSE o],
                n |-> (s.n + 1) % ctx.info.block, out |-> Append(s.out, o)])
  IN  st[Len(input)]

\* Defect: only the last byte is counted.
CountUpNoCarry(counter, last) == [counter EXCEPT ![Len(counter)] = (@ + 1) % CiByte]
\* ++ on the last of the bytes, and on the one before as long as they come to 0.
CountUp(counter, last) ==
  LET n == Len(counter)
      k == CHOOSE i \in 0..last : /\ \A j \in (n - i + 1)..n : counter[j] = CiByte - 1
                                  /\ i < last => counter[n - i] # CiByte - 1
  IN  [j \in 1..n |-> IF j > n - k THEN 0 ELSE IF j = n - k /\ k < last THEN counter[j] + 1
                      ELSE counter[j]]

CryptCtr(ctx, input) ==
  LET b == ctx.info.block
      st[k \in 0..Len(input)] ==
        IF k = 0 THEN [iv |-> ctx.iv, n |-> ctx.len, data |-> ctx.data, out |-> << >>]
        ELSE LET s == st[k - 1] IN
             With(IF s.n = 0 THEN Ecb(ctx, "encrypt", s.iv) ELSE s.data, LAMBDA stream :
               [iv |-> IF s.n = 0 THEN CountUp(s.iv, b) ELSE s.iv, n |-> (s.n + 1) % b,
                data |-> stream, out |-> Append(s.out, input[k] ^^ stream[s.n + 1])])
  IN  st[Len(input)]

-----------------------------------------------------------------------------
(* cipher.c *)

CiAnswer(ret, ctx, out) == [ret |-> ret, ctx |-> ctx, out |-> out]
CipherInitCtx(info) ==
  [info |-> info, key |-> 0, op |-> "decrypt", schedule |-> "none", iv |-> NoBytes(info.block),
   data |-> NoBytes(info.block), len |-> 0]
CipherSetkey(ctx, op) ==
  [ctx EXCEPT !.key = ctx.info.key, !.op = op,
              !.schedule = IF op = "encrypt" \/ ctx.info.mode \in {"CFB", "CTR"}
                           THEN "encrypt" ELSE "decrypt"]
CipherReset(ctx, iv) == [ctx EXCEPT !.len = 0, !.iv = iv]

\* The unprocessed bytes with more of them written behind the first at.
Held(ctx, at, bytes) ==
  [i \in 1..ctx.info.block |-> IF i \in (at + 1)..(at + Len(bytes)) THEN bytes[i - at]
                               ELSE ctx.data[i]]

\* Decrypting, a block is held back even when it is whole: it may hold the padding.
UpdateCbc(ctx, input) ==
  LET block == ctx.info.block
      n == ctx.len + Len(input)
      copy == IF ctx.len = 0 THEN 0 ELSE block - ctx.len
      rest == SubSeq(input, copy + 1, Len(input))
      part == Len(rest) % block
      last == IF part = 0 /\ rest # << >> /\ ctx.op = "decrypt" THEN block ELSE part
      whole == SubSeq(rest, 1, Len(rest) - last) IN
  With(Held(ctx, ctx.len, SubSeq(input, 1, copy)), LAMBDA cached :
  With(IF ctx.len = 0 THEN [ret |-> "ok", iv |-> ctx.iv, out |-> << >>]
       ELSE CryptCbc(ctx, ctx.iv, cached), LAMBDA first :
  With(CryptCbc(ctx, first.iv, whole), LAMBDA second :
    IF n < block \/ (n = block /\ ctx.op = "decrypt")
    THEN CiAnswer("ok", [ctx EXCEPT !.data = Held(ctx, ctx.len, input), !.len = n], << >>)
    ELSE CiAnswer("ok", [ctx EXCEPT !.iv = second.iv, !.len = last,
                         !.data = Held([ctx EXCEPT !.data = cached], 0,
                                       SubSeq(rest, Len(rest) - last + 1, Len(rest)))],
                first.out \o second.out))))
CipherUpdate(ctx, input) ==
  LET mode == ctx.info.mode IN
  IF mode = "NULL" THEN CiAnswer("ok", ctx, input)
  ELSE IF mode = "CBC" THEN UpdateCbc(ctx, input)
  ELSE IF mode = "CFB"
       THEN With(CryptCfb(ctx, input), LAMBDA s :
              CiAnswer("ok", [ctx EXCEPT !.iv = s.iv, !.len = s.n], s.out))
  ELSE With(CryptCtr(ctx, input), LAMBDA s :
         CiAnswer("ok", [ctx EXCEPT !.iv = s.iv, !.len = s.n, !.data = s.data], s.out))

AddPkcsPadding(data, len) == [i \in 1..Len(data) |-> IF i > len THEN Len(data) - len ELSE data[i]]
\* The length of the data, or -1; a last byte of 0 passes for no padding.
GetPkcsPadding(block) ==
  LET n == Len(block) IN
  IF Last(block) > n \/ \E i \in (n - Last(block) + 1)..n : block[i] # Last(block) THEN -1
  ELSE n - Last(block)
CipherFinish(ctx) ==
  IF ctx.info.mode # "CBC" THEN CiAnswer("ok", ctx, << >>)
  ELSE IF ctx.op = "encrypt"
       THEN With(AddPkcsPadding(ctx.data, ctx.len), LAMBDA padded :
            With(CryptCbc(ctx, ctx.iv, padded), LAMBDA c :
              CiAnswer("ok", [ctx EXCEPT !.data = padded, !.iv = c.iv], c.out)))
  ELSE IF ctx.len # ctx.info.block THEN CiAnswer("full block expected", ctx, << >>)
  ELSE With(CryptCbc(ctx, ctx.iv, ctx.data), LAMBDA p :
       With(GetPkcsPadding(p.out), LAMBDA len :
         IF len = -1 THEN CiAnswer("invalid padding", [ctx EXCEPT !.iv = p.iv], << >>)
         ELSE CiAnswer("ok", [ctx EXCEPT !.iv = p.iv], SubSeq(p.out, 1, len))))

-----------------------------------------------------------------------------
(* gcm.c *)

GcmCtx == CipherInitCtx(CHOOSE i \in CipherInfoFromType(<<"AES", 256, "CBC">>) : TRUE)
GcmMult(block) == Reverse([i \in 1..Len(block) |-> (block[i] * 3 + 7) % CiByte])
GcmBlocks(bytes) ==
  LET n == (Len(bytes) + CiWide - 1) \div CiWide
  IN  [i \in 1..n |-> SubSeq(bytes, (i - 1) * CiWide + 1,
                             IF i < n THEN i * CiWide ELSE Len(bytes))]
\* The bytes taken into the sum, block by block.
TakenIn(sum, bytes) ==
  LET c == GcmBlocks(bytes)
      s[i \in 0..Len(c)] ==
        IF i = 0 THEN sum
        ELSE LET last == s[i - 1]
             IN  GcmMult([j \in 1..CiWide |-> IF j \in DOMAIN c[i] THEN last[j] ^^ c[i][j]
                                                ELSE last[j]])
  IN  s[Len(c)]
LengthBlock(a, b) ==
  [i \in 1..CiWide |-> IF i = CiWide THEN b ELSE IF i = CiWide \div 2 THEN a ELSE 0]
FirstCounter(iv) ==
  IF Len(iv) = CiGcmIv
  THEN iv \o [i \in 1..(CiWide - CiGcmIv) |-> IF i = CiWide - CiGcmIv THEN 1 ELSE 0]
  ELSE TakenIn(TakenIn(NoBytes(CiWide), iv), LengthBlock(0, Len(iv)))

\* The buffers lie as gcm_crypt_and_tag asks for. The tag is of the ciphertext.
GcmCryptAndTag(op, iv, add, input) ==
  LET ctx == [GcmCtx EXCEPT !.schedule = "encrypt"]
      y0 == FirstCounter(iv)
      c == GcmBlocks(input)
      y[i \in 0..Len(c)] == IF i = 0 THEN y0 ELSE CountUp(y[i - 1], CiWide - CiGcmIv)
      out == FlattenSeq([i \in 1..Len(c) |-> CiXor(c[i], Ecb(ctx, "encrypt", y[i]))])
      sum == TakenIn(TakenIn(NoBytes(CiWide), add), IF op = "encrypt" THEN out ELSE input)
      first == Ecb(ctx, "encrypt", y0)
  IN  [out |-> out,
       tag |-> IF input = << >> /\ add = << >> THEN first
               ELSE CiXor(first, TakenIn(sum, LengthBlock(Len(add), Len(input))))]
GcmAuthDecrypt(iv, add, tag, input) ==
  With(GcmCryptAndTag("decrypt", iv, add, input), LAMBDA r :
    IF r.tag = tag THEN [ret |-> "ok", out |-> r.out]
    ELSE [ret |-> "auth failed", out |-> NoBytes(Len(input))])

-----------------------------------------------------------------------------
(* One text encrypted in any pieces, and its ciphertext decrypted in any others, with the *)
(* same context; or a text that GCM seals                                               *)

\* An iv whose counter is about to carry.
StartIv(info) == [i \in 1..info.block |-> IF i + 2 > info.block THEN CiByte - 1 ELSE i % CiByte]
TextBytes(from, n) == SubSeq([i \in 1..n |-> (7 * (from + i) + 3) % CiByte], 1, n)
NothingSealed == [on |-> FALSE]

CiInit ==
  /\ \E type \in CiTypes : \E info \in CipherInfoFromType(type) :
       ciCtx = CipherReset(CipherSetkey(CipherInitCtx(info), "encrypt"), StartIv(info))
  /\ ciText = 0 /\ ciFed = 0 /\ ciSecret = << >> /\ ciOut = << >> /\ ciCalls = 0
  /\ ciRet = "going" /\ ciGcm = NothingSealed

CiCall(input) ==
  /\ ciRet = "going" /\ ciCalls < CiMaxCalls
  /\ \E r \in {CipherUpdate(ciCtx, input)} : ciCtx' = r.ctx /\ ciOut' = ciOut \o r.out
  /\ ciCalls' = ciCalls + 1
  /\ UNCHANGED <<ciSecret, ciRet, ciGcm>>
CiEncrypt ==
  /\ ciCtx.op = "encrypt"
  /\ \E n \in CiPieces : CiCall(TextBytes(ciText, n)) /\ ciText' = ciText + n
  /\ UNCHANGED ciFed
CiDecrypt ==
  /\ ciCtx.op = "decrypt"
  /\ \E n \in CiPieces \cup {Len(ciSecret) - ciFed} :
       /\ ciFed + n <= Len(ciSecret)
       /\ CiCall(SubSeq(ciSecret, ciFed + 1, ciFed + n)) /\ ciFed' = ciFed + n
  /\ UNCHANGED ciText
CiFinish ==
  /\ ciRet = "going"
  /\ ciCtx.op = "decrypt" => ciFed = Len(ciSecret)
  /\ \E r \in {CipherFinish(ciCtx)} :
       ciCtx' = r.ctx /\ ciOut' = ciOut \o r.out /\ ciRet' = r.ret
  /\ UNCHANGED <<ciText, ciFed, ciSecret, ciCalls, ciGcm>>
CiTurn ==
  /\ ciCtx.op = "encrypt" /\ ciRet = "ok"
  /\ \E cut \in {0, 1} : cut <= Len(ciOut) /\ ciSecret' = SubSeq(ciOut, 1, Len(ciOut) - cut)
  /\ ciCtx' = CipherReset(CipherSetkey(ciCtx, "decrypt"), StartIv(ciCtx.info))
  /\ ciOut' = << >> /\ ciCalls' = 0 /\ ciRet' = "going"
  /\ UNCHANGED <<ciText, ciFed, ciGcm>>

GcmSeal ==
  /\ ciCtx.info = GcmCtx.info /\ ciCtx.op = "encrypt" /\ ciCalls = 0 /\ ciRet = "going"
  /\ \E i \in CiGcmLengths, a \in CiGcmLengths, n \in CiGcmLengths :
     LET iv == TextBytes(90, i)
         add == TextBytes(40, a)
     IN  ciGcm' = [on |-> TRUE, iv |-> iv, add |-> add, text |-> TextBytes(0, n),
                   sealed |-> GcmCryptAndTag("encrypt", iv, add, TextBytes(0, n)),
                   damaged |-> "nothing", opened |-> [ret |-> "not yet"]]
  /\ ciRet' = "gcm"
  /\ UNCHANGED <<ciCtx, ciText, ciFed, ciSecret, ciOut, ciCalls>>
GcmOpen ==
  /\ ciRet = "gcm" /\ ciGcm.opened.ret = "not yet"
  /\ \E what \in {"nothing", "iv", "add", "text", "tag"} :
     LET other(name, bytes) == IF what = name /\ bytes # << >>
                               THEN [bytes EXCEPT ![1] = (@ + 1) % CiByte] ELSE bytes
         iv == other("iv", ciGcm.iv)
         add == other("add", ciGcm.add)
         tag == other("tag", ciGcm.sealed.tag)
         out == other("text", ciGcm.sealed.out)
     IN  ciGcm' = [ciGcm EXCEPT
            !.damaged = IF <<iv, add, tag, out>> = <<ciGcm.iv, ciGcm.add, ciGcm.sealed.tag,
                                                     ciGcm.sealed.out>>
                        THEN "nothing" ELSE what,
            !.opened = GcmAuthDecrypt(iv, add, tag, out)]
  /\ UNCHANGED <<ciCtx, ciText, ciFed, ciSecret, ciOut, ciCalls, ciRet>>

CiNext == CiEncrypt \/ CiDecrypt \/ CiFinish \/ CiTurn \/ GcmSeal \/ GcmOpen

-----------------------------------------------------------------------------
(* Properties *)

\* The mode's own definition, of the text as a whole: for CTR the counter is a number that
\* the block's place is added to.
NumberOf(block) == FoldLeft(LAMBDA sum, byte : (sum * CiByte) + byte, 0, block)
BlockOf(n, len) == [i \in 1..len |-> (n \div CiByte^(len - i)) % CiByte]
CiStandard(info, text) ==
  LET b == info.block
      iv == StartIv(info)
      pad == IF info.mode = "CBC" THEN b - (Len(text) % b) ELSE 0
      whole == text \o SubSeq([i \in 1..pad |-> pad], 1, pad)
      n == (Len(whole) + b - 1) \div b
      P(i) == SubSeq(whole, (i - 1) * b + 1, IF i < n THEN i * b ELSE Len(whole))
      C[i \in 0..n] ==
        IF i = 0 THEN iv
        ELSE CASE info.mode = "CBC" -> Scrambled(CiXor(P(i), C[i - 1]))
               [] info.mode = "CFB" -> CiXor(P(i), Scrambled(C[i - 1]))
               [] info.mode = "CTR" -> CiXor(P(i), Scrambled(BlockOf(NumberOf(iv) + i - 1, b)))
               [] OTHER             -> P(i)
  IN  FlattenSeq([i \in 1..n |-> C[i]])

\* What cipher_update and cipher_finish give is the standard's ciphertext of all that has
\* been given, whatever pieces it came in, and nothing is lost while it is held back
\* (cipher.c:371-497).
CiAsStandard ==
  ciCtx.op = "encrypt" =>
    \E c \in {CiStandard(ciCtx.info, TextBytes(0, ciText))} :
      /\ IsPrefix(ciOut, c)
      /\ ciRet = "ok" => ciOut = c
      /\ ciRet = "going" /\ ciCtx.info.mode = "CBC" => Len(ciOut) + ciCtx.len = ciText

\* The same context gives the text back, in whatever pieces the ciphertext comes, and never
\* a byte of padding; a ciphertext without its last byte gives no whole text
\* (cipher.c:436-450, 531-578).
CiGivesBack ==
  ciCtx.op = "decrypt" =>
    /\ IsPrefix(ciOut, TextBytes(0, ciText))
    /\ ciRet # "going" =>
         (ciRet = "ok" /\ Len(ciOut) = ciText) <=> ciSecret = CiStandard(ciCtx.info,
                                                                         TextBytes(0, ciText))

\* gcm_auth_decrypt opens what gcm_crypt_and_tag sealed, and nothing that differs from it in
\* iv, additional data, text or tag, of which it then shows nothing (gcm.c:172-322).
CiGcmOpens ==
  ciRet = "gcm" /\ ciGcm.opened.ret # "not yet" =>
    IF ciGcm.damaged = "nothing" THEN ciGcm.opened = [ret |-> "ok", out |-> ciGcm.text]
    ELSE /\ ciGcm.opened.ret = "auth failed"
         /\ \A i \in 1..Len(ciGcm.text) : ciGcm.opened.out[i] = 0
=============================================================================

-------------------------------- MODULE Pem --------------------------------
(***************************************************************************)
(* Base64 and PEM: base64.c, pem.c, and the lines certificate.c writes.       *)
(*                                                                         *)
(* A text is a sequence of pieces: base64 characters by their value, line    *)
(* ends, and the fixed strings and hexadecimal numbers of the format, each    *)
(* one piece.  The block ciphers and MD5 are stand-ins, a sum of the bytes    *)
(* with those of the key, and a key half that takes part in every byte: what  *)
(* matters of them is that the wrong key gives other bytes.                   *)
(***************************************************************************)
EXTENDS Integers, Sequences, SequencesExt, Binding

CONSTANTS
  PmInputs,      \* bytes to be written
  PmLine,        \* base64 characters in a line (64 in certificate.c)
  PmPasswords    \* of writer and reader; NoPassword is NULL

VARIABLES
  pmBytes, pmEnc, pmPwd, pmDamage, \* what is written, how, and what became of it
  pmText,        \* the text, behind which another object stands
  pmRead         \* the result of pem_read_buffer

pmVars == <<pmBytes, pmEnc, pmPwd, pmDamage, pmText, pmRead>>

NoPassword == << >>
Char(v) == <<"char", v>>
Pad == <<"=">>
Newline == <<"\n">>
CarriageReturn == <<"\r">>
BeginMark(name) == <<"-----BEGIN", name>>
EndMark(name) == <<"-----END", name>>
ProcType == <<"Proc-Type: 4,ENCRYPTED">>
DekInfo(alg) == <<"DEK-Info:", alg>>
Hex(bytes) == <<"hex", bytes>>
IsChar(t) == t[1] = "char"

-----------------------------------------------------------------------------
(* Base64 *)

\* base64_encode's n: the characters of slen bytes, the padding included.
EncodedSize(slen) ==
  LET n == (slen * 8) \div 6
      left == slen * 8 - n * 6
  IN  IF left = 2 THEN n + 3 ELSE IF left = 4 THEN n + 2 ELSE n

Base64Encode(src) ==
  LET at(i) == IF i <= Len(src) THEN src[i] ELSE 0
      group(i) == LET c1 == at(i) c2 == at(i + 1) c3 == at(i + 2)
                  IN  <<Char(c1 \div 4), Char((c1 % 4) * 16 + (c2 \div 16)),
                        IF i + 1 <= Len(src) THEN Char((c2 % 16) * 4 + (c3 \div 64)) ELSE Pad,
                        IF i + 2 <= Len(src) THEN Char(c3 % 64) ELSE Pad>>
  IN  FlattenSeq([k \in 1..((Len(src) + 2) \div 3) |-> group(3 * k - 2)])

\* What may stand in base64 text: characters, at most two = behind them, and line ends.
Base64Valid(src) ==
  LET pads == {i \in 1..Len(src) : src[i] = Pad}
  IN  /\ \A i \in 1..Len(src) :
           \/ IsChar(src[i]) /\ \A p \in pads : i < p
           \/ src[i] \in {Pad, Newline}
           \/ src[i] = CarriageReturn /\ i < Len(src) /\ src[i + 1] = Newline
      /\ \A p, q, r \in pads : ~(p < q /\ q < r)

\* The bytes base64_decode asks for.
DecodedSize(src) ==
  (Len(SelectSeq(src, LAMBDA t : IsChar(t) \/ t = Pad)) * 6 + 7) \div 8

\* Characters that do not make up four are dropped.
Base64Decode(src) ==
  LET chars == SelectSeq(src, LAMBDA t : IsChar(t) \/ t = Pad)
      v(i) == IF IsChar(chars[i]) THEN chars[i][2] ELSE 0
      group(k) == LET i == 4 * k - 3
                      j == 3 - Len(SelectSeq(SubSeq(chars, 1, i + 3), LAMBDA t : t = Pad))
                      three == <<v(i) * 4 + (v(i + 1) \div 16),
                                 (v(i + 1) % 16) * 16 + (v(i + 2) \div 4),
                                 (v(i + 2) % 4) * 64 + v(i + 3)>>
                  IN  SubSeq(three, 1, j)
  IN  FlattenSeq([k \in 1..(Len(chars) \div 4) |-> group(k)])

-----------------------------------------------------------------------------
(* Encrypted bodies *)

\* Bytes of the key and of the iv; two for sixteen, one for eight.
KeyLen(alg) == CASE alg = "DES-CBC" -> 1 [] alg = "AES-128-CBC" -> 2
                 [] alg \in {"DES-EDE3-CBC", "AES-192-CBC"} -> 3 [] OTHER -> 4
IvLen(alg) == IF alg \in {"DES-CBC", "DES-EDE3-CBC"} THEN 1 ELSE 2

PemMd5(data) == LET sum[i \in 0..Len(data)] ==
  IF i = 0 THEN 17 ELSE (3 * sum[i - 1] + data[i]) % 256
             IN  <<sum[Len(data)], (sum[Len(data)] + Len(data)) % 256>>

\* Only the first half of a 16 byte iv is salt of the key.
PemPbkdf1(keylen, iv, pwd) ==
  LET first == PemMd5(pwd \o SubSeq(iv, 1, 1))
  IN  IF keylen <= 2 THEN SubSeq(first, 1, keylen)
      ELSE first \o SubSeq(PemMd5(first \o pwd \o SubSeq(iv, 1, 1)), 1, keylen - 2)

\* What takes part in the i-th byte of a body.
KeyStream(alg, iv, pwd, i) ==
  With(PemPbkdf1(KeyLen(alg), iv, pwd), LAMBDA key :
    key[((i - 1) % Len(key)) + 1] + iv[((i - 1) % Len(iv)) + 1])

PemAesDecrypt(alg, iv, buf, pwd) ==
  [i \in 1..Len(buf) |-> (buf[i] - KeyStream(alg, iv, pwd, i)) % 256]

-----------------------------------------------------------------------------
(* pem.c *)

PemResult(ret, buf, use) == [ret |-> ret, buf |-> buf, use |-> use]
PemError(ret) == PemResult(ret, << >>, 0)

\* strstr of one piece, or 0.
FindPiece(text, t) ==
  IF \E i \in 1..Len(text) : text[i] = t
  THEN CHOOSE i \in 1..Len(text) : text[i] = t /\ \A j \in 1..(i - 1) : text[j] # t
  ELSE 0
IsPiece(text, i, t) == i <= Len(text) /\ text[i] = t
\* Behind a line end at i, or behind the carriage return where there is no newline.
BehindReturn(text, i) == IF IsPiece(text, i, CarriageReturn) THEN i + 1 ELSE i

\* The first bytes of an RSA key of more than 255 bytes; of a shorter body the code
\* looks at the bytes behind it, each of which may be any: stray.
LooksLikeKey(buf, stray) ==
  LET at(i) == IF i <= Len(buf) THEN buf[i] ELSE stray
  IN  at(1) = 48 /\ at(2) = 130 /\ at(5) = 2 /\ at(6) = 1

\* The base64 text of a body, decoded and, where the head asked for it, decrypted.
PemBody(body, alg, iv, pwd, use, stray) ==
  With(Base64Decode(body), LAMBDA raw :
  With(PemAesDecrypt(alg, iv, raw, pwd), LAMBDA plain :
    IF ~Base64Valid(body) THEN PemResult("invalid data", << >>, use)
    ELSE IF alg = "plain" THEN PemResult("ok", raw, use)
    ELSE IF pwd = NoPassword THEN PemResult("password required", << >>, use)
    ELSE IF ~LooksLikeKey(plain, stray) THEN PemResult("password mismatch", << >>, use)
    ELSE PemResult("ok", SubSeq(plain, 1, Len(plain)), use)))

\* The first object with this name; use is how much of the text it takes.
PemReadBuffer(text, name, pwd, stray) ==
  LET s1 == FindPiece(text, BeginMark(name))
      s2 == FindPiece(text, EndMark(name))
      eol == BehindReturn(text, s1 + 1)
      end == BehindReturn(text, s2 + 1)
      use == IF IsPiece(text, end, Newline) THEN end ELSE end - 1
      head == eol + 1
      procEol == BehindReturn(text, head + 1)
      dek == procEol + 1
      known == dek + 1 <= Len(text) /\ text[dek][1] = "DEK-Info:"
      dekEol == BehindReturn(text, dek + 2)
  IN  IF s1 = 0 \/ s2 <= s1 \/ ~IsPiece(text, eol, Newline) THEN PemError("no header")
      ELSE IF ~IsPiece(text, head, ProcType)
           THEN PemBody(SubSeq(text, head, s2 - 1), "plain", << >>, pwd, use, stray)
      ELSE IF ~IsPiece(text, procEol, Newline) THEN PemResult("invalid data", << >>, use)
      ELSE IF ~known THEN PemResult("unknown enc alg", << >>, use)
      ELSE IF text[dek + 1][1] # "hex" THEN PemResult("invalid iv", << >>, use)
      ELSE IF ~IsPiece(text, dekEol, Newline) THEN PemResult("invalid data", << >>, use)
      ELSE PemBody(SubSeq(text, dekEol + 1, s2 - 1), text[dek][2], text[dek + 1][2], pwd, use,
                   stray)

-----------------------------------------------------------------------------
(* Writing *)

\* generateCertificateRequest's loop: the characters in lines.
Lines(chars, eol) ==
  FlattenSeq([k \in 1..((Len(chars) + PmLine - 1) \div PmLine) |->
                SubSeq(chars, PmLine * (k - 1) + 1,
                       IF PmLine * k < Len(chars) THEN PmLine * k ELSE Len(chars)) \o eol])

PemText(name, bytes, eol) ==
  <<BeginMark(name)>> \o eol \o Lines(Base64Encode(bytes), eol) \o <<EndMark(name)>>

\* As other programs write them.
EncryptedText(name, bytes, alg, iv, pwd, eol) ==
  LET raw == [i \in 1..Len(bytes) |-> (bytes[i] + KeyStream(alg, iv, pwd, i)) % 256]
  IN  <<BeginMark(name)>> \o eol \o <<ProcType>> \o eol \o <<DekInfo(alg), Hex(iv)>> \o eol
      \o Lines(Base64Encode(SubSeq(raw, 1, Len(raw))), eol) \o <<EndMark(name)>>

Ciphers == {"DES-CBC", "DES-EDE3-CBC", "AES-128-CBC", "AES-192-CBC", "AES-256-CBC"}
TextIv(alg) == SubSeq(<<9, 4>>, 1, IvLen(alg))

PmInit ==
  /\ pmBytes \in PmInputs
  /\ pmEnc \in Ciphers \cup {"plain"}
  /\ pmPwd \in PmPasswords
  /\ pmEnc = "plain" => pmPwd = NoPassword
  /\ pmEnc # "plain" => pmPwd # NoPassword /\ LooksLikeKey(pmBytes, 0)
  /\ pmDamage = "none"
  /\ pmText = << >>
  /\ pmRead = PemError("none")

WriteText ==
  /\ pmText = << >>
  /\ \E eol \in {<<Newline>>, <<CarriageReturn, Newline>>} :
       pmText' = (IF pmEnc = "plain" THEN PemText("one", pmBytes, eol)
                  ELSE EncryptedText("one", pmBytes, pmEnc, TextIv(pmEnc), pmPwd, eol))
                 \o eol \o PemText("two", <<1, 2>>, eol)
  /\ UNCHANGED <<pmBytes, pmEnc, pmPwd, pmDamage, pmRead>>

\* One piece of the text is lost, or is none the format knows.
DamageText ==
  /\ pmText # << >> /\ pmDamage = "none" /\ pmRead.ret = "none"
  /\ \E i \in 1..FindPiece(pmText, EndMark("one")) :
       \/ pmText[i] \in {BeginMark("one"), EndMark("one"), Newline} /\ pmText' = RemoveAt(pmText, i)
          /\ pmDamage' = IF pmText[i] = Newline /\ i # FindPiece(pmText, Newline)
                         THEN "line end" ELSE "lost"
       \/ pmText' = [pmText EXCEPT ![i] = <<"?">>] /\ pmDamage' = "replaced"
  /\ UNCHANGED <<pmBytes, pmEnc, pmPwd, pmRead>>

ReadText ==
  /\ pmText # << >> /\ pmRead.ret = "none"
  /\ \E pwd \in IF pmEnc = "plain" THEN {NoPassword} ELSE PmPasswords, stray \in {0, 1} :
       pmRead' = PemReadBuffer(pmText, "one", pwd, stray) @@ [pwd |-> pwd]
  /\ UNCHANGED <<pmBytes, pmEnc, pmPwd, pmDamage, pmText>>

PmNext == WriteText \/ DamageText \/ ReadText

-----------------------------------------------------------------------------
(* Properties *)

\* What is written in lines is read back byte by byte, up to the next object, with any
\* line end, and an encrypted body by whoever has the password and nobody else; a text
\* that lost a part of its frame or has a foreign character gives nothing.  Either way
\* base64 fills what it announced, the NUL aside, and no more.
PmReadsWhatWasWritten ==
  pmRead.ret # "none" =>
    LET reads == pmEnc = "plain" \/ pmRead.pwd = pmPwd
    IN  /\ pmRead.ret = "ok" =>
             /\ reads /\ pmRead.buf = pmBytes
             /\ pmText[pmRead.use + 1] = BeginMark("two")
        /\ pmDamage = "none" /\ reads => pmRead.ret = "ok"
        /\ pmDamage \in {"lost", "replaced"} => pmRead.ret # "ok"
        /\ Len(Base64Encode(pmBytes)) = EncodedSize(Len(pmBytes))
        /\ pmRead.ret = "ok" => Len(pmRead.buf) <= DecodedSize(SelectSeq(pmText, IsChar))

=============================================================================

------------------------------ MODULE X509Keys ------------------------------
(***************************************************************************)
(* Keys and requests as files: the key readers of x509parse.c, x509write.c,   *)
(* and what certificate.c makes of a configuration with it.                  *)
(*                                                                         *)
(* A key is written, by x509write.c or as other programs do, damaged in a     *)
(* byte, and read with some password.  Numbers have at most two bytes; a      *)
(* longer one in a damaged file counts as a number that does not fit.        *)
(***************************************************************************)
EXTENDS X509Parse, Pem, Pbe

CONSTANTS
  XkKeys,        \* key pairs
  XkForms,       \* forms of a file: what it is, how it is protected, and whether it is PEM
  XkPasswords,
  XkSizes,       \* sizes of the buffers written into
  XkTmp,         \* x509_write_cert_req's own buffer (2048 in the code)
  XkRequests,    \* configurations: sequences of members, key and text
  XkValues       \* what a damaged byte may become

VARIABLES
  xkKey, xkForm, xkPwd,  \* what is written and how
  xkRequest,     \* the configuration, where a request is written
  xkFile,        \* the file: PEM pieces or DER bytes
  xkDamaged,
  xkOut          \* what reading it gave

xkVars == <<xkKey, xkForm, xkPwd, xkRequest, xkFile, xkDamaged, xkOut>>

NoFile == [text |-> << >>, der |-> << >>]
KeyResult(ret, key) == [ret |-> ret, key |-> key]
KeyError(ret) == KeyResult(ret, NoKey)
KeyFormat == <<"key format">>

-----------------------------------------------------------------------------
(* Reading keys *)

MpiFields(s) == LET f == SelectSeq(s.got, LAMBDA g : g[1] = "mpi")
                IN  SubSeq([i \in 1..Len(f) |-> f[i][4]], 1, Len(f))
Mpis(s, n, end) == LET read[i \in 0..n] == IF i = 0 THEN s ELSE GetMpi(read[i - 1], end) IN read[n]
Fits(mpi) == Len(mpi) <= 2
LastTwo(mpi) == Number(SubSeq(<<0, 0>> \o mpi, Len(mpi) + 1, Len(mpi) + 2))

KeyNames == <<"N", "E", "D", "P", "Q", "DP", "DQ", "QP">>
KeyOf(mpis) ==
  [f \in DOMAIN NoKey |-> Number(mpis[CHOOSE i \in 1..8 : KeyNames[i] = f])]

\* Defect: the numbers are taken as they are.
KeyPkcs1DerUnchecked(bytes, stray) ==
  LET n == Len(bytes) + 1
      seq == GetTag(Cursor(bytes \o <<stray>>), n, 48)
      end == seq.p + seq.len
      all == Mpis(GetInt(seq, end), 8, end)
      mpis == MpiFields(all)
  IN  IF all.ret # Ok THEN KeyError(KeyFormat \o all.ret)
      ELSE IF \A i \in 1..8 : Fits(mpis[i]) THEN KeyResult(Ok, KeyOf(mpis))
      ELSE KeyError(<<"key check failed">>)

KeyPkcs1Der(bytes, stray) ==
  LET n == Len(bytes) + 1 IN
  With(GetTag(Cursor(bytes \o <<stray>>), n, 48), LAMBDA seq :
  LET end == seq.p + seq.len IN
  With(GetInt(seq, end), LAMBDA ver :
  With(Mpis(ver, 8, end), LAMBDA all :
  LET whole == Expect(all, all.p = end, LengthMismatch)
      mpis == MpiFields(whole) IN
    IF ver.ret = Ok /\ ver.val # 0 THEN KeyError(<<"key version">>)
    ELSE IF whole.ret # Ok THEN KeyError(KeyFormat \o whole.ret)
    ELSE IF (\A i \in 1..8 : Fits(mpis[i])) /\ CheckPrivkey(KeyOf(mpis))
         THEN KeyResult(Ok, KeyOf(mpis)) ELSE KeyError(<<"key check failed">>))))

\* What follows the OCTET STRING is not looked at.
KeyPkcs8Der(bytes, stray) ==
  LET n == Len(bytes) + 1 IN
  With(GetTag(Cursor(bytes \o <<stray>>), n, 48), LAMBDA seq :
  LET end == seq.p + seq.len
      ver == GetInt(seq, end) IN
  With(GetAlg(ver, end, "pk_alg"), LAMBDA alg :
  With(Next1(alg,
             LAMBDA u : Expect(u, FieldBytes(u, At(u, "pk_alg")) = Pkcs1(1),
                               <<"unknown pk alg">>)), LAMBDA rsa :
  With(GetTag(rsa, end, 4), LAMBDA octets :
  LET some == Expect(octets, end - octets.p >= 1, OutOfData) IN
    IF ver.ret = Ok /\ ver.val # 0 THEN KeyError(<<"key version">>)
    ELSE IF alg.ret = Ok /\ rsa.ret # Ok THEN KeyError(rsa.ret)
    ELSE IF some.ret # Ok THEN KeyError(KeyFormat \o some.ret)
    ELSE KeyPkcs1Der(Contents(some), stray)))))

\* The parameters are what lies between the identifier and the end of the algorithm; the
\* buffer decrypted into is zero behind the data.
KeyPkcs8EncryptedDer(bytes, pwd, stray) ==
  LET n == Len(bytes) + 1 IN
  With(GetTag(Cursor(bytes \o <<stray>>), n, 48), LAMBDA seq :
  LET end == seq.p + seq.len IN
  With(GetTag(seq, end, 48), LAMBDA alg :
  With(GetTag(alg, end, 6), LAMBDA oid :
  LET from == oid.p + oid.len
      len == alg.p + alg.len - from
      data == GetTag([oid EXCEPT !.p = alg.p + alg.len], end, 4)
      id == Contents(oid)
      params == Span(oid, from, len) IN
  With(IF id = OidPbes2 THEN Pbes2(params, pwd, Contents(data), stray)
       ELSE Pkcs12Pbe(id, params, pwd, Contents(data), stray), LAMBDA plain :
    IF pwd = NoPassword THEN KeyError(<<"password required">>)
    ELSE IF data.ret # Ok THEN KeyError(KeyFormat \o data.ret)
    ELSE IF id \notin {OidPbes2, OidPkcs12Rc4, OidPkcs12Des3, OidPkcs12Des2}
         THEN KeyError(<<"feature unavailable">>)
    ELSE IF plain.ret # Ok THEN KeyError(plain.ret)
    ELSE IF id = OidPkcs12Rc4 /\ (plain.out = << >> \/ plain.out[1] # 48)
         THEN KeyError(<<"password mismatch">>)
    ELSE KeyPkcs8Der(plain.out, 0)))))

\* Three kinds of PEM by name, then three kinds of DER by trial; a failure leaves the
\* context empty.
X509ParseKey(file, pwd, stray) ==
  With(PemReadBuffer(file.text, "RSA PRIVATE KEY", pwd, stray), LAMBDA rsa :
  With(PemReadBuffer(file.text, "PRIVATE KEY", NoPassword, stray), LAMBDA plain :
  LET enc == PemReadBuffer(file.text, "ENCRYPTED PRIVATE KEY", NoPassword, stray) IN
  With(SelectSeq(<<rsa, plain, enc>>, LAMBDA r : r.ret # "no header"), LAMBDA pem :
  With(KeyPkcs8EncryptedDer(file.der, pwd, stray), LAMBDA first :
  With(<<first, KeyPkcs8Der(file.der, stray), KeyPkcs1Der(file.der, stray)>>, LAMBDA tries :
  LET good == SelectSeq(tries, LAMBDA r : r.ret = Ok) IN
    IF pem # << >> THEN
         IF pem[1].ret # "ok" THEN KeyError(<<pem[1].ret>>)
         ELSE IF rsa.ret = "ok" THEN KeyPkcs1Der(rsa.buf, stray)
         ELSE IF plain.ret = "ok" THEN KeyPkcs8Der(plain.buf, stray)
         ELSE KeyPkcs8EncryptedDer(enc.buf, pwd, stray)
    ELSE IF first.ret = <<"password mismatch">> THEN first
    ELSE IF good = << >> THEN KeyError(KeyFormat) ELSE good[1])))))

\* The bytes of a PEM object with this name, or the file's own, given to Parse.
FromFile(file, name, Parse(_)) ==
  With(PemReadBuffer(file.text, name, NoPassword, 0), LAMBDA pem :
    IF pem.ret \notin {"ok", "no header"} THEN KeyError(<<pem.ret>>)
    ELSE Parse(IF pem.ret = "ok" THEN pem.buf ELSE file.der))

X509ParsePublicKey(file, stray) ==
  LET parse(bytes) ==
        LET n == Len(bytes) + 1
            seq == Under("format", Cursor(<< >>), GetTag(Cursor(bytes \o <<stray>>), n, 48)) IN
        With(GetPubkey(seq, n), LAMBDA pub :
        LET mpis == MpiFields(pub) IN
          IF seq.ret # Ok THEN KeyError(seq.ret)
          ELSE IF pub.ret # Ok THEN KeyError(KeyFormat \o pub.ret)
          ELSE IF ~PubkeyOk(pub) THEN KeyError(<<"key check failed">>)
          ELSE KeyResult(Ok, [NoKey EXCEPT !.N = Number(mpis[1]), !.E = Number(mpis[2])]))
  IN  FromFile(file, "PUBLIC KEY", parse)

\* P and G (in the place of E); of a longer number only the last two bytes are kept.
X509ParseDhm(file, stray) ==
  LET parse(bytes) ==
        LET seq == GetTag(Cursor(bytes \o <<stray>>), Len(bytes) + 1, 48)
            end == seq.p + seq.len IN
        With(Mpis(seq, 2, end), LAMBDA two :
        With(Expect(two, two.p = end, LengthMismatch), LAMBDA whole :
        LET mpis == MpiFields(whole) IN
          IF whole.ret # Ok THEN KeyError(KeyFormat \o whole.ret)
          ELSE KeyResult(Ok, [NoKey EXCEPT !.P = LastTwo(mpis[1]),
                                           !.E = LastTwo(mpis[2])])))
  IN  FromFile(file, "DH PARAMETERS", parse)

-----------------------------------------------------------------------------
(* x509write.c; a writer starts one byte in front of the end of its buffer *)

MpiBytes(v) == Stripped(<<v \div 256, v % 256>>)

WritePublicKey(w, key) ==
  With(Close(w, WriteMpi(WriteMpi(w, MpiBytes(key.E)), MpiBytes(key.N)), 48), LAMBDA seq :
  LET bits == Close(w, Put(seq, <<0>>), 3) IN
    Close(w, WriteAlgorithmIdentifier(bits, Pkcs1(1)), 48))

X509WritePubkeyDer(size, key) == WritePublicKey(Writer(size - 1), key)

X509WriteKeyDer(size, key) ==
  LET w == Writer(size - 1)
      mpi[i \in 0..8] == IF i = 0 THEN w ELSE WriteMpi(mpi[i - 1], MpiBytes(key[KeyNames[9 - i]]))
  IN  Close(w, WriteInt(mpi[8], 0), 48)

OidEmail == <<9, 1>>
X509WriteName(w, oid, text) ==
  LET string == IF oid = OidEmail THEN WriteIa5String(w, text) ELSE WritePrintableString(w, text)
  IN  Close(w, Close(w, WriteOid(string, oid), 48), 49)

\* x509_hash of the algorithms SIG_RSA_*, and 0xFF for any other.
X509Hash(bytes, alg) ==
  IF alg \in (2..5) \cup (11..14) THEN PbeMd(bytes \o <<alg>>) ELSE <<255, 255>>

\* rsa_pkcs1_sign (module RsaPadding), as a number made of key and digest.
Signature(key, alg, hash) == MpiBytes(1 + ((hash[1] * 256 + hash[2] + key.D + alg) % (key.N - 1)))
Signed(key, alg, hash) == LET s == Signature(key, alg, hash)
                          IN  [i \in 1..(Len(MpiBytes(key.N)) - Len(s)) |-> 0] \o s

X509WriteSig(w, oid, sig) ==
  LET bits == IF w.room < Len(sig) + 1 THEN [w EXCEPT !.ret = BufTooSmall] ELSE Put(w, <<0>> \o sig)
  IN  WriteAlgorithmIdentifier(Close(w, bits, 3), oid)

\* Between the signature and the head the request is copied without a look at the room.
CopyIn(w, bytes) ==
  IF w.ret # Ok THEN w ELSE [w EXCEPT !.bytes = bytes \o @, !.room = @ - Len(bytes)]

X509WriteCertReq(size, key, names, alg) ==
  LET w == Writer(XkTmp - 1)
      attrs == WriteTag(WriteLen(w, 0), 160) IN
  With(WritePublicKey(attrs, key), LAMBDA pub :
  LET name[i \in 0..Len(names)] ==
        IF i = 0 THEN pub ELSE X509WriteName(name[i - 1], names[i][1], names[i][2]) IN
  With(Close(pub, name[Len(names)], 48), LAMBDA subject :
  With(Close(w, WriteInt(subject, 0), 48), LAMBDA info :
  LET sig == X509WriteSig(Writer(size - 1), Pkcs1(alg),
                          Signed(key, alg, X509Hash(info.bytes, alg))) IN
    IF info.ret # Ok THEN info ELSE Close(Writer(size - 1), CopyIn(sig, info.bytes), 48))))

\* certificate.c: the members of the configuration that are part of a name, in their order.
NameOids == [commonName |-> <<3>>, orgunit |-> <<11>>, state |-> <<8>>, country |-> <<6>>,
             orgname |-> <<10>>, city |-> <<7>>, email |-> OidEmail]

\* A member without text is left out, and so is one with another key.
RequestNames(json) ==
  LET part == SelectSeq(json, LAMBDA m : m.key \in DOMAIN NameOids /\ m.str # << >>)
  IN  SubSeq([i \in 1..Len(part) |-> <<NameOids[part[i].key], part[i].str>>], 1, Len(part))

SigRsaSha1 == 5
GenerateCertificateRequest(size, json, key) ==
  With(X509WriteCertReq(size, key, RequestNames(json), SigRsaSha1), LAMBDA req :
    [req |-> req, text |-> PemText("CERTIFICATE REQUEST", req.bytes, <<Newline>>)])

-----------------------------------------------------------------------------
(* As other programs write keys: the standards, on the same stand-ins *)

Tlv(tag, content) ==
  <<tag>> \o (IF Len(content) < 128 THEN <<Len(content)>> ELSE <<129, Len(content)>>) \o content
\* A key that is longer than 255 bytes, as every real one is, has its length in two bytes.
LongKey(bytes) == <<48, 130, 0>> \o SubSeq(bytes, 2, Len(bytes))

Pkcs8(bytes) ==
  Tlv(48, Tlv(2, <<0>>) \o Tlv(48, Tlv(6, Pkcs1(1)) \o Tlv(5, << >>)) \o Tlv(4, bytes))

\* RFC 8018: T(k) is the sum of U(1) ... U(count).
PbkdfBlock(pwd, salt, count, k) ==
  LET u[i \in 1..count] == IF i = 1 THEN PbeHmac(pwd, salt \o <<0, 0, 0, k>>)
                           ELSE PbeHmac(pwd, u[i - 1])
  IN  FoldLeft(XorBytes, u[1], SubSeq(u, 2, count))

\* RFC 7292: the blocks are numbers of BlockLen bytes.
Pkcs12Bytes(pwd, salt, id, count, len) ==
  LET block(x) == [i \in 1..BlockLen |-> x[((i - 1) % Len(x)) + 1]]
      bytes(v) == <<v \div 65536, (v \div 256) % 256, v % 256>>
      digest(s, p) == LET h[i \in 1..count] ==
                            IF i = 1 THEN PbeMd(<<id, id, id>> \o bytes(s)
                                                \o bytes(p)) ELSE PbeMd(h[i - 1])
                      IN  h[count]
      s0 == Number(block(salt))
      p0 == Number(block(Unicode(pwd)))
      a1 == digest(s0, p0)
      b1 == Number(block(a1)) + 1
      a2 == digest((s0 + b1) % 2^24, (p0 + b1) % 2^24)
  IN  SubSeq(a1 \o a2, 1, len)

Encrypted(key, iv, bytes, padded) ==
  LET pad == CbcBlock - (Len(bytes) % CbcBlock)
      all == IF padded THEN bytes \o [i \in 1..pad |-> pad] ELSE bytes
      cipher(i) == (all[i] + key[((i - 1) % Len(key)) + 1] + iv[((i - 1) % Len(iv)) + 1]) % 256
  IN  SubSeq([i \in 1..Len(all) |-> cipher(i)], 1, Len(all))

PbeSalt == <<200, 7>>
PbeCount == 2
PbeIv == <<3, 90>>
EncryptedKey(enc, pwd, bytes) ==
  LET two == Tlv(48, Tlv(4, PbeSalt) \o Tlv(2, <<PbeCount>>))
      kdf == PbkdfBlock(pwd, PbeSalt, PbeCount, 1) \o PbkdfBlock(pwd, PbeSalt, PbeCount, 2)
      des(oid) == Tlv(48,
                      Tlv(48, Tlv(6, OidPbkdf2) \o two) \o Tlv(48, Tlv(6, oid) \o Tlv(4, PbeIv)))
      key(n) == Pkcs12Bytes(pwd, PbeSalt, DeriveKey, PbeCount, n)
      iv == Pkcs12Bytes(pwd, PbeSalt, DeriveIv, PbeCount, CbcBlock) IN
  With(CASE enc = "pbes2 des" -> <<OidPbes2, des(OidDesCbc),
                                   Encrypted(SubSeq(kdf, 1, 1), PbeIv, bytes, TRUE)>>
         [] enc = "pbes2 des3" -> <<OidPbes2, des(OidDes3Cbc),
                                    Encrypted(SubSeq(kdf, 1, 3), PbeIv, bytes, TRUE)>>
         [] enc = "pkcs12 des3" -> <<OidPkcs12Des3, two, Encrypted(key(3), iv, bytes, TRUE)>>
         [] enc = "pkcs12 des2" -> <<OidPkcs12Des2, two, Encrypted(key(2), iv, bytes, TRUE)>>
         [] OTHER -> <<OidPkcs12Rc4, two, Encrypted(key(2), <<0>>, bytes, FALSE)>>, LAMBDA how :
    Tlv(48, Tlv(48, Tlv(6, how[1]) \o how[2]) \o Tlv(4, how[3])))

-----------------------------------------------------------------------------
(* Write, damage, read *)

AsFile(name, bytes, pem) ==
  IF pem THEN [text |-> PemText(name, bytes, <<Newline>>), der |-> << >>]
  ELSE [text |-> << >>, der |-> bytes]

Whole(form, key, pwd) ==
  LET bytes == X509WriteKeyDer(200, key).bytes
  IN  CASE form.enc = "pkcs8" -> AsFile("PRIVATE KEY", Pkcs8(bytes), form.pem)
        [] form.enc = "pem" ->
             [text |-> EncryptedText("RSA PRIVATE KEY", LongKey(bytes), "AES-128-CBC", <<9, 4>>,
                                     pwd, <<Newline>>),
              der |-> << >>]
        [] form.what = "dh" -> AsFile("DH PARAMETERS",
                                      Tlv(48, Tlv(2, MpiBytes(key.P))
                                          \o Tlv(2, MpiBytes(key.E))), form.pem)
        [] OTHER -> AsFile("ENCRYPTED PRIVATE KEY", EncryptedKey(form.enc, pwd, Pkcs8(bytes)),
                           form.pem)

Protected(form) == form.enc \notin {"none", "pkcs8"}
NotRead == KeyError(<<"not read">>)

XkInit ==
  /\ xkKey \in XkKeys /\ xkForm \in XkForms /\ xkPwd \in XkPasswords
  /\ Protected(xkForm) <=> xkPwd # NoPassword
  /\ xkRequest \in IF xkForm.what = "request" THEN XkRequests ELSE {<< >>}
  /\ xkFile = NoFile /\ xkDamaged = FALSE /\ xkOut = NotRead

\* The writers of the code, in buffers of every size; the others have what they need.
XkWrite ==
  /\ xkFile = NoFile /\ xkOut = NotRead
  /\ IF xkForm.enc # "none" \/ xkForm.what = "dh"
     THEN xkFile' = Whole(xkForm, xkKey, xkPwd) /\ UNCHANGED xkOut
     ELSE \E size \in XkSizes :
            LET req == GenerateCertificateRequest(size, xkRequest, xkKey)
                w == CASE xkForm.what = "key" -> X509WriteKeyDer(size, xkKey)
                       [] xkForm.what = "public" -> X509WritePubkeyDer(size, xkKey)
                       [] OTHER -> req.req
                name == IF xkForm.what = "key" THEN "RSA PRIVATE KEY" ELSE "PUBLIC KEY"
            IN  IF w.ret # Ok THEN xkOut' = KeyError(w.ret) /\ UNCHANGED xkFile
                ELSE /\ xkFile' = IF xkForm.what = "request" THEN [text |-> req.text, der |-> << >>]
                                  ELSE AsFile(name, w.bytes, xkForm.pem)
                     /\ UNCHANGED xkOut
  /\ UNCHANGED <<xkKey, xkForm, xkPwd, xkRequest, xkDamaged>>

XkDamage ==
  /\ xkFile.der # << >> /\ ~xkDamaged /\ xkOut = NotRead
  /\ \E i \in 1..Len(xkFile.der), v \in XkValues :
       xkFile.der[i] # v /\ xkFile' = [xkFile EXCEPT !.der[i] = v]
  /\ xkDamaged' = TRUE
  /\ UNCHANGED <<xkKey, xkForm, xkPwd, xkRequest, xkOut>>

XkRead ==
  /\ xkFile # NoFile /\ xkOut = NotRead /\ xkForm.what # "request"
  /\ \E pwd \in XkPasswords, stray \in {0, 255} :
       /\ ~Protected(xkForm) => pwd = NoPassword
       /\ xkOut' = CASE xkForm.what = "key" -> X509ParseKey(xkFile, pwd, stray) @@ [pwd |-> pwd]
                     [] xkForm.what = "public" -> X509ParsePublicKey(xkFile, stray) @@ [pwd |-> pwd]
                     [] OTHER -> X509ParseDhm(xkFile, stray) @@ [pwd |-> pwd]
  /\ UNCHANGED <<xkKey, xkForm, xkPwd, xkRequest, xkFile, xkDamaged>>

XkNext == XkWrite \/ XkDamage \/ XkRead

-----------------------------------------------------------------------------
(* Properties *)

XkIsRead == xkFile # NoFile /\ xkOut # NotRead
Wanted(key) == CASE xkForm.what = "key" -> key
                 [] xkForm.what = "public" -> [NoKey EXCEPT !.N = key.N, !.E = key.E]
                 [] OTHER -> [NoKey EXCEPT !.P = key.P, !.E = key.E]

\* A key file nobody damaged gives the key it was written from to whoever has the
\* password, and no key at all to anybody else; without a password a PEM file asks for it.
XkOpens ==
  XkIsRead /\ ~xkDamaged =>
    IF Protected(xkForm) /\ xkOut.pwd # xkPwd
    THEN /\ xkOut.ret # Ok /\ xkOut.key = NoKey
         /\ xkForm.pem /\ xkOut.pwd = NoPassword => xkOut.ret = <<"password required">>
    ELSE xkOut.ret = Ok /\ xkOut.key = Wanted(xkKey)

\* Whatever one byte of a key file says: a private key that is accepted is one both of
\* whose operations work.
XkOnlyGoodKeys ==
  XkIsRead /\ xkForm.what = "key" /\ xkOut.ret = Ok => CheckPrivkey(xkOut.key)

\* What the enrolment authority reads in a request that fitted its buffer: the members of
\* the configuration, the last one first, the key, and a signature of exactly these bytes.
XkRequestSays ==
  xkForm.what = "request" /\ xkFile # NoFile =>
    With(PemReadBuffer(xkFile.text, "CERTIFICATE REQUEST", NoPassword, 0).buf, LAMBDA bytes :
    LET n == Len(bytes) + 1
        all == GetTag(Cursor(bytes \o <<0>>), n, 48) IN
    With(GetTag(all, n, 48), LAMBDA info :
    LET end == info.p + info.len IN
    With(NameIn(GetInt(info, end), end, TRUE), LAMBDA subject :
    With(GetTag(subject, end, 48), LAMBDA spki :
    With(GetPubkey(spki, spki.p + spki.len), LAMBDA pub :
    LET attrs == GetTag(pub, end, 160) IN
    With(GetSig(GetAlg(attrs, n, "sig_oid"), n), LAMBDA sig :
    LET names == SelectSeq(sig.got, LAMBDA f : f[1] = "attr")
        signed == SubSeq(bytes, all.p, end - 1) IN
      /\ sig.ret = Ok /\ attrs.p = end /\ sig.p = n
      /\ Reverse([i \in 1..Len(names) |-> <<names[i][4], FieldBytes(sig, names[i])>>])
           = LET kept == SelectSeq(xkRequest, LAMBDA m : m.key \in DOMAIN NameOids /\ m.str # << >>)
             IN  [i \in 1..Len(kept) |-> <<NameOids[kept[i].key], kept[i].str>>]
      /\ \A i \in 1..2 : Number(MpiFields(sig)[i]) = xkKey[KeyNames[i]]
      /\ FieldBytes(sig, At(sig, "sig")) = Signed(xkKey, SigRsaSha1,
                                                  X509Hash(signed, SigRsaSha1))))))))

=============================================================================

------------------------------ MODULE X509Parse ------------------------------
(***************************************************************************)
(* x509parse.c: certificates and revocation lists, field by field, from DER   *)
(* (module Der).  The lists they go into are module X509Lists', keys module   *)
(* X509Keys'.                                                               *)
(*                                                                         *)
(* What is left out is length only: an object identifier has one or two       *)
(* bytes, PKCS#1's prefix being one, and two digits of a time are one byte    *)
(* below 100.  The memory behind a buffer is one stray byte.                 *)
(***************************************************************************)
EXTENDS Der, Rsa

CONSTANTS
  XpDocs,        \* documents: kind, bytes, and the fields a reader should find, or Refused
  XpValues       \* what a damaged byte may become

VARIABLES
  xpDoc,         \* the document of this run
  xpBytes,       \* its bytes, whole, damaged or cut short
  xpDamaged,
  xpOut          \* what the parser made of it

xpVars == <<xpDoc, xpBytes, xpDamaged, xpOut>>

Refused == <<"refused">>
NotParsed == Failed(Cursor(<< >>), <<"not parsed">>)

\* Object identifiers: the PKCS#1 ones end with the algorithm.
Pkcs1(n) == <<9, n>>
OidRsaShaObs == <<8>>
OidBasicConstraints == <<19>>
OidKeyUsage == <<15>>
OidExtKeyUsage == <<37>>
OidSubjectAltName == <<17>>
OidNsCertType == <<1>>
StringTags == {12, 19, 20, 22, 28, 30}

At(s, name) == LET i == CHOOSE i \in DOMAIN s.got : s.got[i][1] = name IN s.got[i]
FieldBytes(s, field) == Span(s, field[2], field[3])
Has(s, name) == \E i \in DOMAIN s.got : s.got[i][1] = name
\* The field whose head was just read, passed over.
Field(s, name) == Got(Skip(s), name, s.p, s.len, << >>)
Value(s, name, v) == Got(s, name, s.p, 0, v)
\* Go on only where nothing has failed yet.
Next1(s, Step(_)) == IF s.ret = Ok THEN Step(s) ELSE s

-----------------------------------------------------------------------------
(* Parts of a certificate *)

GetVersion(s, end) ==
  LET t == GetTag(s, end, 160)
      e == t.p + t.len
      v == GetInt(t, e)
  IN  IF s.ret # Ok THEN s
      ELSE IF t.ret = UnexpectedTag THEN Value(s, "version", <<1>>)
      ELSE Value(Under("version", t, Expect(v, v.p = e, LengthMismatch)), "version", <<v.val + 1>>)

CrlGetVersion(s, end) ==
  LET v == GetInt(s, end)
  IN  IF s.ret # Ok THEN s
      ELSE IF v.ret = UnexpectedTag THEN Value(s, "version", <<1>>)
      ELSE Value(Under("version", s, v), "version", <<v.val + 1>>)

GetSerial(s, end) ==
  LET some == Expect(s, end - s.p >= 1, OutOfData)
      tag == IF some.ret # Ok THEN some ELSE Expect(some, Byte(s, s.p) \in {130, 2}, UnexpectedTag)
  IN  Under("serial", s, Field(GetLen([tag EXCEPT !.p = @ + 1], end), "serial"))

GetAlg(s, end, name) ==
  With(GetTag(s, end, 48), LAMBDA t :
  LET e == t.p + t.len IN
  With(Field(GetTag(t, e, 6), name), LAMBDA oid :
  LET null == GetTag(oid, e, 5) IN
    Under("alg", s, IF oid.p = e THEN oid ELSE Expect(null, null.p = e, LengthMismatch))))

\* The name's field is the value; what was made of it is the type.
GetAttrTypeValue(s, end) ==
  With(GetTag(GetTag(s, end, 48), end, 6), LAMBDA oid :
  LET val == Expect(Skip(oid), end - (oid.p + oid.len) >= 1, OutOfData)
      tag == IF val.ret # Ok THEN val
             ELSE Expect(val, Byte(val, val.p) \in StringTags, UnexpectedTag) IN
  With(GetLen([tag EXCEPT !.p = @ + 1], end), LAMBDA len :
    Under("name", s, Got(Skip(len), "attr", len.p, len.len, Contents(oid)))))

\* One set of attributes.  Where another set follows, the pointer to the second attribute
\* of this one is overwritten: only the first is kept.
GetRdn(s, end) ==
  With(Under("name", s, GetTag(s, end, 49)), LAMBDA t :
  LET e == t.p + t.len IN
  With(Until(e, LAMBDA u : GetAttrTypeValue(u, e), GetAttrTypeValue(t, e)), LAMBDA all :
    IF all.ret = Ok /\ all.p # end
    THEN [all EXCEPT !.got = SubSeq(@, 1, Len(s.got) + 1)] ELSE all))

GetName(s, end) == Until(end, LAMBDA u : GetRdn(u, end), GetRdn(s, end))

Year(two) == 1900 + two + (IF two < 50 THEN 100 ELSE 0)

\* sscanf stops at what is no digit; the seconds may be missing, and are 0 then.  A
\* failure leaves p where it came up: in front of a tag that is no time's, and behind
\* the tag, or the tag and the length, of a time whose length is wrong.
GetTime(s, end, name) ==
  LET some == Expect(s, end - s.p >= 1, OutOfData)
      tag == IF some.ret # Ok THEN 0 ELSE Byte(s, s.p)
      known == Expect(some, tag \in {23, 24}, UnexpectedTag) IN
  With(IF known.ret # Ok THEN known ELSE GetLen([known EXCEPT !.p = @ + 1], end), LAMBDA t :
  LET first == IF tag = 23 THEN 1 ELSE 2 IN
  With(Contents(t), LAMBDA read :
  LET n == CHOOSE k \in 0..Len(read) : /\ \A i \in 1..k : read[i] < 100
                                       /\ k < Len(read) => read[k + 1] >= 100
      year == IF tag = 23 THEN Year(read[1]) ELSE read[1] * 100 + read[2]
      rest == SubSeq(read \o <<0>>, first + 1, first + 5) IN
    IF s.ret # Ok THEN s
    ELSE IF t.ret # Ok THEN Under("date", s, t)
    ELSE IF n < first + 4 THEN Failed(t, <<"date">>)
    ELSE Got(Skip(t), name, t.p, t.len,
             <<year>> \o [i \in 1..5 |-> IF first + i <= n THEN rest[i] ELSE 0])))

GetDates(s, end) ==
  LET t == Under("date", s, GetTag(s, end, 48))
      e == t.p + t.len
      both == GetTime(GetTime(t, e, "from"), e, "to")
  IN  Under("date", t, Expect(both, both.p = e, LengthMismatch))

\* rsa_check_pubkey, on the bytes of N and E.
PubkeyOk(s) ==
  LET mpis == SelectSeq(s.got, LAMBDA f : f[1] = "mpi")
  IN  /\ \A i \in 1..2 : Len(mpis[i][4]) \in 1..3
      /\ CheckPubkey(Number(mpis[1][4]), Number(mpis[2][4]))

GetPubkey(s, end) ==
  With(GetAlg(s, end, "pk_oid"), LAMBDA alg :
  With(Next1(alg,
             LAMBDA u : Expect(u, FieldBytes(u, At(u, "pk_oid")) = Pkcs1(1),
                               <<"unknown pk alg">>)), LAMBDA rsa :
  With(GetTag(rsa, end, 3), LAMBDA bits :
  LET some == Expect(bits, end - bits.p >= 1, OutOfData)
      end2 == bits.p + bits.len IN
  With(GetTag([some EXCEPT !.p = @ + 1], end2, 48), LAMBDA seq :
  LET whole == Expect(seq, seq.p + seq.len = end2, LengthMismatch) IN
  With(GetMpi(GetMpi(whole, end2), end2), LAMBDA key :
    IF some.ret = Ok /\ Byte(some, some.p) # 0 THEN Failed(some, <<"pubkey">>)
    ELSE Under("pubkey", rsa, Expect(key, key.p = end, LengthMismatch)))))))

\* An empty bit string is not noticed: len - 1 wraps (-1 here), and the byte behind the
\* length is looked at whether or not there is one.
GetSig(s, end) ==
  LET some == Expect(s, end - s.p >= 1, OutOfData) IN
  With(GetTag(some, end, 3), LAMBDA t :
    IF s.ret # Ok THEN s
    ELSE IF t.ret # Ok THEN Under("signature", s, t)
    ELSE IF t.len = 1 \/ Byte(t, t.p) # 0 THEN Failed(t, <<"signature">>)
    ELSE Got([t EXCEPT !.p = @ + t.len], "sig", t.p + 1, t.len - 1, << >>))

GetUid(s, end, n, name) ==
  LET t == GetTag(s, end, 160 + n)
  IN  IF s.ret # Ok \/ s.p = end \/ t.ret = UnexpectedTag THEN s ELSE Field(t, name)

\* Stops in front of the first extension; the callers read on up to their own end.
GetExt(s, end, tag) ==
  With(GetTag(s, end, 160 + tag), LAMBDA t :
  With(GetTag(t, t.p + t.len, 48), LAMBDA seq :
    IF s.ret # Ok \/ s.p = end THEN s
    ELSE Under("ext", t, Expect(seq, seq.p + seq.len = t.p + t.len, LengthMismatch))))

GetCrlExt(s, end) ==
  LET x == GetExt(s, end, 0)
      all == Until(end, LAMBDA u : Skip(GetTag(u, end, 48)), x)
  IN  IF s.ret # Ok THEN s ELSE IF x.ret = UnexpectedTag THEN s
      ELSE Under("ext", x, Expect(all, all.p = end, LengthMismatch))

GetCrlEntryExt(s, end) ==
  LET t == GetTag(s, end, 48)
      e == t.p + t.len
      all == Until(e, LAMBDA u : Skip(GetTag(u, e, 48)), t)
  IN  IF s.ret # Ok \/ end <= s.p \/ t.ret = UnexpectedTag THEN s
      ELSE Under("ext", s, Expect(all, all.p = e, LengthMismatch))

-----------------------------------------------------------------------------
(* Extensions *)

\* ca_istrue, an INTEGER in old certificates, and max_pathlen: 0 is no limit, so that one
\* more than the number in the certificate is kept.
GetBasicConstraints(s, end) ==
  LET t == GetTag(s, end, 48)
      bool == GetBool(t, end) IN
  With(IF bool.ret = UnexpectedTag THEN GetInt(t, end) ELSE bool, LAMBDA ca :
  LET path == GetInt(ca, end)
      isCa == IF ca.val # 0 THEN 1 ELSE 0 IN
    Under("ext", s,
      IF t.ret # Ok THEN t ELSE IF t.p = end THEN Value(t, "basic", <<0, 0>>)
      ELSE IF ca.ret # Ok THEN ca ELSE IF ca.p = end THEN Value(ca, "basic", <<isCa, 0>>)
      ELSE Value(Expect(path, path.p = end, LengthMismatch), "basic", <<isCa, path.val + 1>>)))

GetNsCertType(s, end) ==
  LET t == GetBitString(s, end)
  IN  Under("ext", s, Next1(Expect(t, t.len = 1, InvalidLength),
                            LAMBDA u : Got(u, "nsType", u.val, 1, << >>)))

GetKeyUsage(s, end) ==
  LET t == GetBitString(s, end)
  IN  Under("ext", s, Next1(Expect(t, t.len >= 1, InvalidLength),
                            LAMBDA u : Got(u, "usage", u.val, 1, << >>)))

GetExtKeyUsage(s, end) ==
  With(GetSequenceOf(s, end, 6), LAMBDA t :
    Under("ext", s, Expect(t, Len(t.got) > Len(s.got), InvalidLength)))

\* Only DNS names are kept; behind one that is not the last element the list has a next
\* entry, which stays empty if no other DNS name comes.
GetSubjectAltName(s, end) ==
  LET t == GetTag(s, end, 48)
      name(u) == LET tag == Byte(u, u.p)
                     n == GetLen([u EXCEPT !.p = @ + 1], end)
                     c == Expect(n, tag >= 128, UnexpectedTag)
                 IN  IF tag = 130 THEN [Field(c, "alt") EXCEPT !.val = 1]
                     ELSE [Skip(c) EXCEPT !.val = 0] IN
  With(Until(end, name, Expect([t EXCEPT !.val = 1], t.p + t.len = end, LengthMismatch)),
       LAMBDA all :
    Under("ext", s, IF all.val = 0 /\ Has(all, "alt") THEN Got(all, "alt", 0, 0, << >>) ELSE all))

SkipExtension(s, end, critical) ==
  IF critical THEN Failed(s, <<"ext">> \o UnexpectedTag) ELSE [s EXCEPT !.p = end]

GetExtension(s, end) ==
  With(GetTag(s, end, 48), LAMBDA t :
  LET endData == t.p + t.len IN
  With(GetTag(t, end, 6), LAMBDA oid :
  LET past == Expect(Skip(oid), end - (oid.p + oid.len) >= 1, OutOfData) IN
  With(GetBool(past, endData), LAMBDA bool :
  With(IF bool.ret = UnexpectedTag THEN [past EXCEPT !.val = 0] ELSE bool, LAMBDA crit :
  With(GetTag(crit, endData, 4), LAMBDA octets :
  With(Expect(octets, octets.p + octets.len = endData, LengthMismatch), LAMBDA x :
  LET id == Contents(oid) IN
    IF x.ret # Ok THEN Under("ext", s, x)
    ELSE CASE id = OidBasicConstraints -> GetBasicConstraints(x, endData)
           [] id = OidNsCertType -> GetNsCertType(x, endData)
           [] id = OidKeyUsage -> GetKeyUsage(x, endData)
           [] id = OidExtKeyUsage -> GetExtKeyUsage(x, endData)
           [] id = OidSubjectAltName -> GetSubjectAltName(x, endData)
           [] OTHER -> SkipExtension(x, endData, crit.val # 0)))))))

GetCrtExt(s, end) ==
  LET x == GetExt(s, end, 3) IN
  With(Until(end, LAMBDA u : GetExtension(u, end), x), LAMBDA all :
    IF s.ret # Ok \/ x.ret = UnexpectedTag THEN s
    ELSE Under("ext", x, Expect(all, all.p = end, LengthMismatch)))

-----------------------------------------------------------------------------
(* Certificates and revocation lists *)

GetEntry(s, end) ==
  LET t == GetTag(s, end, 48)
      e == t.p + t.len
  IN  GetCrlEntryExt(GetTime(GetSerial(t, e), e, "revoked"), e)

GetEntries(s, end) ==
  LET t == GetTag(s, end, 48)
      e == t.p + t.len
  IN  IF s.ret # Ok \/ s.p = end \/ t.ret = UnexpectedTag THEN s
      ELSE Until(e, LAMBDA u : GetEntry(u, e), t)

KnownSigAlg(oid) ==
  \/ Len(oid) = 2 /\ oid[1] = Pkcs1(0)[1] /\ oid[2] \in (2..5) \cup (11..14)
  \/ oid = OidRsaShaObs

CheckSigAlg(s, name) ==
  Next1(s, LAMBDA u : Expect(u, KnownSigAlg(FieldBytes(u, At(u, name))), <<"unknown sig alg">>))

\* A name between the head of its sequence and the end of that; an empty one only where
\* the caller allows it.
NameIn(s, end, mayBeEmpty) ==
  With(GetTag(s, end, 48), LAMBDA t :
    IF t.ret # Ok THEN Under("format", s, t)
    ELSE IF mayBeEmpty /\ t.len = 0 THEN t ELSE GetName(t, t.p + t.len))

SigAlgs(s) ==
  Next1(s, LAMBDA u : Expect(u, FieldBytes(u, At(u, "sig_oid1")) = FieldBytes(u, At(u, "sig_oid2")),
                             <<"sig mismatch">>))

VersionOf(s) == IF s.ret = Ok THEN At(s, "version")[4][1] ELSE 0

\* From the version to the subject.
CrtNames(tbs, end) ==
  With(GetAlg(GetSerial(GetVersion(tbs, end), end), end, "sig_oid1"), LAMBDA alg :
  LET known == CheckSigAlg(Expect(alg, VersionOf(alg) <= 3, <<"unknown version">>), "sig_oid1") IN
  With(GetDates(NameIn(known, end, FALSE), end), LAMBDA dates : NameIn(dates, end, TRUE)))

CrtKey(subject, end) ==
  With(Under("format", subject, GetTag(subject, end, 48)), LAMBDA info :
  With(GetPubkey(info, info.p + info.len), LAMBDA pub :
    Next1(pub, LAMBDA u : Expect(u, PubkeyOk(u), <<"key check failed">>))))

\* What only later versions have, up to the end of the certificate's body.
CrtExtensions(key, end) ==
  With(VersionOf(key), LAMBDA version :
  LET uids == IF version < 2 THEN key
              ELSE GetUid(GetUid(key, end, 1, "issuer_id"), end, 2, "subject_id") IN
  With(IF version < 3 THEN uids ELSE GetCrtExt(uids, end), LAMBDA ext :
    Under("format", ext, Expect(ext, ext.p = end, LengthMismatch))))

X509ParseCrtDerCore(bytes, stray) ==
  LET n == Len(bytes) + 1 IN
  With(GetTag(Cursor(bytes \o <<stray>>), n, 48), LAMBDA crt :
  LET crtEnd == crt.p + crt.len IN
  With(Under("format", crt, GetTag(crt, n, 48)), LAMBDA tbs :
  With(tbs.p + tbs.len, LAMBDA end :
  With(CrtExtensions(CrtKey(CrtNames(tbs, end), end), end), LAMBDA body :
  With(GetSig(SigAlgs(GetAlg(body, crtEnd, "sig_oid2")), crtEnd), LAMBDA sig :
    IF crt.ret # Ok THEN Failed(crt, <<"format">>)
    ELSE Expect(sig, sig.p = crtEnd, <<"format">> \o LengthMismatch))))))

\* From the version to the dates; nextUpdate may be missing.  One that is not there and
\* one whose length is too long give the same error, and reading goes on from where it
\* came up.
CrlNames(tbs, end) ==
  With(GetAlg(CrlGetVersion(tbs, end), end, "sig_oid1"), LAMBDA alg :
  LET known == CheckSigAlg(Expect(alg, VersionOf(alg) <= 2, <<"unknown version">>), "sig_oid1") IN
  With(GetTime(NameIn(known, end, FALSE), end, "this"), LAMBDA this :
  With(GetTime(this, end, "next"), LAMBDA next :
    IF this.ret = Ok /\ next.ret \in {<<"date">> \o UnexpectedTag, <<"date">> \o OutOfData}
    THEN [next EXCEPT !.ret = Ok] ELSE next)))

\* The body of x509parse_crl.
CrlDer(bytes, stray) ==
  LET n == Len(bytes) + 1 IN
  With(GetTag(Cursor(bytes \o <<stray>>), n, 48), LAMBDA crl :
  With(Expect(crl, crl.len = n - crl.p, LengthMismatch), LAMBDA whole :
  With(GetTag(whole, n, 48), LAMBDA tbs :
  With(tbs.p + tbs.len, LAMBDA end :
  With(GetEntries(CrlNames(tbs, end), end), LAMBDA entries :
  With(IF VersionOf(entries) = 2 THEN GetCrlExt(entries, end) ELSE entries, LAMBDA ext :
  With(Expect(ext, ext.p = end, LengthMismatch), LAMBDA body :
  With(GetSig(SigAlgs(GetAlg(body, n, "sig_oid2")), n), LAMBDA sig :
    Expect(sig, sig.p = n, <<"format">> \o LengthMismatch)))))))))

-----------------------------------------------------------------------------
(* One document: it may be damaged in one byte, or cut short, before it is parsed *)

\* What was read: of every field its name, its bytes and what was made of them.
Reading(out) ==
  IF out.ret # Ok THEN Refused
  ELSE LET f == [i
                 \in 1..Len(out.got) |-> <<out.got[i][1], FieldBytes(out, out.got[i]),
                                           out.got[i][4]>>]
       IN  SubSeq(f, 1, Len(f))

XpInit == xpDoc \in XpDocs /\ xpBytes = xpDoc.bytes /\ xpDamaged = FALSE /\ xpOut = NotParsed

XpDamage ==
  /\ ~xpDamaged /\ xpOut = NotParsed
  /\ \E i \in 1..Len(xpBytes) :
       \/ \E v \in XpValues \ {xpBytes[i]} : xpBytes' = [xpBytes EXCEPT ![i] = v]
       \/ xpBytes' = SubSeq(xpBytes, 1, i - 1)
  /\ xpDamaged' = TRUE
  /\ UNCHANGED <<xpDoc, xpOut>>

\* What lies behind the document's bytes in memory may be anything.
XpParseCrt ==
  /\ xpOut = NotParsed /\ xpDoc.kind = "crt"
  /\ \E stray \in {0, 255} : xpOut' = X509ParseCrtDerCore(xpBytes, stray)
  /\ UNCHANGED <<xpDoc, xpBytes, xpDamaged>>
XpParseCrl ==
  /\ xpOut = NotParsed /\ xpDoc.kind = "crl"
  /\ \E stray \in {0, 255} : xpOut' = CrlDer(xpBytes, stray)
  /\ UNCHANGED <<xpDoc, xpBytes, xpDamaged>>

XpNext == XpDamage \/ XpParseCrt \/ XpParseCrl

-----------------------------------------------------------------------------
(* Properties *)

\* A document that reached the parser whole is read as its writer meant it: every field
\* with its bytes and its value, and one with an unknown critical extension, two
\* signature algorithms or bytes left over is refused.  A nextUpdate of which there is
\* no more than the tag and a length that is too long is passed over (x509parse_crl).
XpReadsFields ==
  xpOut # NotParsed /\ ~xpDamaged => Reading(xpOut) = xpDoc.want

\* Whatever one byte says, or where the document ends: the fields of what is accepted lie
\* inside its bytes, one behind the other.  (The two exceptions are written down: an
\* empty signature's length, and the empty entry behind the last DNS name.)
XpFieldsInside ==
  xpOut # NotParsed /\ xpOut.ret = Ok =>
    LET read == SelectSeq(xpOut.got, LAMBDA f : f[2] > 0 /\ f[3] > 0)
    IN  /\ \A i \in 1..Len(read) : read[i][2] + read[i][3] - 1 <= Len(xpBytes)
        /\ \A i \in 1..(Len(read) - 1) : read[i][2] + read[i][3] <= read[i + 1][2]
        /\ \A i \in 1..Len(xpOut.got) : xpOut.got[i][3] < 0 => xpOut.got[i][1] = "sig"

=============================================================================

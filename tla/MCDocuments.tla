---- MODULE MCDocuments ----
(* Certificates and revocation lists for X509Parse: each document is built of  *)
(* items that carry their bytes and the fields a reader should find in them.   *)
(* Good ones differ in their version, the form of their dates, their           *)
(* extensions and what stands behind them; bad ones have one thing wrong.      *)
EXTENDS X509Keys, TLC
DerLen(n) == IF n < 128 THEN <<n>> ELSE <<129, n>>
Element(tag, content) == <<tag>> \o DerLen(Len(content)) \o content
Joined(items) == FlattenSeq(items)
Each(s, Op(_)) == LET f == [i \in DOMAIN s |-> Op(s[i])] IN SubSeq(f, 1, Len(s))
\* An item: its bytes, and the fields a reader should find in it.
Item(bytes, want) == [bytes |-> bytes, want |-> want]
Wrap(tag, items) == Item(Element(tag, Joined(Each(items, LAMBDA i : i.bytes))),
                         Joined(Each(items, LAMBDA i : i.want)))
InOrder(items) == Item(Joined(Each(items, LAMBDA i : i.bytes)),
                       Joined(Each(items, LAMBDA i : i.want)))
RawItem(bytes) == Item(bytes, << >>)
NoItem == RawItem(<< >>)
FieldItem(tag, name, content, value) ==
  Item(Element(tag, content), <<<<name, content, value>>>>)

VersionItem(n) == Item(Element(160, Element(2, <<n>>)), <<<<"version", << >>, <<n + 1>>>>>>)
VersionLeftOut == Item(<< >>, <<<<"version", << >>, <<1>>>>>>)
AlgItem(name, oid) == Item(Element(48, Element(6, oid) \o Element(5, << >>)),
                           <<<<name, oid, << >>>>>>)
AlgBare(name, oid) == Item(Element(48, Element(6, oid)), <<<<name, oid, << >>>>>>)
Attribute(oid, tag, text) == Item(Element(48, Element(6, oid) \o Element(tag, text)),
                                  <<<<"attr", text, oid>>>>)
Rdn(attr) == Wrap(49, <<attr>>)
UtcTime(name, s, y) == FieldItem(23, name, s, <<y>> \o Tail(s))
GeneralTime(name, s) == FieldItem(24, name, s, <<s[1] * 100 + s[2]>> \o SubSeq(s, 3, 7))
MpiItem(bytes) == FieldItem(2, "mpi", bytes, Stripped(bytes))
BitItem(item) == Item(Element(3, <<0>> \o item.bytes), item.want)
PubKey(oid, n, e) == Wrap(48,
                          <<AlgBare("pk_oid", oid),
                            BitItem(Wrap(48, <<MpiItem(n), MpiItem(e)>>))>>)
KeyItem == PubKey(Pkcs1(1), <<0, 143>>, <<7>>)
SignatureItem == Item(Element(3, <<0, 9, 9>>), <<<<"sig", <<9, 9>>, << >>>>>>)
ExtensionItem(oid, critical, item) ==
  Item(Element(48,
               Element(6, oid) \o (IF critical THEN Element(1, <<255>>) ELSE << >>)
                 \o Element(4, item.bytes)), item.want)
BasicItem(bytes, ca, path) == Item(Element(48, bytes), <<<<"basic", << >>, <<ca, path>>>>>>)
UsageItem(b) == Item(Element(3, <<1, b>>), <<<<"usage", <<b>>, << >>>>>>)
NsType(b) == Item(Element(3, <<0, b>>), <<<<"nsType", <<b>>, << >>>>>>)
ExtUsage(oid) == Wrap(48, <<FieldItem(6, "item", oid, << >>)>>)
AltItem(t) == FieldItem(130, "alt", t, << >>)
AltOther(t) == RawItem(Element(134, t))
AltEnd == Item(<< >>, <<<<"alt", << >>, << >>>>>>)
Extensions(items) == Item(Element(163, Element(48, Joined(Each(items, LAMBDA i : i.bytes)))),
                          Joined(Each(items, LAMBDA i : i.want)))
TwoPartName == Wrap(48,
                    <<Rdn(Attribute(<<3>>, 19, <<65>>)),
                      Rdn(Attribute(<<6>>, 12, <<66, 67>>))>>)
UtcDates == Wrap(48,
                 <<UtcTime("from", <<49, 1, 2, 3, 4, 5>>, 2049),
                   UtcTime("to", <<50, 1, 2, 3, 4, 5>>, 1950)>>)
GeneralDates == Wrap(48,
                     <<GeneralTime("from", <<20, 13, 1, 2, 3, 4, 5>>),
                       GeneralTime("to", <<20, 49, 6, 7, 8, 9, 10>>)>>)

ToBeSigned(v, alg, dates, subject, key, tail) ==
  Wrap(48, <<v, FieldItem(2, "serial", <<5>>, << >>), alg, TwoPartName, dates, subject, key,
             tail>>)
Certificate(tbs, alg, sig) == Wrap(48, <<tbs, alg, sig>>)
SignatureAlg1 == AlgItem("sig_oid1", Pkcs1(5))
SignatureAlg2 == AlgItem("sig_oid2", Pkcs1(5))
RsaCertificate(v, dates, subject, tail) ==
  Certificate(ToBeSigned(v, SignatureAlg1, dates, subject, KeyItem, tail), SignatureAlg2,
              SignatureItem)
Uids == InOrder(<<FieldItem(161, "issuer_id", <<1>>, << >>),
                  FieldItem(162, "subject_id", <<2>>, << >>)>>)
BasicAndUsage ==
  LET basic == BasicItem(Element(1, <<255>>) \o Element(2, <<0>>), 1, 1)
  IN  Extensions(<<ExtensionItem(OidBasicConstraints, TRUE, basic),
                   ExtensionItem(OidKeyUsage, FALSE, UsageItem(6)),
                   ExtensionItem(<<77>>, FALSE, RawItem(<<1, 1, 0>>))>>)
AllExtensions ==
  LET alt == Wrap(48, <<AltItem(<<65>>), AltOther(<<1, 1, 1, 1>>), AltItem(<<66, 67>>)>>)
  IN  Extensions(<<ExtensionItem(OidSubjectAltName, FALSE, alt),
                   ExtensionItem(OidNsCertType, FALSE, NsType(4)),
                   ExtensionItem(OidExtKeyUsage, TRUE, ExtUsage(<<43, 1>>)),
                   ExtensionItem(OidBasicConstraints, FALSE, BasicItem(<< >>, 0, 0))>>)
AltLast ==
  LET alt == InOrder(<<Wrap(48, <<AltItem(<<65>>), AltOther(<<1>>)>>), AltEnd>>)
  IN  Extensions(<<ExtensionItem(OidSubjectAltName, FALSE, alt)>>)
UnknownCritical == Extensions(<<ExtensionItem(<<77>>, TRUE, RawItem(<<1, 1, 0>>))>>)

Plain(version, tail) == RsaCertificate(version, UtcDates, TwoPartName, tail)
Dated(version, subject, tail) == RsaCertificate(version, GeneralDates, subject, tail)
GoodCertificates ==
  {Plain(VersionItem(2), BasicAndUsage), Plain(VersionItem(2), InOrder(<<Uids, AllExtensions>>)),
   Plain(VersionItem(1), Uids), InOrder(<<Plain(VersionItem(0), NoItem), RawItem(<<0>>)>>),
   Dated(VersionLeftOut, RawItem(Element(48, << >>)), NoItem),
   Dated(VersionItem(2), TwoPartName, AltLast)}

\* An unknown critical extension, a version too high, ids in version 1, and what is
\* wrong in the inner algorithm, the key, the tail and the outer algorithm.
Faulty(inner, key, tail, outer, sig) ==
  Certificate(ToBeSigned(VersionItem(2), inner, UtcDates, TwoPartName, key, tail), outer, sig)
BadCertificates ==
  LET inner == SignatureAlg1
      outer == SignatureAlg2
      sig == SignatureItem
  IN  {Plain(VersionItem(2), UnknownCritical), Plain(VersionItem(3), NoItem),
       Plain(VersionItem(0), Uids),
       Faulty(inner, KeyItem, NoItem, AlgItem("sig_oid2", Pkcs1(4)), sig),
       Faulty(AlgItem("a", Pkcs1(6)), KeyItem, NoItem, AlgItem("b", Pkcs1(6)), sig),
       Faulty(inner, PubKey(<<9, 9>>, <<0, 143>>, <<7>>), NoItem, outer, sig),
       Faulty(inner, PubKey(Pkcs1(1), <<0, 142>>, <<7>>), NoItem, outer, sig),
       Faulty(inner, KeyItem, RawItem(<<5, 0>>), outer, sig),
       Faulty(inner, KeyItem, NoItem, outer, RawItem(Element(3, <<1, 9>>)))}

RevokedItem(n, ext) ==
  Wrap(48, <<FieldItem(2, "serial", <<n>>, << >>),
             UtcTime("revoked", <<12, 1, 1, 1, 1, 1>>, 2012), ext>>)
CrlV2 == Item(Element(2, <<1>>), <<<<"version", << >>, <<2>>>>>>)
RevocationList(v, alg, times, entries, ext) ==
  Wrap(48, <<Wrap(48, <<v, alg, TwoPartName, times, entries, ext>>), SignatureAlg2,
             SignatureItem>>)
ThisUpdate == UtcTime("this", <<13, 1, 1, 1, 1, 1>>, 2013)
NextUpdate == UtcTime("next", <<14, 1, 1, 1, 1, 1>>, 2014)
Skipped == Element(48, Element(48, <<1>>))
ShortList == RevocationList(VersionLeftOut, SignatureAlg1, ThisUpdate, NoItem, NoItem)
GoodLists ==
  {RevocationList(CrlV2, SignatureAlg1, InOrder(<<ThisUpdate, NextUpdate>>),
                  Wrap(48, <<RevokedItem(3, NoItem), RevokedItem(4, RawItem(Skipped))>>),
                  RawItem(Element(160, Skipped))), ShortList}
\* Of nextUpdate there is only the head, whose length reaches over the list's end.
HeadOfTime(length) == InOrder(<<ThisUpdate, RawItem(<<23>> \o length)>>)
LenientLists ==
  {RevocationList(VersionLeftOut, SignatureAlg1, HeadOfTime(<<127>>), NoItem, NoItem),
   RevocationList(CrlV2, SignatureAlg1, HeadOfTime(<<129, 255>>),
                  Wrap(48, <<RevokedItem(3, NoItem)>>), NoItem)}
BadLists ==
  {RevocationList(Item(Element(2, <<2>>), << >>), SignatureAlg1, ThisUpdate, NoItem, NoItem),
   InOrder(<<ShortList, RawItem(<<0>>)>>)}

Documents(kind, items, ok) ==
  {[kind |-> kind, bytes |-> i.bytes, want |-> IF ok THEN i.want ELSE Refused] : i \in items}
MCDocs == Documents("crt", GoodCertificates, TRUE) \cup Documents("crt", BadCertificates, FALSE)
          \cup Documents("crl", GoodLists \cup LenientLists, TRUE)
          \cup Documents("crl", BadLists, FALSE)
====

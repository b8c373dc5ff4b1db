----------------------------- MODULE MCLibrary -----------------------------
(* The objects the parts of Library are run on.                              *)
EXTENDS Library, MCDocuments

UpTo(S, n) == UNION {[1..k -> S] : k \in 0..n}

\* Records: a stream cipher, each form of CBC in each version, GCM and no cipher.
Kind(suite, ver) == [suite |-> suite, ver |-> ver]
MCKinds ==
  {Kind("RC4_128_MD5", 0), Kind("DES3_CBC_SHA", 0), Kind("CBC_256_SHA", 0),
   Kind("CBC_128_SHA", 1), Kind("RC4_128_SHA", 2), Kind("CBC_128_SHA", 2),
   Kind("CBC_256_SHA256", 3), Kind("GCM_256_SHA384", 3), Kind("NULL_SHA256", 3)}

\* Random: /dev/urandom, which may fail, the clock, and a source that may give nothing.
Source(threshold, gives) == [threshold |-> threshold, gives |-> gives]
MCSources == <<Source(128, {128, -1}), Source(16, {8}), Source(1, {0, 1})>>

\* Digest: lengths around a block, and around the place of the length in the last one.
MCLengths(block) ==
  CASE block = 16 -> {0, 1, 15, 33}
    [] block = 64 -> {0, 1, 55, 64, 129}
    [] OTHER      -> {0, 1, 111, 255}
MCKeyLengths(block) == {block, block + 1}

\* Cipher: one type of each mode and each table.
MCTypes ==
  {<<"AES", 128, "CBC">>, <<"AES", 256, "CBC">>, <<"AES", 192, "CTR">>, <<"CAMELLIA", 128, "CFB">>,
   <<"DES", 64, "CBC">>, <<"BLOWFISH", 128, "CFB">>, <<"BLOWFISH", 128, "CTR">>,
   <<"NULL", 0, "NULL">>}

\* CertChain: leaves, intermediates with one thing wrong, roots and revocation lists.
Crt(subject, issuer, key, signer, ca, to) ==
  [subject |-> subject, issuer |-> issuer, key |-> key, signer |-> signer, ca |-> ca,
   to |-> to, serial |-> key, maxPath |-> 0, hasAlt |-> FALSE, alt |-> << >>, cn |-> << >>]
Crl(issuer, signer, next, revoked) ==
  [issuer |-> issuer, signer |-> signer, next |-> next, revoked |-> revoked]
Leaves ==
  {Crt("L", "I", 1, 2, FALSE, 9), Crt("L", "I", 1, 2, FALSE, 1),
   Crt("L", "R", 1, 3, FALSE, 9), Crt("L", "L", 1, 1, FALSE, 9)}
Others ==
  {Crt("I", "R", 2, 3, TRUE, 9), Crt("I", "R", 2, 3, FALSE, 9), Crt("I", "R", 2, 4, TRUE, 9),
   Crt("I", "R", 2, 3, TRUE, 1), Crt("R", "R", 3, 3, TRUE, 9), Crt("I", "J", 2, 5, TRUE, 9),
   Crt("J", "R", 5, 3, TRUE, 9)}
Root == Crt("R", "R", 3, 3, TRUE, 9)
OtherRoot == Crt("R", "R", 4, 4, TRUE, 9)
Roots == {Root, Crt("R", "R", 3, 3, TRUE, 1), OtherRoot, [Root EXCEPT !.maxPath = 2],
          Crt("L", "L", 1, 1, FALSE, 9)}
Lists ==
  {Crl("I", 2, 9, {[serial |-> 1, date |-> 1]}), Crl("I", 2, 1, {}), Crl("I", 4, 9, {}),
   Crl("R", 3, 9, {[serial |-> 2, date |-> 1], [serial |-> 1, date |-> 9]}), Crl("R", 3, 9, {})}
Group(peers, trusted, crls, hosts, vetoes) ==
  [peers |-> peers, trusted |-> trusted, crls |-> crls, hosts |-> hosts, vetoes |-> vetoes]
MCGroups ==
  LET peers == {<<l>> \o o : l \in Leaves, o \in UpTo(Others, 2)}
      named(h, name) == [Crt("L", "R", 1, 3, FALSE, 9) EXCEPT
                           !.hasAlt = h, !.alt = IF h THEN <<<<".">>, name>> ELSE << >>,
                           !.cn = IF h THEN <<<<"a">>>> ELSE <<name>>]
      names == {<<named(h, name)>> : h \in BOOLEAN, name \in UpTo({"a", ".", "*"}, 4)}
      trusted == UpTo(Roots, 1) \cup {<<OtherRoot, b>> : b \in Roots}
  IN  {Group(peers, trusted, UpTo(Lists, 1), {<< >>}, {-2}),
       Group(peers, {<<Root>>}, {<< >>}, {<< >>}, {-1, 0, 1, 2}),
       Group(names, {<<Root>>}, {<< >>}, UpTo({"a", "."}, 6) \ {<< >>}, {-2})}

\* Rsa and RsaPadding: small primes, whose product may have a bit too few, and messages and
\* draws with zeros.
MCPrimes == 4 :> {11, 13} @@ 5 :> {17, 19, 23, 29, 31}
MCMessages == UpTo({0, 2}, 3)
MCDraws == UpTo({0, 1}, 7)
MCMaskedLens == {<<6, TRUE>>, <<6, FALSE>>, <<8, TRUE>>, <<8, FALSE>>}
MCSmall == {<< >>, <<{<<"m">>}>>, <<{}>>}

\* Pem: bytes of every length modulo 3, and ones that start like a key.
MCInputs == UpTo({0, 128, 255}, 4)
            \cup {<<48, 130, 0, b, 2, 1, c>> : b \in {0, 5}, c \in {0, 255}}
MCPasswords == {<< >>, <<5>>, <<6>>, <<5, 5>>}

\* X509Keys: two keys in every form of file, and requests that fit and do not.
RsaKey(n, e, d, p, q, dp, dq, qp) ==
  [N |-> n, E |-> e, D |-> d, P |-> p, Q |-> q, DP |-> dp, DQ |-> dq, QP |-> qp]
MCKeys == {RsaKey(143, 7, 103, 13, 11, 7, 3, 6), RsaKey(667, 3, 411, 29, 23, 19, 15, 24)}
Form(what, enc, pem) == [what |-> what, enc |-> enc, pem |-> pem]
Encodings == {"none", "pkcs8", "pbes2 des", "pbes2 des3", "pkcs12 des3", "pkcs12 des2",
              "pkcs12 rc4"}
MCForms ==
  {Form("key", enc, pem) : enc \in Encodings, pem \in BOOLEAN}
  \cup {Form(w, "none", pem) : w \in {"public", "dh"}, pem \in BOOLEAN}
  \cup {Form("key", "pem", TRUE), Form("request", "none", TRUE)}
Member(k, s) == [key |-> k, str |-> s]
Letters(n) == [i \in 1..n |-> 65]
MCRequests ==
  {<<Member("country", <<68>>), Member("state", Letters(30))>>, << >>,
   <<Member("commonName", <<65, 66>>), Member("other", <<9>>), Member("email", <<67>>),
     Member("city", << >>)>>,
   <<Member("country", <<68>>), Member("state", Letters(80)), Member("orgname", Letters(33))>>}
MCKeyPasswords == {<< >>, <<5>>, <<7, 5>>}

\* X509Lists: files with good, misencoded and badly armoured objects in any order.
Objects == {<<"good", 1>>, BadDer, BadArmour}
TextFile(objects, rest) == [format |-> "pem", objects |-> objects, rest |-> rest]
MCFiles == {TextFile(o, FALSE) : o \in UpTo(Objects, 2) \ {<< >>}}
           \cup {TextFile(<<o>>, TRUE) : o \in Objects}
           \cup {[format |-> "der", objects |-> <<o>>, rest |-> FALSE] : o
                 \in Objects \ {BadArmour}}
FileEntry(objects) == [kind |-> "file", file |-> TextFile(objects, FALSE)]
MCFolders ==
  {<<FileEntry(<<<<"good", 3>>, BadDer>>), [kind |-> "other"], FileEntry(<<BadDer>>),
     FileEntry(<<<<"good", 4>>>>)>>,
   <<FileEntry(<<<<"good", 3>>>>), [kind |-> "gone"], FileEntry(<<<<"good", 4>>>>)>>}

\* Bignum: zeros, both signs, and values at the seam of two limbs.
MCStart == {<<0, 0>>, <<-255, 256>>, <<65535, 17>>}
MCWindow(i) == IF i > 3 THEN 3 ELSE IF i > 2 THEN 2 ELSE 1
MCSmallPrimes == <<3, 5, 7>>
MCDigits == {-16, 0, 3, 45}
=============================================================================

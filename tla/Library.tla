------------------------------ MODULE Library ------------------------------
(* The parts of the PolarSSL library below the handshake, as one system:     *)
(* src/ssl/polarssl/library. The parts share no object with each other, so a *)
(* behaviour is one of one part, with the others at rest; what one part       *)
(* takes from another it takes as operators (X509Keys reads with Der and Pem, *)
(* X509Parse checks keys with Rsa). Each part is a module of its own.         *)
EXTENDS RecordProtection, Random, Digest, Cipher, CertChain, RsaPadding, X509Keys, X509Lists,
        Bignum

VARIABLE part  \* the part in use

Parts == {"records", "random", "digest", "ciphers", "chain", "rsa", "padding", "pem",
          "documents", "keys", "lists", "integers"}
AtRest == "at rest"

vars == <<part, rpVars, rdVars, dgVars, ciVars, vfVars, rsVars, pkVars, pmVars, xpVars, xkVars,
          xlVars, bnVars>>

DgAtRest ==
  /\ dgAlg = AtRest /\ dgCtx = AtRest /\ dgMode = AtRest /\ dgText = AtRest
  /\ dgKey = AtRest /\ dgOut = AtRest /\ dgBegun = AtRest /\ dgCalls = AtRest
CiAtRest ==
  /\ ciCtx = AtRest /\ ciText = AtRest /\ ciFed = AtRest /\ ciSecret = AtRest
  /\ ciOut = AtRest /\ ciCalls = AtRest /\ ciRet = AtRest /\ ciGcm = AtRest
VfAtRest ==
  /\ vfPeer = AtRest /\ vfTrust = AtRest /\ vfCrl = AtRest /\ vfHost = AtRest
  /\ vfVeto = AtRest /\ vfFlags = AtRest /\ vfCalls = AtRest /\ vfRet = AtRest
RsAtRest == rsCtx = AtRest /\ rsG = AtRest /\ rsState = AtRest
PkAtRest ==
  /\ pkPadding = AtRest /\ pkMade = AtRest /\ pkBlock = AtRest /\ pkAltered = AtRest
  /\ pkAsked = AtRest /\ pkRet = AtRest
PmAtRest ==
  /\ pmBytes = AtRest /\ pmEnc = AtRest /\ pmPwd = AtRest /\ pmDamage = AtRest
  /\ pmText = AtRest /\ pmRead = AtRest
XpAtRest == xpDoc = AtRest /\ xpBytes = AtRest /\ xpDamaged = AtRest /\ xpOut = AtRest
XkAtRest ==
  /\ xkKey = AtRest /\ xkForm = AtRest /\ xkPwd = AtRest /\ xkRequest = AtRest
  /\ xkFile = AtRest /\ xkDamaged = AtRest /\ xkOut = AtRest
XlAtRest == xlCrts = AtRest /\ xlCrls = AtRest /\ xlCalls = AtRest
BnAtRest == bnReg = AtRest /\ bnOp = AtRest /\ bnOps = AtRest /\ bnPrime = AtRest

Init ==
  /\ part \in Parts
  /\ IF part = "records"   THEN RpInit ELSE RpAtRest
  /\ IF part = "random"    THEN RdInit ELSE RdAtRest
  /\ IF part = "digest"    THEN DgInit ELSE DgAtRest
  /\ IF part = "ciphers"   THEN CiInit ELSE CiAtRest
  /\ IF part = "chain"     THEN VfInit ELSE VfAtRest
  /\ IF part = "rsa"       THEN RsInit ELSE RsAtRest
  /\ IF part = "padding"   THEN PkInit ELSE PkAtRest
  /\ IF part = "pem"       THEN PmInit ELSE PmAtRest
  /\ IF part = "documents" THEN XpInit ELSE XpAtRest
  /\ IF part = "keys"      THEN XkInit ELSE XkAtRest
  /\ IF part = "lists"     THEN XlInit ELSE XlAtRest
  /\ IF part = "integers"  THEN BnInit ELSE BnAtRest

\* The variables of the parts that are not in use.
UnchangedBut(p) ==
  /\ UNCHANGED part
  /\ p = "records"   \/ UNCHANGED rpVars
  /\ p = "random"    \/ UNCHANGED rdVars
  /\ p = "digest"    \/ UNCHANGED dgVars
  /\ p = "ciphers"   \/ UNCHANGED ciVars
  /\ p = "chain"     \/ UNCHANGED vfVars
  /\ p = "rsa"       \/ UNCHANGED rsVars
  /\ p = "padding"   \/ UNCHANGED pkVars
  /\ p = "pem"       \/ UNCHANGED pmVars
  /\ p = "documents" \/ UNCHANGED xpVars
  /\ p = "keys"      \/ UNCHANGED xkVars
  /\ p = "lists"     \/ UNCHANGED xlVars
  /\ p = "integers"  \/ UNCHANGED bnVars

Next ==
  \/ part = "records" /\ RpNext /\ UnchangedBut("records")
  \/ part = "random" /\ RdNext /\ UnchangedBut("random")
  \/ part = "digest" /\ DgNext /\ UnchangedBut("digest")
  \/ part = "ciphers" /\ CiNext /\ UnchangedBut("ciphers")
  \/ part = "chain" /\ VfNext /\ UnchangedBut("chain")
  \/ part = "rsa" /\ RsNext /\ UnchangedBut("rsa")
  \/ part = "padding" /\ PkNext /\ UnchangedBut("padding")
  \/ part = "pem" /\ PmNext /\ UnchangedBut("pem")
  \/ part = "documents" /\ XpDamage /\ UnchangedBut("documents")
  \/ part = "documents" /\ XpParseCrt /\ UnchangedBut("documents")
  \/ part = "documents" /\ XpParseCrl /\ UnchangedBut("documents")
  \/ part = "keys" /\ XkWrite /\ UnchangedBut("keys")
  \/ part = "keys" /\ XkDamage /\ UnchangedBut("keys")
  \/ part = "keys" /\ XkRead /\ UnchangedBut("keys")
  \/ part = "lists" /\ XlNext /\ UnchangedBut("lists")
  \/ part = "integers" /\ BnSums /\ UnchangedBut("integers")
  \/ part = "integers" /\ BnQuotients /\ UnchangedBut("integers")
  \/ part = "integers" /\ BnToModulus /\ UnchangedBut("integers")
  \/ part = "integers" /\ BnTexts /\ UnchangedBut("integers")
  \/ part = "integers" /\ BnPrimality /\ UnchangedBut("integers")

Spec == Init /\ [][Next]_vars

-----------------------------------------------------------------------------
(* Properties: those of each part while it is in use, the parts' own names in them. *)
(* RecordsProtected is in RecordProtection, SeedsAreFresh in Random.               *)

\* Every digest, HMAC and ciphertext is the standard's, of the whole input and of nothing
\* else, for any cut of it into calls and any earlier use of the context (md5.c, sha1.c,
\* sha2.c, sha4.c, md2.c and md4.c through md_wrap.c); and decryption gives back what was
\* encrypted, cut in any other way, and refuses what was not (cipher.c, gcm.c).
PrimitivesAreStandard ==
  /\ part = "digest" => DgWholeInput /\ DgHmacOfKey
  /\ part = "ciphers" => CiAsStandard /\ CiGivesBack /\ CiGcmOpens

\* x509parse_verify lets no certificate pass but at the foot of a good chain, lets good
\* chains pass, and tells the callback of each link (x509parse.c:3225-3598).
ChainsAreJudged ==
  part = "chain" => VfOnlyChains /\ VfGoodChainPasses /\ VfCallbackHearsAll

\* A generated key is one whose two operations undo each other, and a padded block says
\* what it was made of, to nobody but who asks for the right thing (rsa.c).
RsaHolds ==
  /\ part = "rsa" => RsKeysGood /\ RsInverse
  /\ part = "padding" => PkOnlySigned /\ PkRoundTrip

\* What is read of a certificate or a revocation list lies inside its bytes and is what
\* its writer put there; and a list holds all the good objects of the files it was read
\* from, in order, whatever stood between them (asn1parse.c, x509parse.c:143-2040).
CertificatesAreRead ==
  /\ part = "documents" => XpReadsFields /\ XpFieldsInside
  /\ part = "lists" => XlAllCertificates /\ XlAllRevocationLists

\* A key file opens for who has its password and gives no bad key; a request says what
\* the configuration does; and PEM text gives the bytes it was made of (pem.c, base64.c,
\* pkcs5.c, pkcs12.c, x509write.c and x509parse.c:2100-2600).
KeysAreRead ==
  /\ part = "keys" => XkOpens /\ XkOnlyGoodKeys /\ XkRequestSays
  /\ part = "pem" => PmReadsWhatWasWritten

\* Arithmetic on limbs is arithmetic on integers, and what depends on it holds: modular
\* results, texts and primes (bignum.c).
LimbsAreIntegers ==
  part = "integers" => BnTypeOK /\ BnLikeIntegers /\ BnModular /\ BnReadsBack /\ BnPrimes
=============================================================================

------------------------------ MODULE CertChain ------------------------------
(***************************************************************************)
(* x509parse_verify: is the certificate a peer presented, followed by the    *)
(* others it sent, good for a name, for the certificates this end trusts and *)
(* the revocation lists it has?                                             *)
(*                                                                         *)
(* A certificate is what its fields are to the verification: names and keys *)
(* are values compared for equality, a signature is the key that made it,    *)
(* and a time is a number.  Lists keep the order of the program's chained    *)
(* lists, which decides what is found first.                                *)
(***************************************************************************)
EXTENDS Integers, Sequences, FiniteSets, Binding

CONSTANTS
  VfGroups,      \* calls, by groups of any choice of: lists of certificates a peer
                 \* presents, that are trusted, and of revocation lists; names asked
                 \* for, sequences of characters or NoHost; depths at which the
                 \* callback fails, -1 for none, -2 where there is no callback
  VfNow          \* the time

VARIABLES
  vfPeer, vfTrust, vfCrl, vfHost, vfVeto,  \* the arguments
  vfFlags,       \* the flags of the last call
  vfCalls,       \* what the callback was given: certificate and depth, in order
  vfRet          \* "none" before the call, then "ok", "failed" or "veto"

vfArguments == <<vfPeer, vfTrust, vfCrl, vfHost, vfVeto>>
vfVars == <<vfArguments, vfFlags, vfCalls, vfRet>>

NoHost == << >>
\* The first element of a list that is wanted, or 0.
First(list, Wanted(_)) ==
  IF \E i \in 1..Len(list) : Wanted(list[i])
  THEN CHOOSE i \in 1..Len(list) :
         Wanted(list[i]) /\ \A j \in 1..(i - 1) : ~Wanted(list[j])
  ELSE 0

-----------------------------------------------------------------------------
(* Names *)

\* Defect: the star stands for any first part, of several labels too.
WildcardVerifyDeep(cn, name) ==
  /\ Len(name) >= 3 /\ name[1] = "*" /\ name[2] = "."
  /\ Len(cn) >= Len(name)
  /\ SubSeq(cn, Len(cn) - Len(name) + 2, Len(cn)) = SubSeq(name, 2, Len(name))

\* x509_wildcard_verify: cn_idx, here counted from 1, is the first dot.
WildcardVerify(cn, name) ==
  LET dot == First(cn, LAMBDA c : c = ".")
  IN  /\ Len(name) >= 3 /\ name[1] = "*" /\ name[2] = "."
      /\ dot > 1
      /\ Len(cn) - dot + 1 = Len(name) - 1
      /\ SubSeq(name, 2, Len(name)) = SubSeq(cn, dot, Len(cn))

\* One entry of subject_alt_names or one common name.
NameMatches(cn, name) ==
  \/ name = cn
  \/ Len(name) > 2 /\ name[1] = "*" /\ name[2] = "." /\ WildcardVerify(cn, name)

\* Common names only count where there is no subject_alt_names extension.
NameFlags(crt, cn) ==
  LET names == IF crt.hasAlt THEN crt.alt ELSE crt.cn
  IN  IF cn = NoHost \/ \E i \in 1..Len(names) : NameMatches(cn, names[i])
      THEN {} ELSE {"cn mismatch"}

-----------------------------------------------------------------------------
(* Certificates *)

TimeExpired(to) == VfNow > to

SignedBy(x, ca) == x.signer = ca.key

Revoked(crt, crl) == \E r \in crl.revoked : r.serial = crt.serial /\ TimeExpired(r.date)

\* x509parse_verifycrl: the lists of this issuer in turn, up to one that is not to be
\* trusted or has the certificate.
VerifyCrl(crt, ca, crls) ==
  LET mine == SelectSeq(crls, LAMBDA l : l.issuer = ca.subject) IN
  With(First(mine, LAMBDA l : ~SignedBy(l, ca) \/ Revoked(crt, l)), LAMBDA stop :
  LET seen == IF stop = 0 THEN mine ELSE SubSeq(mine, 1, stop) IN
    UNION {IF ~SignedBy(seen[i], ca) THEN {"crl not trusted"}
           ELSE (IF TimeExpired(seen[i].next) THEN {"crl expired"} ELSE {})
                \cup (IF Revoked(crt, seen[i]) THEN {"revoked"} ELSE {}) :
           i \in 1..Len(seen)})

Expired(crt) == IF TimeExpired(crt.to) THEN {"expired"} ELSE {}

\* What a call returns: the flags and what the callback was given; or the callback's
\* error, behind which nothing is done.
Answer(flags, calls, vetoed) == [flags |-> flags, calls |-> calls, vetoed |-> vetoed]

Callback(answer, crt, depth) ==
  IF answer.vetoed \/ vfVeto = -2 THEN answer
  ELSE [answer EXCEPT !.calls = Append(@, <<crt, depth>>), !.vetoed = (vfVeto = depth)]

\* The loop of x509parse_verify_top: the path length left to check falls with every
\* trusted certificate that has the child's own name.
TrustedBy(child, trust, depth) ==
  LET own(i) == Cardinality({j \in 1..i : /\ trust[j].subject = child.issuer
                                          /\ trust[j].subject = child.subject})
      takes(i) == /\ trust[i].subject = child.issuer
                  /\ ~(trust[i].maxPath > 0 /\ trust[i].maxPath < depth + 1 - own(i))
                  /\ SignedBy(child, trust[i])
      taken == {i \in 1..Len(trust) : takes(i)}
  IN  IF taken = {} THEN 0 ELSE CHOOSE i \in taken : \A j \in taken : i <= j

\* x509parse_verify_top: the last certificate found in the peer's list.
VerifyTop(child, depth) ==
  With(TrustedBy(child, vfTrust, depth), LAMBDA t :
  LET above == t # 0 /\ child.subject # vfTrust[t].subject IN
  With(Expired(child) \cup (IF t = 0 THEN {"not trusted"} ELSE {})
       \cup (IF above THEN VerifyCrl(child, vfTrust[t], vfCrl) ELSE {}), LAMBDA flags :
  LET ofCa == IF above THEN Expired(vfTrust[t]) ELSE {}
      asked == IF above THEN Callback(Answer(flags, << >>, FALSE), vfTrust[t], depth + 1)
               ELSE Answer(flags, << >>, FALSE)
      called == Callback(asked, child, depth) IN
    [called EXCEPT !.flags = @ \cup ofCa]))

\* The next certificate of the list that may have issued the i-th, or 0.
ParentOf(list, i) ==
  LET later == SubSeq(list, i + 1, Len(list))
      j == First(later, LAMBDA c : c.ca /\ c.subject = list[i].issuer)
  IN  IF j = 0 THEN 0 ELSE i + j

\* x509parse_verify_child, which calls itself for the parent, at each place of the list
\* and depth it can be called for.  The callback hears of the parent first.
VerifyFrom(list) ==
  LET from[i \in 1..Len(list), depth \in 0..Len(list)] ==
        With(ParentOf(list, i), LAMBDA p :
        LET up == from[p, depth + 1]
            own == Expired(list[i])
                   \cup (IF SignedBy(list[i], list[p]) THEN {} ELSE {"not trusted"})
                   \cup VerifyCrl(list[i], list[p], vfCrl)
            called == Callback([up EXCEPT !.flags = own], list[i], depth) IN
          IF p = 0 THEN VerifyTop(list[i], depth)
          ELSE [called EXCEPT !.flags = @ \cup up.flags])
  IN  from[1, 0]

X509ParseVerify ==
  /\ vfRet = "none"
  /\ LET answer == VerifyFrom(vfPeer)
         flags == NameFlags(vfPeer[1], vfHost) \cup answer.flags
     IN  /\ vfFlags' = flags
         /\ vfCalls' = answer.calls
         /\ vfRet' = IF answer.vetoed THEN "veto" ELSE IF flags = {} THEN "ok" ELSE "failed"
  /\ UNCHANGED vfArguments

VfInit ==
  /\ \E g \in VfGroups :
       /\ vfPeer \in g.peers /\ vfTrust \in g.trusted /\ vfCrl \in g.crls
       /\ vfHost \in g.hosts /\ vfVeto \in g.vetoes
  /\ vfFlags = {} /\ vfCalls = << >> /\ vfRet = "none"

VfNext == X509ParseVerify

-----------------------------------------------------------------------------
(* Properties *)

\* Label by label: a star is one whole label, the first, of a name of two or more.
Labels(cn) ==
  LET dots == {i \in 1..Len(cn) : cn[i] = "."}
      n == Cardinality(dots)
      at(k) == CHOOSE i \in dots : Cardinality({j \in dots : j <= i}) = k
      from(k) == IF k = 1 THEN 1 ELSE at(k - 1) + 1
      to(k) == IF k = n + 1 THEN Len(cn) ELSE at(k) - 1
  IN  [k \in 1..(n + 1) |-> SubSeq(cn, from(k), to(k))]

IsHost(cn) == \A k \in DOMAIN Labels(cn) : Labels(cn)[k] # << >>

HasName(cn, name) ==
  LET host == Labels(cn)
      own == Labels(name)
  IN  \/ host = own
      \/ /\ Len(host) = Len(own) /\ Len(own) > 1 /\ own[1] = <<"*">>
         /\ \A k \in 2..Len(own) : host[k] = own[k]

\* A chain a reviewer would accept: each certificate of it issued and signed by the
\* next, which is a CA, the last by a trusted one, all of them in their time and none
\* revoked.  The length of the path is only limited by the trusted certificate.
Chain(idx) ==
  LET crt(k) == vfPeer[idx[k]]
      last == crt(Len(idx))
      good(c, ca) ==
        /\ c.issuer = ca.subject /\ SignedBy(c, ca) /\ ~TimeExpired(c.to)
        /\ \A i \in 1..Len(vfCrl) :
             ~(vfCrl[i].issuer = ca.subject /\ SignedBy(vfCrl[i], ca) /\ Revoked(c, vfCrl[i]))
  IN  /\ \A k \in 1..(Len(idx) - 1) : good(crt(k), crt(k + 1)) /\ crt(k + 1).ca
      /\ \E t \in 1..Len(vfTrust) :
           /\ last.issuer = vfTrust[t].subject /\ SignedBy(last, vfTrust[t])
           /\ ~TimeExpired(last.to)
           /\ last.subject # vfTrust[t].subject =>
                good(last, vfTrust[t]) /\ ~TimeExpired(vfTrust[t].to)

\* No certificate passes but one with the name asked for at the foot of a chain that
\* ends at a trusted certificate, with every link signed, in time and not revoked,
\* whatever else the peer's list holds and in which order.
VfOnlyChains ==
  vfRet = "ok" =>
    /\ vfHost # NoHost /\ IsHost(vfHost) =>
         \E i \in 1..Len(IF vfPeer[1].hasAlt THEN vfPeer[1].alt ELSE vfPeer[1].cn) :
           HasName(vfHost, (IF vfPeer[1].hasAlt THEN vfPeer[1].alt ELSE vfPeer[1].cn)[i])
    /\ \E n \in 1..Len(vfPeer) : \E idx \in [1..n -> 1..Len(vfPeer)] :
         /\ idx[1] = 1 /\ \A k \in 1..(n - 1) : idx[k] < idx[k + 1]
         /\ Chain(idx)

\* A peer that sends its chain in order, without names used twice, is accepted if the
\* chain is good, the name fits and no revocation list of an issuer is stale or forged.
VfGoodChainPasses ==
  vfRet = "failed" =>
    LET n == Len(vfPeer)
        names == {vfPeer[i].subject : i \in 1..n}
        issuers == names \cup {vfTrust[t].subject : t \in 1..Len(vfTrust)}
    IN  ~ /\ Cardinality(names) = n /\ vfHost = NoHost
          /\ Chain([k \in 1..n |-> k])
          /\ \A t \in 1..Len(vfTrust) : vfTrust[t].maxPath = 0 \/ vfTrust[t].maxPath >= n
          /\ \A t \in 1..Len(vfTrust) : ~TimeExpired(vfTrust[t].to)
          /\ \A i \in 1..Len(vfCrl) :
               vfCrl[i].issuer \in issuers =>
                 /\ ~TimeExpired(vfCrl[i].next)
                 /\ \A c \in {vfPeer[k] : k \in 1..n} \cup {vfTrust[t] : t \in 1..Len(vfTrust)} :
                      c.subject = vfCrl[i].issuer => SignedBy(vfCrl[i], c)

\* The callback hears of every certificate the verdict rests on, each at its depth, from
\* the top down to the peer's own, and of nothing after it has failed.
VfCallbackHearsAll ==
  vfRet # "none" /\ vfVeto # -2 =>
    LET n == Len(vfCalls)
    IN  /\ n > 0
        /\ \A k \in 1..(n - 1) : vfCalls[k][2] = vfCalls[k + 1][2] + 1
        /\ \A k \in 1..(n - 1) : vfCalls[k + 1][1].issuer = vfCalls[k][1].subject
        /\ vfRet # "veto" => vfCalls[n] = <<vfPeer[1], 0>>
        /\ vfRet = "veto" => vfCalls[n][2] = vfVeto
        /\ \A k \in 1..(n - 1) : vfCalls[k][2] # vfVeto

=============================================================================

------------------------------ MODULE X509Lists ------------------------------
(***************************************************************************)
(* The chained lists of x509parse.c: what files of certificates and of        *)
(* revocation lists leave in them.                                          *)
(*                                                                         *)
(* An element is Empty (version 0) or holds what was parsed; a list starts    *)
(* as one empty element.  An object of a file is good, cannot be parsed, or   *)
(* is PEM whose base64 text is spoilt; how objects are parsed is module       *)
(* X509Parse's.  x509_free and x509_crl_free empty the element they are called*)
(* for and give the elements behind it back.                                 *)
(***************************************************************************)
EXTENDS Integers, Sequences, SequencesExt, Binding

CONSTANTS
  XlFiles,       \* texts: [format, objects, rest]
  XlFolders,     \* folders: sequences of entries
  XlMaxCalls     \* calls made

VARIABLES
  xlCrts, xlCrls,\* the lists
  xlCalls        \* the calls made, with what they returned

xlVars == <<xlCrts, xlCrls, xlCalls>>

Empty == <<"empty">>
BadDer == <<"bad der">>
BadArmour == <<"bad armour">>
IsGood(object) == object \notin {BadDer, BadArmour}

NoObject == -1     \* POLARSSL_ERR_X509_CERT_UNKNOWN_FORMAT
DerError == -2     \* what a parser found
ArmourError == -3    \* what the PEM reader found
FileError == -4    \* POLARSSL_ERR_X509_FILE_IO_ERROR

\* The first empty element, which is appended where there is none.
FirstEmpty(chain) ==
  IF \E i \in DOMAIN chain : chain[i] = Empty
  THEN CHOOSE i \in DOMAIN chain : chain[i] = Empty /\ \A j \in 1..(i - 1) : chain[j] # Empty
  ELSE Len(chain) + 1

X509Free(chain, i) == SubSeq(chain, 1, i - 1) \o <<Empty>>
X509CrlFree(chain, i) == SubSeq(chain, 1, i - 1) \o <<Empty>>

-----------------------------------------------------------------------------
(* Certificates *)

\* x509parse_crt_der: one that cannot be parsed is unlinked unless it is the head.
CrtDer(chain, object) ==
  With(FirstEmpty(chain), LAMBDA i :
  LET freed == X509Free(chain, i) IN
    IF IsGood(object) THEN SubSeq(chain, 1, i - 1) \o <<object>>
    ELSE IF i > 1 THEN SubSeq(freed, 1, i - 1) ELSE freed)

\* One turn of x509parse_crt's loop over the PEM objects.
CrtTurn(s, object) ==
  LET fail(error) == IF s.first = 0 THEN error ELSE s.first
  IN  IF object = BadArmour THEN [s EXCEPT !.first = fail(ArmourError)]
      ELSE IF object = BadDer
           THEN [s EXCEPT !.chain = CrtDer(s.chain, object), !.first = fail(DerError),
                 !.failed = @ + 1]
      ELSE [s EXCEPT !.chain = CrtDer(s.chain, object), !.success = TRUE]

\* Other text behind the objects ends the loop without an error.
X509ParseCrt(chain, file) ==
  LET object == file.objects[1] IN
  With(FoldLeft(CrtTurn, [chain |-> chain, first |-> 0, failed |-> 0, success |-> FALSE],
                file.objects), LAMBDA all :
    IF file.format = "der"
    THEN [chain |-> CrtDer(chain, object), ret |-> IF IsGood(object) THEN 0 ELSE DerError]
    ELSE [chain |-> all.chain,
          ret |-> IF all.success THEN all.failed
                  ELSE IF all.first # 0 THEN all.first ELSE NoObject])

\* x509parse_crtpath: what is no regular file is passed over; one that is gone when it is
\* looked at ends the reading.
X509ParseCrtPath(chain, folder) ==
  LET turn(s, entry) ==
        IF s.over \/ entry.kind = "other" THEN s
        ELSE IF entry.kind = "gone" THEN [s EXCEPT !.over = TRUE, !.ret = FileError]
        ELSE With(X509ParseCrt(s.chain, entry.file), LAMBDA one :
               [s EXCEPT !.chain = one.chain, !.ret = @ + (IF one.ret < 0 THEN 1 ELSE one.ret)])
      all == FoldLeft(turn, [chain |-> chain, ret |-> 0, over |-> FALSE], folder)
  IN  [chain |-> all.chain, ret |-> all.ret]

-----------------------------------------------------------------------------
(* Revocation lists *)

\* The element the next revocation list goes into.
NextCrl(chain) == FirstEmpty(chain)

\* x509parse_crl calls itself for what follows, with an element already appended, and the
\* first error ends it; what a failure emptied stays in the list.
X509ParseCrl(chain, file) ==
  LET turn(s, object) ==
        LET i == NextCrl(s.chain)
            at == SubSeq(s.chain, 1, i - 1) \o <<Empty>>
        IN  IF s.ret # 0 THEN s
            ELSE IF object = BadArmour THEN [chain |-> at, ret |-> ArmourError]
            ELSE IF object = BadDer THEN [chain |-> X509CrlFree(at, i), ret |-> DerError]
            ELSE [chain |-> [at EXCEPT ![i] = object], ret |-> 0]
      \* Text without another object is taken for DER.
      objects == file.objects \o (IF file.format = "pem" /\ file.rest THEN <<BadDer>> ELSE << >>)
  IN  FoldLeft(turn, [chain |-> chain, ret |-> 0], objects)

-----------------------------------------------------------------------------

XlInit == xlCrts = <<Empty>> /\ xlCrls = <<Empty>> /\ xlCalls = << >>

Called(what, folder, ret) == xlCalls' = Append(xlCalls,
                                               [what |-> what, folder |-> folder, ret |-> ret])
OneFile(file) == <<[kind |-> "file", file |-> file]>>

ReadCrts(file) ==
  /\ Len(xlCalls) < XlMaxCalls
  /\ LET r == X509ParseCrt(xlCrts, file)
     IN  xlCrts' = r.chain /\ Called("crt", OneFile(file), r.ret)
  /\ UNCHANGED xlCrls

ReadCrtPath(folder) ==
  /\ Len(xlCalls) < XlMaxCalls
  /\ LET r == X509ParseCrtPath(xlCrts, folder)
     IN  xlCrts' = r.chain /\ Called("path", folder, r.ret)
  /\ UNCHANGED xlCrls

ReadCrls(file) ==
  /\ Len(xlCalls) < XlMaxCalls
  /\ LET r == X509ParseCrl(xlCrls, file)
     IN  xlCrls' = r.chain /\ Called("crl", OneFile(file), r.ret)
  /\ UNCHANGED xlCrts

XlNext ==
  \/ \E file \in XlFiles : ReadCrts(file) \/ ReadCrls(file)
  \/ \E folder \in XlFolders : ReadCrtPath(folder)

-----------------------------------------------------------------------------
(* Properties *)

\* The objects of the files a call reads.
FilesOf(folder) ==
  LET upTo == IF \E i \in DOMAIN folder : folder[i].kind = "gone"
              THEN SelectInSeq(folder, LAMBDA e : e.kind = "gone") - 1
              ELSE Len(folder)
  IN  SelectSeq(SubSeq(folder, 1, upTo), LAMBDA e : e.kind = "file")
ObjectsOf(folder) == FlattenSeq([i \in 1..Len(FilesOf(folder)) |-> FilesOf(folder)[i].file.objects])
Good(objects) == SelectSeq(objects, IsGood)
UpToBad(objects) ==
  LET i == SelectInSeq(objects, LAMBDA o : ~IsGood(o))
  IN  IF i = 0 THEN objects ELSE SubSeq(objects, 1, i - 1)
Calls(what) == SelectSeq(xlCalls, LAMBDA c : c.what \in what)
Together(calls, Of(_)) == FlattenSeq([i \in 1..Len(calls) |-> Of(calls[i].folder)])

\* After whatever files: the list holds the good certificates of all of them, in the order
\* they were read and nothing between them, whichever were spoilt; and a call that found a
\* good one says how many objects had DER that could not be parsed (those whose armour is
\* spoilt are passed over uncounted), one that found none says so.
XlAllCertificates ==
  LET calls == Calls({"crt", "path"})
      want == Together(calls, LAMBDA f : Good(ObjectsOf(f)))
  IN  /\ xlCrts = IF want = << >> THEN <<Empty>> ELSE want
      /\ \A i \in 1..Len(calls) : calls[i].what = "crt" =>
           LET objects == ObjectsOf(calls[i].folder)
           IN  IF Good(objects) = << >> THEN calls[i].ret < 0
               ELSE calls[i].ret = Len(SelectSeq(objects, LAMBDA o : o = BadDer))

\* The revocation lists in front of the first spoilt object of each file are all there, in
\* order; an empty element is only ever the last; and a call that returns 0 left none out.
XlAllRevocationLists ==
  LET calls == Calls({"crl"})
  IN  /\ SelectSeq(xlCrls, LAMBDA e : e # Empty) = Together(calls, LAMBDA f : UpToBad(ObjectsOf(f)))
      /\ \A i \in 1..(Len(xlCrls) - 1) : xlCrls[i] # Empty
      /\ \A i \in 1..Len(calls) :
           calls[i].ret = 0 => UpToBad(ObjectsOf(calls[i].folder)) = ObjectsOf(calls[i].folder)

=============================================================================

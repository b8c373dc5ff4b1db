---------------------------- MODULE Configuration ----------------------------
(***************************************************************************)
(* What a run of the PZP does with text (configuration.c, certificate.c,   *)
(* connect.c): it reads config.json, adds its own name, takes the subject  *)
(* of the certificate request from the list, composes the enrolment        *)
(* request, parses and prints it again, and parses what the peer replies.  *)
(* Every text goes through the parser of JsonText, which shares its memory.*)
(*                                                                         *)
(* checkConfiguration (module ConfigTree) is a behaviour of its own here.  *)
(***************************************************************************)
EXTENDS JsonText, ConfigTree

CONSTANTS
  Configs,   \* config.json: text, and the list a reader takes it for
  Csrs,      \* pzp_csr as readFile returns it
  Machines,  \* the peer's name, from findPzp
  Replies,   \* what the peer may send, as text and meaning
  Device     \* the node name

Unknown == <<Item(<<"?">>, <<>>, <<>>)>>   \* the meaning of a text that has none

\* The words of the source, short and with their differences.
CommonName == <<"c", "n">>
OrgUnit == <<"o", "u">>
FriendlyKey == <<"f", "n">>
TypeKey == <<"t", "y", "p", "e">>
FromKey == <<"f", "r">>
ToKey == <<"t", "o">>
PayloadKey == <<"p", "l">>
MessageKey == <<"m", "s">>
CsrKey == <<"c", "s", "r">>
Prop == <<"p", "r">>
Enrol == <<"e", "n">>
Signed == <<"s", "g">>

VARIABLES
  phase,   \* the function that comes next, or whose text is being parsed
  input,   \* config.json, pzp_csr, the peer's name and its reply
  means,   \* the list that the text being parsed was written for
  config,  \* initializePzp's list
  subject, \* the request's subject
  given,   \* the values of the enrolment request
  wire,    \* the text for ssl_write
  save     \* will certificate.json be written?

messageVars == <<phase, input, means, config, subject, given, wire, save>>
vars == <<textVars, messageVars, treeVars>>

-----------------------------------------------------------------------------
(* The texts of a run *)

\* parseJSON has returned.
Parsed == status = "done"

ReadConfig ==
  /\ phase = "readConfig" /\ status = "idle"
  /\ Parse(input.config.text, <<>>)
  /\ means' = input.config.means
  /\ UNCHANGED <<phase, input, config, subject, given, wire, save>>
  /\ UNCHANGED treeVars

AddItem ==
  /\ phase = "readConfig" /\ Parsed
  /\ phase' = "addItem"
  /\ Parse(AddItemText(CommonName, Device), parsed)
  /\ means' = Append(parsed, Item(CommonName, Device, <<>>))
  /\ UNCHANGED <<input, config, subject, given, wire, save>>
  /\ UNCHANGED treeVars

SubjectKeys == {CommonName, OrgUnit}

Dies ==
  /\ status' = "died"
  /\ UNCHANGED <<stack, parsed, skipped, spoiled>>
  /\ UNCHANGED messageVars
  /\ UNCHANGED treeVars

\* The subject is what the list has at its top; an item without key is read
\* through, and the last name's next is not set.
GenerateCertificateRequest ==
  /\ phase = "addItem" /\ Parsed
  /\ \A i \in 1..Len(parsed) : parsed[i].key # <<>>
  /\ config' = parsed
  /\ subject' = SelectSeq(parsed, LAMBDA e : e.key \in SubjectKeys /\ e.str # <<>>)
  /\ phase' = "friendlyName"
  /\ Parse(input.config.text, <<>>)      \* getFriendlyName reads it once more
  /\ means' = input.config.means
  /\ UNCHANGED <<input, given, wire, save>>
  /\ UNCHANGED treeVars

SubjectDies ==
  /\ phase = "addItem" /\ Parsed
  /\ \/ \E i \in 1..Len(parsed) : parsed[i].key = <<>>
     \/ \E i \in 1..Len(parsed) : parsed[i].key \in SubjectKeys
  /\ Dies

\* getFriendlyName's loop: where it stops, past the last item when it does not.
FriendlyAt(list) ==
  LET stops == {i \in 1..Len(list) : list[i].key \in {FriendlyKey, <<>>}}
  IN  IF stops = {} THEN Len(list) + 1 ELSE Min(stops)

FriendlyName(list) ==
  LET i == FriendlyAt(list) IN IF i > Len(list) THEN Null ELSE list[i].str

FriendlyNameDies ==
  /\ phase = "friendlyName" /\ Parsed
  /\ FriendlyName(parsed) = <<>> \/ LET i == FriendlyAt(parsed)
                                     IN i <= Len(parsed) /\ parsed[i].key = <<>>
  /\ Dies

\* The text of the enrolment request.
RequestText(g) ==
  LET head == CreateJSONString(<<>>, <<"{">> \o TypeKey, Prop)
      from == CreateJSONString(head, FromKey, g.from)
      to == CreateJSONString(from, ToKey, g.to)
      payload == CreateJSONString(to, PayloadKey, <<"{">>)
      type == CreateJSONString(payload, TypeKey, Enrol)
      message == CreateJSONString(type, MessageKey, <<"{">>)
      csr == CreateJSONString(message, CsrKey, g.csr)
      friendly == CreateJSONString(csr, FriendlyKey, g.friendly)
  IN  CreateJSONString(friendly, <<"}", "}", "}">>, Null)

EscapedText(s) == FlattenSeq([i \in 1..Len(s) |-> Escaped(s[i])])

\* What it is meant to say.
RequestMeans(g) ==
  LET message == <<Item(CsrKey, EscapedText(g.csr), <<>>),
                   Item(FriendlyKey, g.friendly, <<>>)>>
      payload == <<Item(TypeKey, Enrol, <<>>), Item(MessageKey, <<>>, message)>>
  IN  <<Item(TypeKey, Prop, <<>>), Item(FromKey, g.from, <<>>),
        Item(ToKey, g.to, <<>>), Item(PayloadKey, <<>>, payload)>>

\* A value that the request can carry.
Plain(s) ==
  /\ s # Null /\ Len(s) > 1 /\ Head(s) \notin White \cup {"{", "["}
  /\ \A i \in 1..Len(s) : s[i] \notin ValueEnds \cup {"\""}

Complete(g) == Plain(g.from) /\ Plain(g.to) /\ Plain(g.csr) /\ Plain(g.friendly)

Compose ==
  /\ phase = "friendlyName" /\ Parsed
  /\ FriendlyAt(parsed) <= Len(parsed) => /\ parsed[FriendlyAt(parsed)].key # <<>>
                                          /\ FriendlyName(parsed) # <<>>
  /\ phase' = "compose"
  /\ LET g == [from |-> Device, to |-> input.to, csr |-> input.csr,
               friendly |-> FriendlyName(parsed)]
     IN  /\ given' = g
         /\ Parse(RequestText(g), <<>>)
         /\ means' = IF Complete(g) THEN RequestMeans(g) ELSE Unknown
  /\ UNCHANGED <<input, config, subject, wire, save>>
  /\ UNCHANGED treeVars

\* The request is printed for the wire, and the peer's reply is parsed.
Stringify ==
  /\ phase = "compose" /\ Parsed
  /\ parsed # <<>>
  /\ phase' = "reply"
  /\ wire' = StringifyJSON(parsed)
  /\ Parse(input.reply.text, <<>>)
  /\ means' = input.reply.means
  /\ UNCHANGED <<input, config, subject, given, save>>
  /\ UNCHANGED treeVars

HandleReply ==
  /\ phase = "reply" /\ Parsed
  /\ phase' = "end"
  /\ save' = CheckMessageType(parsed, Signed)
  /\ status' = "idle"
  /\ UNCHANGED <<stack, parsed, skipped, spoiled>>
  /\ UNCHANGED <<input, means, config, subject, given, wire>>
  /\ UNCHANGED treeVars

ParseMessage == TextNext /\ UNCHANGED <<messageVars, treeVars>>

-----------------------------------------------------------------------------
Inputs == [config : Configs, csr : Csrs, to : Machines, reply : Replies]

Init ==
  /\ TextInit
  /\ input \in Inputs
  /\ phase \in {"readConfig", "check"}
  /\ phase = "check" => input = CHOOSE i \in Inputs : TRUE
  /\ means = Unknown /\ config = <<>> /\ subject = <<>> /\ wire = <<>>
  /\ given = [from |-> Null, to |-> Null, csr |-> Null, friendly |-> Null]
  /\ save = FALSE
  /\ TreeInit

Enrolling == \/ ParseMessage \/ ReadConfig \/ AddItem \/ GenerateCertificateRequest
             \/ SubjectDies \/ FriendlyNameDies \/ Compose \/ Stringify \/ HandleReply

\* A behaviour is either a run with its texts or one of checkConfiguration.
Next == \/ phase # "check" /\ Enrolling
        \/ phase = "check" /\ TreeNext /\ UNCHANGED <<textVars, messageVars>>

Spec == Init /\ [][Next]_vars

\* The parser waits for nobody: weak fairness of ParseMessage, with "parsing" for
\* ENABLED, as every step of the parser changes stack or status.
FairSpec == Spec /\ ([]<>(status # "parsing") \/ []<><<ParseMessage>>_vars)

-----------------------------------------------------------------------------
(* Properties *)

\* The parser reads a text as its writer meant it (parseJSON, findKey and findValue
\* with addItem, createJSONString and a peer's JSON as writers), as long as no buffer
\* was overrun beyond its chunk and no stray read skipped more than one character.
\* The enrolment request needs no such luck: with all its values given, no read of
\* removeStartingWhiteSpaces or findValue leaves the text createJSONString made.
ParsedAsMeant ==
  /\ Parsed /\ ~spoiled /\ skipped <= 2 /\ means # Unknown => parsed = means
  /\ phase = "compose" /\ Complete(given) => skipped = 0 /\ status # "undefined"

\* JSON as its grammar has it, of a list in which every item has a value.
RECURSIVE Standard(_)
Standard(list) ==
  LET member(e) == Quoted(e.key) \o <<":">> \o
                   (IF e.object = <<>> THEN Quoted(e.str) ELSE Standard(e.object))
      rest[i \in 1..Len(list)] ==
        IF i = Len(list) THEN member(list[i]) \o <<"}">>
        ELSE member(list[i]) \o <<",">> \o rest[i + 1]
  IN  <<"{">> \o rest[1]

\* What goes to the peer is JSON that says what the run was given: composing,
\* parsing and stringifyJSON lose and add nothing.
WireIsMeant ==
  phase \in {"reply", "end"} /\ ~spoiled /\ Complete(given) =>
    wire = Standard(RequestMeans(given))

RECURSIVE Strings(_)
Strings(list) == {list[i].str : i \in 1..Len(list)} \cup
                 UNION {Strings(list[i].object) : i \in 1..Len(list)}

\* certificate.json is written for a reply that says it is the certificate, however
\* deep, and for no other (checkMessageType on what parseJSON has made of it).
SavesTheCertificate ==
  phase = "end" /\ ~spoiled /\ skipped <= 2 /\ input.reply.means # Unknown =>
    (save <=> Signed \in Strings(input.reply.means))

\* A text that ends with a closing brace, a bracket or a comma is parsed in
\* finitely many rounds, whatever the stray reads return, or ends the program.
ParseEnds ==
  (/\ status = "parsing" /\ Len(stack) = 1 /\ Top.at = "item"
   /\ stack[1].rest # <<>> /\ Last(stack[1].rest) \in ValueEnds)
  ~> status # "parsing"
=============================================================================

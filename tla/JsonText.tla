------------------------------- MODULE JsonText -------------------------------
(***************************************************************************)
(* The JSON handler (json.c): texts are sequences of characters, parsed    *)
(* values are lists of items.  parseJSON is a state machine, an item at a  *)
(* time, because what it reads beyond its own memory may be anything:      *)
(* removeStartingWhiteSpaces looks behind the caller's pointer as soon as  *)
(* the text starts with white space, and findKey and findValue size their  *)
(* buffers by another delimiter than the one that ends their loops.        *)
(***************************************************************************)
EXTENDS Naturals, Sequences, SequencesExt

CONSTANTS
  MaxSkip,   \* bound: how many characters a stray read may skip
  MaxDepth,  \* bound: nested calls of parseJSON that the stack has room for
  MinChunk,  \* the least that malloc hands out, and the step in which
  Granule    \* it hands out more: an overrun inside does no harm

ASSUME TextAssumption ==
  /\ MaxSkip \in Nat
  /\ {MaxDepth, MinChunk, Granule} \subseteq Nat \ {0}

VARIABLES
  stack,   \* the calls of parseJSON: the text left, the items so far, the key
           \* of the next one, and what is to be read
  status,  \* "idle", "parsing", "done", "died", or "undefined" behind the text
  parsed,  \* the list, once status is "done"
  skipped, \* the most that a stray read of this parse has skipped, + 1; 0 when
           \* there was none
  spoiled  \* a buffer was overrun beyond what malloc handed out

textVars == <<stack, status, parsed, skipped, spoiled>>

Null == <<"NULL">>                        \* a NULL argument, which is not ""
White == {" ", "\"", "\n", "\t", ","}     \* removeStartingWhiteSpaces
Delimiters == {"}", "]", ",", ":"}        \* calculateLength
ValueEnds == {"}", "]", ","}              \* findValue
KeyIgnores == White \cup {"{", "["}       \* findKey

Item(key, str, object) == [key |-> key, str |-> str, object |-> object]

\* Where the first character of S is, 0 when there is none.
First(t, S) == SelectInSeq(t, LAMBDA ch : ch \in S)
After(t, n) == SubSeq(t, n + 1, Len(t))
UpTo(t, n) == IF n = 0 THEN t ELSE SubSeq(t, 1, n - 1)

CalculateLength(t) == LET d == First(t, Delimiters) IN IF d = 0 THEN Len(t) ELSE d

Spoils(size, written) ==
  /\ written > MinChunk
  /\ written > Granule * ((size + Granule - 1) \div Granule)

\* How far *str moves: the loop goes on with the memory behind the pointer, and
\* does not move it at all when a zero is there.
Skips(t) ==
  IF t # <<>> /\ Head(t) \in White
  THEN {n \in 0..MaxSkip : n <= Len(t)} ELSE {0}
Luck(t, n) == IF t # <<>> /\ Head(t) \in White THEN n + 1 ELSE 0

\* Keys and values of one character are dropped.
Kept(s) == IF Len(s) > 1 THEN s ELSE <<>>

\* Defect: a key is whatever stands before the colon.
FindKeyVerbatim(t) ==
  LET colon == First(t, {":"})
      name == UpTo(t, colon)
  IN  [key |-> IF colon = 0 THEN <<>> ELSE Kept(name), rest |-> After(t, colon),
       spoils |-> FALSE]

FindKey(t) ==
  LET colon == First(t, {":"})
      name == SelectSeq(UpTo(t, colon), LAMBDA ch : ch \notin KeyIgnores)
  IN  [key    |-> IF colon = 0 THEN <<>> ELSE Kept(name),
       rest   |-> After(t, colon),
       spoils |-> Spoils(CalculateLength(t) + 1,
                         Len(name) + IF colon = 0 THEN 0 ELSE 1)]

Escaped(ch) == CASE ch = "\n" -> <<"\\", "n">>
                 [] ch = "\t" -> <<"\\", "t">>
                 [] ch = "\"" -> <<>>
                 [] OTHER -> <<ch>>

\* Defect: the delimiter is left where it is.
FindStringShort(t, from) ==
  LET end == First(from, ValueEnds)
      text == FlattenSeq([i \in 1..Len(UpTo(from, end)) |-> Escaped(from[i])])
  IN  [str |-> IF end = 0 THEN <<>> ELSE Kept(text),
       rest |-> After(t, IF end = 0 THEN 0 ELSE end - 1), spoils |-> FALSE]

\* findValue of a string in t.  It is read from another place, from, behind "{}".
FindString(t, from) ==
  LET end == First(from, ValueEnds)
      text == FlattenSeq([i \in 1..Len(UpTo(from, end)) |-> Escaped(from[i])])
  IN  [str    |-> IF end = 0 THEN <<>> ELSE Kept(text),
       rest   |-> After(t, end),
       spoils |-> Spoils(CalculateLength(from) + 1,
                         Len(text) + IF end = 0 THEN 0 ELSE 1)]

Opens(t) == t # <<>> /\ Head(t) \in {"{", "["}
Closing(t) == First(t, {IF Head(t) = "{" THEN "}" ELSE "]"})

Top == Last(stack)
Frame(rest, out, key, at) == [rest |-> rest, out |-> out, key |-> key, at |-> at]
Become(f) == stack' = Front(stack) \o <<f>>

\* A call of parseJSON with an existing list.
Parse(text, list) ==
  /\ stack' = <<Frame(text, list, <<>>, "item")>>
  /\ status' = "parsing"
  /\ skipped' = 0
  /\ UNCHANGED <<parsed, spoiled>>

\* removeStartingWhiteSpaces of the text left, with what comes of it.
Skip(n) ==
  /\ n \in Skips(Top.rest)
  /\ skipped' = Max({skipped, Luck(Top.rest, n)})

\* parseJSON's loop: a value without key when the text starts with a bracket.
ParseItem ==
  /\ status = "parsing" /\ Top.at = "item" /\ Top.rest # <<>>
  /\ \E n \in 0..MaxSkip :
       /\ Skip(n)
       /\ LET t == After(Top.rest, n)
          IN  Become(Frame(t, Top.out, <<>>,
                IF t # <<>> /\ Head(t) = "[" THEN "value" ELSE "key"))
  /\ UNCHANGED <<status, parsed, spoiled>>

ParseKey ==
  /\ status = "parsing" /\ Top.at = "key"
  /\ \E n \in 0..MaxSkip :
       /\ Skip(n)
       /\ LET k == FindKey(After(Top.rest, n))
          IN  /\ Become(Frame(k.rest, Top.out, k.key, "value"))
              /\ spoiled' = (spoiled \/ k.spoils)
  /\ UNCHANGED <<status, parsed>>

\* An object ends at the first brace that closes anything.
OpenObject(t) ==
  /\ Opens(t) /\ Closing(t) > 2
  /\ IF Len(stack) = MaxDepth
     THEN status' = "died" /\ UNCHANGED stack
     ELSE /\ stack' = Append(Front(stack) \o
                         <<Frame(After(t, Closing(t)), Top.out, Top.key, "object")>>,
                         Frame(SubSeq(t, 1, Closing(t)), <<>>, <<>>, "item"))
          /\ UNCHANGED status
  /\ UNCHANGED spoiled

\* Without such a brace the search goes on behind the text.
RunAway(t) ==
  /\ Opens(t) /\ Closing(t) = 0
  /\ status' = "undefined"
  /\ UNCHANGED <<stack, spoiled>>

ReadString(t) ==
  /\ ~Opens(t) \/ Closing(t) \in {1, 2}
  /\ LET v == FindString(t, IF Opens(t) THEN After(t, Closing(t)) ELSE t)
     IN  /\ Become(Frame(v.rest,
                IF Top.key = <<>> /\ v.str = <<>> THEN Top.out
                ELSE Append(Top.out, Item(Top.key, v.str, <<>>)), <<>>, "item"))
         /\ spoiled' = (spoiled \/ v.spoils)
  /\ UNCHANGED status

\* findValue.  A round of the loop that has moved nothing is repeated for ever.
ParseValue ==
  /\ status = "parsing" /\ Top.at = "value"
  /\ \E n \in 0..MaxSkip :
       /\ Skip(n)
       /\ LET t == After(Top.rest, n) IN OpenObject(t) \/ RunAway(t) \/ ReadString(t)
  /\ UNCHANGED parsed

\* A nested call returns: its list becomes the object of the item, which is
\* dropped when it has no key.
ParseReturns ==
  /\ status = "parsing" /\ Top.at = "item" /\ Top.rest = <<>> /\ Len(stack) > 1
  /\ LET below == stack[Len(stack) - 1]
     IN  stack' = SubSeq(stack, 1, Len(stack) - 2) \o
           <<Frame(below.rest,
                   IF below.key = <<>> THEN below.out
                   ELSE Append(below.out, Item(below.key, <<>>, Top.out)), <<>>, "item")>>
  /\ UNCHANGED <<status, parsed, skipped, spoiled>>

ParseDone ==
  /\ status = "parsing" /\ Top.at = "item" /\ Top.rest = <<>> /\ Len(stack) = 1
  /\ status' = "done"
  /\ parsed' = Top.out
  /\ stack' = <<>>
  /\ UNCHANGED <<skipped, spoiled>>

\* The heap is damaged, or a stray read follows what is no pointer.
ParseDies ==
  /\ status = "parsing"
  /\ spoiled \/ (Top.rest # <<>> /\ Head(Top.rest) \in White)
  /\ status' = "died"
  /\ UNCHANGED <<stack, parsed, skipped, spoiled>>

-----------------------------------------------------------------------------
(* The other functions *)

\* A brace at the end of the text is overwritten.
CreateJSONString(buf, key, name) ==
  (IF buf # <<>> /\ Last(buf) = "{" THEN Front(buf) ELSE buf) \o key \o
  (IF name = Null THEN <<>> ELSE <<":">> \o name \o <<",">>)

AddItemText(key, name) == <<"{">> \o key \o <<":">> \o name \o <<"}">>

Quoted(s) == <<"\"">> \o s \o <<"\"">>

\* Defect: a comma behind the last item as well.
RECURSIVE StringifyLateComma(_)
StringifyLateComma(list) ==
  <<"{">> \o
  FlattenSeq([i \in 1..Len(list) |->
    LET e == list[i]
    IN  Quoted(e.key) \o <<":">> \o
        (IF e.object # <<>> THEN StringifyLateComma(e.object) ELSE Quoted(e.str)) \o
        <<",">>])
  \o <<"}">>

\* stringifyJSON of a list that is not empty.
RECURSIVE StringifyJSON(_)
StringifyJSON(list) ==
  LET named == Head(list).key # <<>>
      comma(i) == IF i < Len(list) THEN <<",">> ELSE <<>>
      text(e) == (IF e.key = <<>> THEN <<>> ELSE Quoted(e.key)) \o
                 (IF e.key # <<>> /\ e.str # <<>> THEN <<":">> ELSE <<>>) \o
                 (IF e.str = <<>> THEN <<>> ELSE Quoted(e.str))
      object(e) == IF e.object = <<>> THEN <<>>
                   ELSE <<":">> \o StringifyJSON(e.object)
  IN  <<IF named THEN "{" ELSE "[">> \o
      FlattenSeq([i \in 1..Len(list) |->
                    text(list[i]) \o object(list[i]) \o comma(i)]) \o
      <<IF named THEN "}" ELSE "]">>

\* Defect: objects are not looked into.
CheckMessageTypeTop(list, word) == \E i \in 1..Len(list) : list[i].str = word

RECURSIVE CheckMessageType(_, _)
CheckMessageType(list, word) ==
  \E i \in 1..Len(list) :
    list[i].str = word \/ CheckMessageType(list[i].object, word)

\* Init and the steps of one parse.
TextInit ==
  /\ stack = <<>> /\ status = "idle" /\ parsed = <<>>
  /\ skipped = 0 /\ spoiled = FALSE

TextNext == ParseItem \/ ParseKey \/ ParseValue \/ ParseReturns \/ ParseDone \/ ParseDies
=============================================================================

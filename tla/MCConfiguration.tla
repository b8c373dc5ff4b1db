--------------------------- MODULE MCConfiguration ---------------------------
(* Small texts for Configuration: a list of meanings, each written as the      *)
(* program's own functions, a compact or a spaced writer of JSON does.         *)
EXTENDS Configuration

RECURSIVE Bare(_)
Bare(list) ==
  <<"{">> \o FlattenSeq([i \in 1..Len(list) |->
     list[i].key \o <<":">> \o
     (IF list[i].object = <<>> THEN list[i].str ELSE Bare(list[i].object)) \o
     (IF i < Len(list) THEN <<",">> ELSE <<>>)]) \o <<"}">>

\* A space behind each comma and a newline behind the brace.
Spaced(list) ==
  <<"{", "\n">> \o FlattenSeq([i \in 1..Len(list) |->
     Quoted(list[i].key) \o <<":">> \o Quoted(list[i].str) \o
     (IF i < Len(list) THEN <<",", " ">> ELSE <<>>)]) \o <<"\n", "}">>

Flat == <<Item(OrgUnit, <<"w", "p">>, <<>>), Item(FriendlyKey, <<"m", "y">>, <<>>)>>
Nested == <<Item(<<"c", "c">>, <<>>, <<Item(OrgUnit, <<"w", "p">>, <<>>)>>),
            Item(FriendlyKey, <<"m", "y">>, <<>>)>>

Text(text, list) == [text |-> text, means |-> list]

MCDevice == <<"d", "v">>

\* Compact, bare and spaced files, an empty one, one without the friendly name,
\* with a one-letter value, with an array, with a missing brace, with a last newline.
MCConfigs ==
  {Text(Standard(Flat), Flat), Text(Bare(Flat), Flat), Text(Standard(Nested), Nested),
   Text(Spaced(Flat), Unknown), Text(<<>>, <<>>),
   Text(Standard(Tail(Nested)) \o <<"\n">>, Unknown),
   Text(Standard(<<Head(Flat)>>), <<Head(Flat)>>),
   Text(Bare(<<Item(FriendlyKey, <<"m">>, <<>>)>>), Unknown),
   Text(<<"{", "a", "b", ":", "[", "m", "y", "]", "}">>, Unknown),
   Text(<<"{", "c", "c", ":", "{", "m", "y">>, Unknown)}

\* No file, an empty one, a request on one line, and one on several.
MCCsrs == {Null, <<>>, <<"-", "x", "\n", "y", "-">>,
           <<"-", "\n", "x", "\n", "x", "\n", "x", "\n", "x", "\n", "x", "\n", "-">>}

MCMachines == {<<"h", "u">>, <<"h">>}

Reply(type) ==
  LET list == <<Item(TypeKey, Prop, <<>>),
                Item(PayloadKey, <<>>, <<Item(TypeKey, type, <<>>),
                  Item(MessageKey, <<>>, <<Item(CsrKey, <<"x", "y">>, <<>>)>>)>>)>>
  IN  Text(Standard(list), list)

MCReplies == {Reply(Signed), Reply(Prop), Text(SubSeq(Reply(Signed).text, 1, 20), Unknown)}
=============================================================================

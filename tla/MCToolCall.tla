----------------------------- MODULE MCToolCall -----------------------------
(* Command lines: of every capability one with what is required, and each  *)
(* line that differs from it in one flag.                                  *)
EXTENDS ToolCall

Word(text) == [text |-> text, as |-> [t \in {} |-> 0]]
Meaning(text, type, v) == [text |-> text, as |-> [t \in {type} |-> v]]

Strings == {<<>>, <<1>>, <<1, 2, 7>>, <<2, 1, 1, 1, 1>>}
Ints == {1, -1, 63, -64}
Lists(S) == {<<>>} \cup {<<s, <<>>, s>> : s \in S}

ValuesOf == [string |-> {<<>>, <<1>>, <<1, 7, 3, 1, 2>>}, int |-> {1, -1}, bool |-> {TRUE, FALSE},
             bytes |-> {<<>>, <<1, 7>>}] @@
  ("list<string>" :> {<< <<1>>, <<>> >>}) @@
  ("list<list<string>>" :> Lists({<< <<1>>, <<7, 2>> >>}))

GoodWord(f) ==
  CASE f.type = "string" -> Word(<<1>>)
    [] f.type = "int" -> Meaning(<<5>>, "int", 5)
    [] f.type = "bool" -> Meaning(<<1>>, "bool", TRUE)
    [] OTHER -> Meaning(<<6>>, f.type, <<>>)

WordsFor(c, f) ==
  CASE f.type = "string" ->
         {Word(s) : s \in Strings} \cup
         IF f.name = "path" /\ Info(c) = Filesystem_File_Write THEN {Word(<<3>>), Word(<<4>>)}
         ELSE IF f.name = "url" /\ Info(c) = Browser_Page_Read THEN {Word(<<2>>), Word(Ones(45))}
         ELSE {}
    [] f.type = "int" ->
         {Meaning(<<5, 1>>, "int", n) :
            n \in IF Info(c) = Browser_Page_Read THEN -(2 ^ (Width - 1))..(2 ^ (Width - 1) - 1)
                  ELSE Ints}
         \cup {Word(<<1>>)}
    [] f.type = "bool" -> {Meaning(<<2>>, "bool", FALSE), Word(<<1, 1>>)}
    [] f.type = "list<list<string>>" ->
         {Meaning(<<6, 1>>, f.type, v) : v \in Lists({<< <<1>>, <<1, 2, 3, 0, 1>> >>})} \cup {Word(<<1>>)}
    [] OTHER -> {Meaning(<<6, 1>>, f.type, v) : v \in Lists({<<1, 2, 3, 0, 1>>})} \cup {Word(<<1>>)}

Flag(n, w) == [flag |-> n, word |-> w]
Bare(n) == [flag |-> n]
Plain(w) == [word |-> w]
Base_(c) ==
  LET required == SelectSeq(Info(c).args, LAMBDA f : f.required) IN
  [i \in DOMAIN required |-> Flag(required[i].name, GoodWord(required[i]))]
Without(c, n) == SelectSeq(Base_(c), LAMBDA t : t.flag # n)

ArgvOf(c) ==
  LET fields == {Info(c).args[i] : i \in DOMAIN Info(c).args} IN
  {Base_(c), Append(Base_(c), Bare("")), Append(Base_(c), Bare("bogus")), Append(Base_(c), Plain(Word(<<1>>)))}
  \cup UNION {{Without(c, f.name), Append(Without(c, f.name), Bare(f.name))} : f \in fields}
  \cup UNION {{Append(Base_(c), Flag(f.name, w)) : w \in WordsFor(c, f)} : f \in fields}
  \cup UNION {{Base_(c) \o <<Bare(f.name), Plain(w)>> : w \in WordsFor(c, f)} : f \in {g \in fields : g.type = "bool"}}

MCBytes == {
  <<0, 0, 0>>,                                       (* no name             *)
  <<2, 1>>,                                          (* cut off             *)
  <<2, 0, 0, 0, 7, 7, 7, 1>>,                        (* a length no array has, *)
  <<2>> \o Text(20) \o <<0, 3, 4, 5, 3>>,            (* also of a list, 52     *)
  <<2, 0, 0, 0, 0>>,                                 (* no such capability  *)
  <<2>> \o Text(4) \o <<0, 2, 1, 1>>,                (* missing fields      *)
  <<2>> \o Text(4) \o <<0, 5, 1, 1, 1, 0, 0, 0>>} (* a field too many    *)

MCCalls ==
  UNION {{[by |-> "capwrap", cap |-> c, argv |-> a] : a \in ArgvOf(c)} : c \in Capability}
  \cup {[by |-> "capwrap", cap |-> 0, argv |-> <<>>]}
  \cup {[by |-> "help", cap |-> c] : c \in {0, 1, 4}}
  \cup {[by |-> "other", bytes |-> b] : b \in MCBytes}

MCScope == [root |-> "dir", domains |-> {<<1>>}, suffixes |-> {<<2, 1>>}, paths |-> {<<1>>}]
MCGrants == {None, MCScope, [MCScope EXCEPT !.root = ""], [MCScope EXCEPT !.root = "/", !.paths = {}]}
MCRegistered == Capability \ {1}
MCPageTexts == {<<>>, <<1, 7, 2>>, Ones(60)}
MCLinks == (<<1>> :> [host |-> <<1>>, path |-> <<1, 2>>]) @@
           (<<1, 2, 3, 3, 3>> :> [host |-> <<3, 2, 1>>, path |-> <<2>>]) @@
           (<<2, 1, 1, 1, 1>> :> [host |-> <<3, 3>>, path |-> <<1>>])
MCAbsolute == {<<3>>}
MCUpward == {<<4>>}
MCIllFormed == {7}
MCReplacement == <<3, 3, 3>>
=============================================================================

--------------------------- MODULE ConfigurationText ---------------------------
(***************************************************************************)
(* The text of default.json, token by token: what is written for a JSON    *)
(* value, and what is read of a beginning of those tokens.                 *)
(*                                                                         *)
(* The parser fills its value in place, and nobody asks whether it failed: *)
(* a file that ends early is read as far as it goes.                       *)
(***************************************************************************)
EXTENDS ConfigurationJson, TLC

-----------------------------------------------------------------------------
(* The serialiser                                                          *)

\* A text, a number or a literal is two tokens: the file may end inside it.
Atom(value) == <<<<"part", value>>, <<"rest", value>>>>
Sign(c) == <<<<c, c>>>>
Separated(pieces) ==
    FlattenSeq([i \in DOMAIN pieces |-> IF i = 1 THEN pieces[i] ELSE Sign(",") \o pieces[i]])

RECURSIVE Serialize(_)
Serialize(value) ==
    CASE value[1] = "array" ->
            Sign("[") \o Separated([i \in DOMAIN value[2] |-> Serialize(value[2][i])]) \o Sign("]")
      [] value[1] = "object" ->
            LET keys == SelectSeq(Keys, LAMBDA key : key \in DOMAIN value[2])
                Member(key) == Atom(Text(key)) \o Sign(":") \o Serialize(value[2][key])
            IN Sign("{") \o Separated([i \in DOMAIN keys |-> Member(keys[i])]) \o Sign("}")
      [] OTHER -> Atom(value)

-----------------------------------------------------------------------------
(* The parser: what it makes of the tokens from i on, whether it succeeds, *)
(* and where it stops.                                                     *)

Parsed(ok, value, at) == [ok |-> ok, value |-> value, at |-> at]
Getc(tokens, i) == IF i \in DOMAIN tokens THEN tokens[i] ELSE <<"end", "end">>
Expect(tokens, i, c) == Getc(tokens, i)[1] = c

\* A text keeps the characters there are; one that stops inside an escape
\* those before it.
ParseText(tokens, i) ==
    IF Expect(tokens, i + 1, "rest") THEN Parsed(TRUE, tokens[i][2], i + 2)
    ELSE Parsed(FALSE, Text(Cut), i + 1)

\* A number of two digits keeps its first; of one digit there is none.
ParseNumber(tokens, i) ==
    LET n == tokens[i][2][2]
    IN CASE Expect(tokens, i + 1, "rest") -> Parsed(TRUE, Number(n), i + 2)
         [] n >= 10 -> Parsed(TRUE, Number(n \div 10), i + 1)
         [] OTHER -> Parsed(FALSE, Null, i + 1)

\* A literal is there as a whole or not at all.
ParseLiteral(tokens, i) ==
    IF Expect(tokens, i + 1, "rest") THEN Parsed(TRUE, tokens[i][2], i + 2)
    ELSE Parsed(FALSE, Null, i + 1)

ParseAtom(tokens, i) ==
    CASE tokens[i][2][1] = "string" -> ParseText(tokens, i)
      [] tokens[i][2][1] = "number" -> ParseNumber(tokens, i)
      [] OTHER -> ParseLiteral(tokens, i)

RECURSIVE Parse(_, _), ParseItems(_, _, _), ParseMembers(_, _, _)
Parse(tokens, i) ==
    CASE Expect(tokens, i, "part") -> ParseAtom(tokens, i)
      [] Expect(tokens, i, "[") ->
            IF Expect(tokens, i + 1, "]") THEN Parsed(TRUE, Array(<<>>), i + 2)
            ELSE ParseItems(tokens, i + 1, <<>>)
      [] Expect(tokens, i, "{") ->
            IF Expect(tokens, i + 1, "}") THEN Parsed(TRUE, Object(<<>>), i + 2)
            ELSE ParseMembers(tokens, i + 1, <<>>)
      [] OTHER -> Parsed(FALSE, Null, i)

\* The item is there before it is parsed, and stays when that fails.
ParseItems(tokens, i, items) ==
    LET item == Parse(tokens, i)
        grown == Append(items, item.value)
    IN IF item.ok /\ Expect(tokens, item.at, ",") THEN ParseItems(tokens, item.at + 1, grown)
       ELSE Parsed(item.ok /\ Expect(tokens, item.at, "]"), Array(grown), item.at + 1)

ParseMembers(tokens, i, members) ==
    IF ~Expect(tokens, i, "part") THEN Parsed(FALSE, Object(members), i)
    ELSE LET key == ParseText(tokens, i)
             member == Parse(tokens, key.at + 1)
             grown == (key.value[2] :> member.value) @@ members
         IN CASE ~key.ok \/ ~Expect(tokens, key.at, ":") ->
                    Parsed(FALSE, Object(members), key.at)
              [] member.ok /\ Expect(tokens, member.at, ",") ->
                    ParseMembers(tokens, member.at + 1, grown)
              [] OTHER ->
                    Parsed(member.ok /\ Expect(tokens, member.at, "}"), Object(grown),
                           member.at + 1)

\* The stream's operator >> fails with the parser, and leaves what was read.
ReadValue(tokens) == Parse(tokens, 1).value

=============================================================================

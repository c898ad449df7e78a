---------------------------- MODULE Environment ----------------------------
(***************************************************************************)
(* Variables and their substitution in the scalars of a Compose file:      *)
(* crates/susun-loader, environment/ and interpolation/.                   *)
(*                                                                         *)
(* A text is a sequence of symbols.  The characters the code looks for are *)
(* symbols of their own; any other symbol is a run of other characters,    *)
(* and stands for a variable's name if it is one of Identifiers.           *)
(***************************************************************************)
EXTENDS Sequences, Naturals, FiniteSetsExt

CONSTANTS
  Identifiers,  \* symbols of the form [A-Za-z_][A-Za-z0-9_]*
  Absent        \* Option::None

(* Operators of ${...} after the name, by what they do.                    *)
ChecksEmpty == {":-", ":?"}
WithDefault == {":-", "-"}
Required == {":?", "?"}

(* The items of a sequence at some of its positions, in their order.       *)
ItemsAt(s, positions) ==
  LET upto[i \in 0..Len(s)] ==
        IF i = 0 THEN <<>> ELSE IF i \in positions THEN Append(upto[i - 1], s[i]) ELSE upto[i - 1]
  IN  upto[Len(s)]

is_valid_identifier(t) == Len(t) = 1 /\ t[1] \in Identifiers

-----------------------------------------------------------------------------
(* A line of an environment file that is neither blank nor a comment is a  *)
(* key and a value, absent if there is no "=".                             *)
Lines(lines, key) == {i \in 1..Len(lines) : lines[i].key = key}

ValidKeys(lines) == {k \in {lines[i].key : i \in 1..Len(lines)} : is_valid_identifier(k)}

(* The last value of a key wins; a line with an invalid key is skipped.    *)
parse_dotenv(lines) ==
  [name \in {k[1] : k \in ValidKeys(lines)} |->
     LET value == lines[Max(Lines(lines, <<name>>))].value
     IN  IF value = Absent THEN <<>> ELSE value]

DotenvProblems(lines) ==
  {<<"SUS-ENV-002", lines[i].key>> : i \in {j \in 1..Len(lines) : ~is_valid_identifier(lines[j].key)}}
    \cup {<<"SUS-ENV-003", k>> : k \in {k \in ValidKeys(lines) : Cardinality(Lines(lines, k)) > 1}}

-----------------------------------------------------------------------------
(* The value of a variable: the process environment before the file that   *)
(* was named before the .env file of the Compose file's directory.         *)
get(layers, name) ==
  LET holders == {i \in 1..Len(layers) : name \in DOMAIN layers[i]}
  IN  IF holders = {} THEN Absent ELSE layers[Min(holders)][name]

-----------------------------------------------------------------------------
Literal(t) == [kind |-> "literal", text |-> t]

(* The content of ${...}: a name and nothing, an operator and its operand, *)
(* or something that is passed through.                                    *)
parse_braced(content) ==
  IF content = <<>> \/ content[1] \notin Identifiers \/ (Len(content) > 1 /\ content[2] \notin WithDefault \cup Required)
  THEN Literal(<<"$", "{">> \o content \o <<"}">>)
  ELSE [kind |-> "variable", name |-> content[1],
        op |-> IF Len(content) = 1 THEN "" ELSE content[2],
        operand |-> SubSeq(content, 3, Len(content))]

(* The tokens of a text.  The first closing brace ends a substitution; an  *)
(* opening one that is never closed is passed through with all behind it.  *)
parse(t) ==
  LET from[i \in 1..(Len(t) + 1)] ==
        LET closing == {j \in (i + 2)..Len(t) : t[j] = "}"}
        IN  IF i > Len(t) THEN <<>>
            ELSE IF t[i] # "$" \/ i = Len(t) THEN <<Literal(<<t[i]>>)>> \o from[i + 1]
            ELSE IF t[i + 1] = "$" THEN <<Literal(<<"$">>)>> \o from[i + 2]
            ELSE IF t[i + 1] # "{" THEN <<Literal(<<"$">>)>> \o from[i + 1]
            ELSE IF closing = {} THEN <<Literal(SubSeq(t, i, Len(t)))>>
            ELSE <<parse_braced(SubSeq(t, i + 2, Min(closing) - 1))>> \o from[Min(closing) + 1]
  IN  from[1]

(* What a variable token needs a default or an error for: no value, or an  *)
(* empty one where the operator checks that.                               *)
IsMissing(token, layers) ==
  LET value == get(layers, token.name)
  IN  value = Absent \/ (token.op \in ChecksEmpty /\ value = <<>>)

Substituted(token, layers) ==
  IF token.kind = "literal" THEN token.text
  ELSE IF IsMissing(token, layers)
  THEN IF token.op \in WithDefault THEN token.operand ELSE <<>>
  ELSE get(layers, token.name)

(* The text with its variables replaced; what is put in is not looked at   *)
(* again.                                                                  *)
interpolate(t, layers) ==
  LET tokens == parse(t)
      upto[i \in 0..Len(tokens)] ==
        IF i = 0 THEN <<>> ELSE upto[i - 1] \o Substituted(tokens[i], layers)
  IN  upto[Len(tokens)]

(* Variant: an empty required variable passes.                             *)
UnsetOnly(t, layers) ==
  {<<"SUS-ENV-001", token.name>> : token \in
     {x \in Range(parse(t)) : x.kind = "variable" /\ x.op \in Required /\ get(layers, x.name) = Absent}}

(* The required variables of the text that have no value.                  *)
InterpolationProblems(t, layers) ==
  {<<"SUS-ENV-001", token.name>> : token \in
     {x \in Range(parse(t)) : x.kind = "variable" /\ x.op \in Required /\ IsMissing(x, layers)}}
=============================================================================

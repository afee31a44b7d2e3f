-------------------------------- MODULE JsonText --------------------------------
(***************************************************************************)
(* json::Parse and json::Write of src/Json.cpp, for TLC only: the grammar  *)
(* is recursive.                                                           *)
(*                                                                         *)
(* A text is a sequence of runes.  A rune is a character, except that a    *)
(* word the parser reads at one go, the two blanks of an indentation and   *)
(* letters that nothing tells apart are one rune.  Numbers are integers:   *)
(* what strtod makes of a point or an exponent is left out.  The keys of   *)
(* an object are written in some order, whichever it is.                   *)
(***************************************************************************)
EXTENDS Integers, Sequences, TLC
LOCAL INSTANCE SequencesExt

Null == <<"null">>
Bool(b) == <<"bool", b>>
Number(n) == <<"number", n>>
Text(s) == <<"string", s>>
Array(items) == <<"array", items>>
Object(members) == <<"object", members>>

IsObject(v) == v[1] = "object"
IsString(v) == v[1] = "string"

Members(v) == IF IsObject(v) THEN v[2] ELSE <<>>
Items(v) == IF v[1] = "array" THEN v[2] ELSE <<>>
AsBool(v, fallback) == IF v[1] = "bool" THEN v[2] ELSE fallback
AsInt(v, fallback) == IF v[1] = "number" THEN v[2] ELSE fallback
AsString(v) == IF IsString(v) THEN v[2] ELSE <<>>

Has(v, key) == key \in DOMAIN Members(v)
Member(v, key) == IF Has(v, key) THEN v[2][key] ELSE Null

\* Mutant: the first of two members with one key is kept.
Set_FirstWins(members, key, v) == members @@ (key :> v)

\* Value::Set: the last of two members with one key is kept.
Set(members, key, v) == (key :> v) @@ members
-----------------------------------------------------------------------------
Blanks == {" ", "  ", "\t", "\n", "\r"}
Digits == <<"0", "1", "2", "3", "4", "5", "6", "7", "8", "9">>
IsDigit(c) == \E i \in 1..10 : Digits[i] = c
InNumber(c) == IsDigit(c) \/ c \in {".", "e", "E", "+", "-"}

\* The runes that follow a backslash, and what they stand for.
Escapes == ("\"" :> "\"") @@ ("\\" :> "\\") @@ ("/" :> "/") @@ ("b" :> "BS")
           @@ ("f" :> "\f") @@ ("n" :> "\n") @@ ("r" :> "\r") @@ ("t" :> "\t")

\* Three code points, of one and of two bytes: what \u makes of them.
Utf8 == (<<"0", "0", "0", "0">> :> <<"NUL">>)
        @@ (<<"0", "0", "1", "f">> :> <<"US">>)
        @@ (<<"0", "0", "e", "9">> :> <<"C3", "A9">>)

\* What the members of Parser return: where they stopped, and what they read.
Read(v, p) == [ok |-> TRUE, value |-> v, at |-> p]
Fail == [ok |-> FALSE, value |-> Null, at |-> 0]
Map(r, F(_)) == IF r.ok THEN Read(F(r.value), r.at) ELSE Fail

RECURSIVE SkipSpace(_, _)
SkipSpace(t, p) ==
    LET LineEnd == CHOOSE q \in p..Len(t) + 1 :
                      /\ q > Len(t) \/ t[q] = "\n"
                      /\ \A i \in p..q - 1 : t[i] # "\n"
    IN IF p > Len(t) THEN p
       ELSE IF t[p] \in Blanks THEN SkipSpace(t, p + 1)
       ELSE IF p < Len(t) /\ t[p] = "/" /\ t[p + 1] = "/" THEN SkipSpace(t, LineEnd)
       ELSE p

RECURSIVE StringFrom(_, _, _)
StringFrom(t, p, s) ==
    LET quad == SubSeq(t, p + 2, p + 5)
    IN IF p > Len(t) THEN Fail
       ELSE IF t[p] = "\"" THEN Read(s, p + 1)
       ELSE IF t[p] # "\\" THEN StringFrom(t, p + 1, Append(s, t[p]))
       ELSE IF p = Len(t) THEN Fail
       ELSE IF t[p + 1] \in DOMAIN Escapes
            THEN StringFrom(t, p + 2, Append(s, Escapes[t[p + 1]]))
       ELSE IF t[p + 1] = "u" /\ p + 5 <= Len(t)
            THEN StringFrom(t, p + 6, s \o Utf8[quad])
       ELSE Fail

ParseString(t, p) ==
    IF p <= Len(t) /\ t[p] = "\"" THEN StringFrom(t, p + 1, <<>>) ELSE Fail

\* strtod, which reads as many digits as there are and ignores the rest.
Strtod(s) ==
    LET signed == s # <<>> /\ s[1] \in {"-", "+"}
        digits == IF signed THEN Tail(s) ELSE s
        Val(c) == (CHOOSE i \in 1..10 : Digits[i] = c) - 1
        run == CHOOSE n \in 0..Len(digits) :
                  /\ \A i \in 1..n : IsDigit(digits[i])
                  /\ n < Len(digits) => ~IsDigit(digits[n + 1])
        n == FoldLeft(LAMBDA acc, c : 10 * acc + Val(c), 0, SubSeq(digits, 1, run))
    IN IF signed /\ s[1] = "-" THEN -n ELSE n

ParseNumber(t, p) ==
    LET end == CHOOSE q \in p..Len(t) + 1 :
                  /\ q > Len(t) \/ ~InNumber(t[q])
                  /\ \A i \in p..q - 1 : InNumber(t[i])
    IN IF end = p THEN Fail ELSE Read(Number(Strtod(SubSeq(t, p, end - 1))), end)

Literal(word, v, t, p) == IF t[p] = word THEN Read(v, p + 1) ELSE Fail

RECURSIVE ParseValue(_, _)

RECURSIVE ArrayFrom(_, _, _)
ArrayFrom(t, p, items) ==
    LET item == ParseValue(t, p)
        q == SkipSpace(t, item.at)
        all == Append(items, item.value)
    IN IF ~item.ok \/ q > Len(t) THEN Fail
       ELSE IF t[q] = "," THEN ArrayFrom(t, q + 1, all)
       ELSE IF t[q] = "]" THEN Read(Array(all), q + 1)
       ELSE Fail

RECURSIVE ObjectFrom(_, _, _)
ObjectFrom(t, p, members) ==
    LET key == ParseString(t, SkipSpace(t, p))
        colon == SkipSpace(t, key.at)
        item == ParseValue(t, colon + 1)
        q == SkipSpace(t, item.at)
        all == Set(members, key.value, item.value)
    IN IF ~key.ok \/ colon > Len(t) THEN Fail
       ELSE IF t[colon] # ":" \/ ~item.ok \/ q > Len(t) THEN Fail
       ELSE IF t[q] = "," THEN ObjectFrom(t, q + 1, all)
       ELSE IF t[q] = "}" THEN Read(Object(all), q + 1)
       ELSE Fail

Closes(t, p, bracket) == SkipSpace(t, p) <= Len(t) /\ t[SkipSpace(t, p)] = bracket

ParseArray(t, p) ==
    IF Closes(t, p + 1, "]") THEN Read(Array(<<>>), SkipSpace(t, p + 1) + 1)
    ELSE ArrayFrom(t, p + 1, <<>>)

ParseObject(t, p) ==
    IF Closes(t, p + 1, "}") THEN Read(Object(<<>>), SkipSpace(t, p + 1) + 1)
    ELSE ObjectFrom(t, p + 1, <<>>)

ParseValue(t, p) ==
    LET q == SkipSpace(t, p)
    IN IF q > Len(t) THEN Fail
       ELSE CASE t[q] = "{" -> ParseObject(t, q)
              [] t[q] = "[" -> ParseArray(t, q)
              [] t[q] = "\"" -> Map(ParseString(t, q), Text)
              [] t[q] = "true" -> Literal("true", Bool(TRUE), t, q)
              [] t[q] = "false" -> Literal("false", Bool(FALSE), t, q)
              [] t[q] = "null" -> Literal("null", Null, t, q)
              [] OTHER -> ParseNumber(t, q)

\* json::Parse: malformed input and anything after the value give a null.
Parse(t) ==
    LET r == ParseValue(t, 1)
    IN IF r.ok /\ SkipSpace(t, r.at) > Len(t) THEN r.value ELSE Null
-----------------------------------------------------------------------------
\* Mutant: a backslash is written as it is.
Escape_NotBackslash(c) == IF c = "\"" THEN <<"\\", "\"">> ELSE <<c>>

\* How a rune of a string is written.
Escape(c) ==
    IF \E quad \in DOMAIN Utf8 : Utf8[quad] = <<c>>
    THEN <<"\\", "u">> \o CHOOSE quad \in DOMAIN Utf8 : Utf8[quad] = <<c>>
    ELSE IF \E e \in DOMAIN Escapes \ {"/"} : Escapes[e] = c
    THEN <<"\\", CHOOSE e \in DOMAIN Escapes \ {"/"} : Escapes[e] = c>>
    ELSE <<c>>

WriteString(s) == <<"\"">> \o FlattenSeq([i \in DOMAIN s |-> Escape(s[i])]) \o <<"\"">>

RECURSIVE Decimal(_)
Decimal(n) ==
    IF n < 0 THEN <<"-">> \o Decimal(-n)
    ELSE (IF n < 10 THEN <<>> ELSE Decimal(n \div 10)) \o <<Digits[(n % 10) + 1]>>

\* What goes between brackets: one item to a line when pretty.
Lines(open, items, close, pretty, indent) ==
    LET Pad(n) == IF pretty THEN <<"\n">> \o [i \in 1..n |-> "  "] ELSE <<>>
        item(i) == (IF i = 1 THEN <<>> ELSE <<",">>) \o Pad(indent + 1) \o items[i]
    IN IF items = <<>> THEN <<open, close>>
       ELSE <<open>> \o FlattenSeq([i \in DOMAIN items |-> item(i)])
            \o Pad(indent) \o <<close>>

RECURSIVE WriteValue(_, _, _)
WriteValue(v, pretty, indent) ==
    LET Inner(w) == WriteValue(w, pretty, indent + 1)
        keys == SetToSeq(DOMAIN Members(v))
        colon == IF pretty THEN <<":", " ">> ELSE <<":">>
    IN CASE v[1] = "null" -> <<"null">>
         [] v[1] = "bool" -> IF v[2] THEN <<"true">> ELSE <<"false">>
         [] v[1] = "number" -> Decimal(v[2])
         [] v[1] = "string" -> WriteString(v[2])
         [] v[1] = "array" ->
              Lines("[", [i \in DOMAIN v[2] |-> Inner(v[2][i])], "]", pretty, indent)
         [] v[1] = "object" ->
              Lines("{", [i \in DOMAIN keys |->
                             WriteString(keys[i]) \o colon \o Inner(v[2][keys[i]])],
                    "}", pretty, indent)

Write(v, pretty) == WriteValue(v, pretty, 0) \o (IF pretty THEN <<"\n">> ELSE <<>>)
=============================================================================

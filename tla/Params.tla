------------------------------- MODULE Params --------------------------------
(***************************************************************************)
(* Parameters of a section (parser/param.cpp) and what the callbacks of a  *)
(* plugin make of their arguments (parser/params_col.cpp).                 *)
(*                                                                         *)
(* A text is a sequence of characters, each reduced to its class (Chars).  *)
(* Integers keep the proportions of their widths: twice the bytes have the *)
(* square of the values.  A format is reduced to what SaveNumeric() finds  *)
(* in it.                                                                  *)
(***************************************************************************)
EXTENDS Integers, Sequences, FiniteSets, SequencesExt

CONSTANTS
  Byte,      \* values of a byte (256)
  RowBytes,  \* bytes in a row of a hex dump (16)
  Keys,      \* codes of subsystems, severities and the like
  Named      \* codes in the lookup tables

ASSUME ParamsAssumption == Byte \in Nat /\ Byte >= 4 /\ RowBytes \in Nat \ {0}

(* The widths of an integer in bytes, and how many values each has.        *)
Widths    == {1, 2, 4, 8}
Square(n) == n * n
Limit(w)  == IF w = 1 THEN Byte
             ELSE IF w = 2 THEN Square(Byte)
             ELSE IF w = 4 THEN Square(Square(Byte))
             ELSE Square(Square(Square(Byte)))

Null == <<"null">>       \* a null pointer in place of a text

Param(type, name, text, n, width) ==
  [type |-> type, name |-> name, text |-> text, n |-> n, width |-> width]

StringParam(name, text) == Param("string", name, text, 0, 0)
Number(name, n, width)  == Param("number", name, <<>>, n, width)
Bool(name, b)           == Param("bool", name, <<>>, b, 0)   \* b is 0 or 1
RawParam(text)          == Param("raw", <<>>, text, 0, 0)
Heading(text)           == Param("header", <<>>, text, 0, 0)
Blank                   == Param("blank", <<>>, <<>>, 0, 0)

(* The classes of characters: "x" is any that nothing treats in a way of   *)
(* its own, "ctrl" a control character without an escape of its own.       *)
Space  == "space"
Spaces == {Space, "\t", "\r", "\n", "\f", "vt"}
Chars  == Spaces \cup {"x", "bs", "ctrl", "\"", "\\", "/", "."}

(* PrintString() skips the spaces in front, Param() those at the end.      *)
Trimmed(text) ==
  LET solid == {k \in DOMAIN text : text[k] \notin Spaces}
  IN  IF solid = {} THEN <<>> ELSE SubSeq(text, Min(solid), Max(solid))

(* ParamsCollector::SaveNumeric() *)
\* mutant: the width of the format is taken even if the number is too big
WidthOfFormat(fmt, n) ==
  IF n >= Limit(4) \/ "16" \in fmt THEN 8
  ELSE IF "8" \in fmt THEN 4
  ELSE IF "4" \in fmt THEN 2
  ELSE IF n >= Limit(2) THEN 4
  ELSE IF n >= Limit(1) THEN 2
  ELSE 1

Width(fmt, n) ==
  IF n >= Limit(4) \/ "16" \in fmt THEN 8
  ELSE IF n >= Limit(2) \/ "8" \in fmt THEN 4
  ELSE IF n >= Limit(1) \/ "4" \in fmt THEN 2
  ELSE 1

SaveNumeric(name, fmt, n) == Number(name, n % Limit(Width(fmt, n)), Width(fmt, n))

(* snprintf() with a format with a space makes a text.                     *)
Formatted == <<"x", Space, "x">>

(* PrintNumber(), PrintNumberUint64(): an int becomes 64 bits wide first.  *)
PrintNumber(name, fmt, n) ==
  IF Space \in fmt THEN StringParam(name, Formatted)
                 ELSE SaveNumeric(name, fmt, n % Limit(8))

(* hexDump(): a row at a time, printable characters on the right.          *)
Printable == {"x", Space, "\"", "\\", "/"}

Row(data) ==
  <<"x", Space>> \o [k \in DOMAIN data |-> IF data[k] \in Printable THEN data[k] ELSE "."]

HexDump(data) ==
  LET rows == (Len(data) + RowBytes - 1) \div RowBytes
  IN  FlattenSeq([r \in 1 .. rows |->
        (IF r = 1 THEN <<>> ELSE <<"\n">>)
        \o Row(SubSeq(data, (r - 1) * RowBytes + 1, Min({r * RowBytes, Len(data)})))])

(* The calls of ErrlUsrParser that a plugin can make.                      *)
Collected(call) ==
  CASE call.op = "string" ->
         StringParam(call.name, IF call.text = Null THEN <<>> ELSE Trimmed(call.text))
    [] call.op = "bool"    -> Bool(call.name, call.n)
    [] call.op = "number"  -> PrintNumber(call.name, call.fmt, call.n)
    [] call.op = "dump"    -> RawParam(HexDump(call.text))
    [] call.op = "heading" -> Heading(call.text)
    [] call.op = "blank"   -> Blank
    [] call.op = "trace"   -> RawParam(call.text)

(* LookupTable::get(): the text of a code, or "Unknown" and the code.      *)
Described(key) == IF key \in Named THEN <<"x">> ELSE <<"x", Space, "x">>

(* Parameters of the Private and of the User Header (SectionPH, SectionUH), *)
(* and of a Primary SRC section: its reference code as a number, or as the *)
(* text it is if stoul() does not take it, and words.                      *)
SectionPH(key) ==
  <<Number(<<"x">>, 1, 8), Number(<<"x">>, 2, 8), StringParam(<<"x">>, Described(key)),
    Number(<<"x">>, 3, 1)>> \o [i \in 1 .. 4 |-> Number(<<"x">>, i, 4)]

SectionUH(key) ==
  [i \in 1 .. 4 |-> StringParam(<<"x">>, Described(key))]
  \o <<Number(<<"x">>, 1, 1), Number(<<"x">>, 2, 1), Number(<<"x">>, 3, 2)>>

SectionPS(rc) ==
  (IF rc.valid THEN <<StringParam(<<"x">>, <<"x">>), Number(<<"x">>, rc.num % Limit(4), 4)>>
               ELSE <<StringParam(<<"x">>, rc.text)>>)
  \o <<Number(<<"x">>, rc.flags, 1), Number(<<"x">>, rc.words, 1),
       StringParam(<<"x">>, <<"x", Space, "x">>), StringParam(<<"x">>, <<"x", Space, "x">>)>>

(* Section::headerParams() *)
HeaderParams(length) ==
  <<StringParam(<<"x">>, <<"x", Space, "x">>), Number(<<"x">>, length, 2),
    Number(<<"x">>, 1, 1), Number(<<"x">>, 0, 1), StringParam(<<"x">>, <<"x">>)>>
=============================================================================

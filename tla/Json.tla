-------------------------------- MODULE Json ---------------------------------
(***************************************************************************)
(* An event in JSON, as util/printer.cpp writes it: a sequence of tokens,  *)
(* strings with their escapes character by character; and a reader of such *)
(* sequences after RFC 8259, which knows nothing of the writer.            *)
(***************************************************************************)
EXTENDS Params

Token(k, text, n) == [k |-> k, text |-> text, n |-> n]
Mark(k)           == <<Token(k, <<>>, 0)>>        \* punctuation, true, false

-----------------------------------------------------------------------------
(* Printer::jsonEscape() without the quotes around it.                     *)
Letter == [c \in {"bs", "\t", "\f", "\r", "\n"} |->
             CASE c = "bs" -> "b" [] c = "\t" -> "t" [] c = "\f" -> "f"
               [] c = "\r" -> "r" [] c = "\n" -> "n"]

\* mutant: the backslash is forgotten
EscapedButBackslash(c) ==
  IF c \in {"/", "\""} THEN <<"\\", c>>
  ELSE IF c \in DOMAIN Letter THEN <<"\\", Letter[c]>>
  ELSE <<c>>

Escaped(c) ==
  IF c \in {"\\", "/", "\""} THEN <<"\\", c>>
  ELSE IF c \in DOMAIN Letter THEN <<"\\", Letter[c]>>
  ELSE <<c>>

JsonEscape(text) == <<Token("string", FlattenSeq([i \in DOMAIN text |-> Escaped(text[i])]), 0)>>

(* Printer::printParametersJson(): blank parameters are left out; all but  *)
(* the last one have a comma behind them.                                  *)
ParamJson(p) ==
  LET pair(first, second) ==
        Mark("begin-array") \o first \o Mark("value-separator") \o second \o Mark("end-array")
  IN  CASE p.type = "header" -> pair(JsonEscape(<<"header">>), JsonEscape(p.text))
        [] p.type = "raw"    -> pair(JsonEscape(<<"raw">>), JsonEscape(p.text))
        [] p.type = "bool"   -> pair(JsonEscape(p.name), Mark(IF p.n = 1 THEN "true" ELSE "false"))
        [] p.type = "string" -> pair(JsonEscape(p.name), JsonEscape(p.text))
        [] p.type = "number" -> pair(JsonEscape(p.name), <<Token("number", <<>>, p.n)>>)

PrintParametersJson(params) ==
  FlattenSeq([i \in DOMAIN params |->
    IF params[i].type = "blank" THEN <<>>
    ELSE ParamJson(params[i]) \o IF i # Len(params) THEN Mark("value-separator") ELSE <<>>])

JsonList(params) == Mark("begin-array") \o PrintParametersJson(params) \o Mark("end-array")

(* Printer::printEventJson(): the SEL record, if sel is not empty, and the *)
(* beginning of the sections; a section; the end.                          *)
Key(name) == JsonEscape(<<name>>) \o Mark("name-separator")

PrintHead(sel) ==
  Mark("begin-object")
  \o (IF sel = <<>> THEN <<>> ELSE Key("sel") \o JsonList(sel) \o Mark("value-separator"))
  \o Key("sections") \o Mark("begin-array")

PrintSection(s, last) ==
  Mark("begin-object") \o Key("header") \o JsonList(s.header) \o Mark("value-separator")
            \o Key("params") \o JsonList(s.params)
  \o Mark("end-object") \o IF last THEN <<>> ELSE Mark("value-separator")

PrintTail == Mark("end-array") \o Mark("end-object")

-----------------------------------------------------------------------------
(* The reader.  A value is a scalar, an array or an object; the items of   *)
(* an object are its keys and values in turn.                              *)
Value(k, items, text, n) == [k |-> k, items |-> items, text |-> text, n |-> n]

Words == {"header", "raw", "sel", "sections", "params"}
Plain == Words \cup {"x", Space, "/", "."}

(* The text of a string token: escapes are resolved, and a character that  *)
(* may not stand in a string (a control character, a bare quote) is an     *)
(* error.                                                                  *)
Meant == [c \in {"\\", "/", "\"", "b", "t", "f", "r", "n"} |->
            CASE c \in {"\\", "/", "\""} -> c
              [] c = "b" -> "bs" [] c = "t" -> "\t" [] c = "f" -> "\f"
              [] c = "r" -> "\r" [] c = "n" -> "\n"]

Heard(text, at) == [text |-> text, at |-> at]

Unescape(acc, c) ==
  IF acc.at = "text" /\ c \in Plain THEN Heard(Append(acc.text, c), "text")
  ELSE IF acc.at = "text" /\ c = "\\" THEN Heard(acc.text, "escape")
  ELSE IF acc.at = "escape" /\ c \in DOMAIN Meant THEN Heard(Append(acc.text, Meant[c]), "text")
  ELSE Heard(acc.text, "error")

Unescaped(text) ==
  LET at[i \in 0 .. Len(text)] ==
        IF i = 0 THEN Heard(<<>>, "text") ELSE Unescape(at[i - 1], text[i])
  IN  at[Len(text)]

(* Where the reader is: in a container with these items so far and this to *)
(* come next, inside the outer ones; or at what is not JSON, for ever.     *)
Frame(k, items, next, outer) == [k |-> k, items |-> items, next |-> next, outer |-> outer]

Open(k, outer)   == Frame(k, <<>>, "first", outer)
With(f, v, next) == Frame(f.k, Append(f.items, v), next, f.outer)
Past(f, next)    == Frame(f.k, f.items, next, f.outer)

Unread == Open("top", <<>>)
Failed == Frame("failed", <<>>, "none", <<>>)

Scalars == {"string", "number", "true", "false"}

WantsValue(f) == (f.k # "object" /\ f.next \in {"first", "item"}) \/ f.next = "value"
WantsKey(f)   == f.k = "object" /\ f.next \in {"first", "item"}
MayEnd(f, k)  == f.k = k /\ f.next \in {"first", "comma"}

Read(f, t) ==
  LET string == Unescaped(t.text)
      scalar == Value(t.k, <<>>, string.text, t.n)
      legal  == string.at = "text"
  IN  IF f.k = "failed" THEN Failed
      ELSE IF t.k = "string" /\ WantsKey(f) /\ legal THEN With(f, scalar, "colon")
      ELSE IF t.k \in Scalars /\ WantsValue(f) /\ legal THEN With(f, scalar, "comma")
      ELSE IF t.k = "begin-array" /\ WantsValue(f) THEN Open("array", f)
      ELSE IF t.k = "begin-object" /\ WantsValue(f) THEN Open("object", f)
      ELSE IF t.k = "name-separator" /\ f.next = "colon" THEN Past(f, "value")
      ELSE IF t.k = "value-separator" /\ f.next = "comma" /\ f.k # "top" THEN Past(f, "item")
      ELSE IF \/ t.k = "end-array" /\ MayEnd(f, "array")
              \/ t.k = "end-object" /\ MayEnd(f, "object")
        THEN With(f.outer, Value(f.k, f.items, <<>>, 0), "comma")
      ELSE Failed

ReadOn(f, tokens) ==
  LET at[i \in 0 .. Len(tokens)] == IF i = 0 THEN f ELSE Read(at[i - 1], tokens[i])
  IN  at[Len(tokens)]

(* The one value that has been read; none if it is not JSON.               *)
ValueOf(f) == IF f.k = "top" THEN f.items ELSE <<>>

(* What the JSON of a report must say.                                     *)
StringValue(text) == Value("string", <<>>, text, 0)

ParamValue(p) ==
  Value("array",
        IF p.type \in {"header", "raw"} THEN <<StringValue(<<p.type>>), StringValue(p.text)>>
        ELSE <<StringValue(p.name),
               CASE p.type = "bool"   -> Value(IF p.n = 1 THEN "true" ELSE "false", <<>>, <<>>, 0)
                 [] p.type = "number" -> Value("number", <<>>, <<>>, p.n)
                 [] p.type = "string" -> StringValue(p.text)>>,
        <<>>, 0)

ListValue(params) ==
  Value("array",
        FlattenSeq([i \in DOMAIN params |->
          IF params[i].type = "blank" THEN <<>> ELSE <<ParamValue(params[i])>>]),
        <<>>, 0)

SectionValue(s) ==
  Value("object", <<StringValue(<<"header">>), ListValue(s.header),
                    StringValue(<<"params">>), ListValue(s.params)>>, <<>>, 0)

ReportValue(sel, sections) ==
  Value("object",
        (IF sel = <<>> THEN <<>> ELSE <<StringValue(<<"sel">>), ListValue(sel)>>)
        \o <<StringValue(<<"sections">>),
             Value("array", [i \in DOMAIN sections |-> SectionValue(sections[i])], <<>>, 0)>>,
        <<>>, 0)
=============================================================================

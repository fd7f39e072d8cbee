-------------------------------- MODULE Wrap --------------------------------
(***************************************************************************)
(* The wrapping of parameter values to the width of the terminal, in the   *)
(* table and hex formats (util/printer.cpp): Printer::setFormat() takes    *)
(* the width, printParametersText() prints a value behind its name, or by  *)
(* itself if it is raw, and split() cuts it to lines.                      *)
(*                                                                         *)
(* split() is a loop of three smaller loops over positions of the text;    *)
(* each turn of each is a step here.  Positions are of type size_t: sums   *)
(* and differences wrap.  Text indices start with 0.                       *)
(***************************************************************************)
EXTENDS Integers, Sequences

CONSTANTS
  CommonWidth,   \* widest line (80)
  NameWidth,     \* columns reserved for a name (22)
  Windows,       \* widths a terminal reports; a serial line reports 0
  Texts,         \* values of parameters
  Labels,        \* lengths of their names, and Raw
  SizeMod,       \* size_t arithmetic is modulo this
  MaxParts       \* bound: lines cut from one value

Chars    == {"ink", "space", "feed"}
NotATty  == -1
Raw      == -1                     \* no name: a hex dump or a trace
Indent   == NameWidth + 1          \* the name and a colon

ASSUME WrapAssumption ==
  /\ CommonWidth \in Nat /\ NameWidth \in Nat /\ SizeMod \in Nat /\ MaxParts \in Nat
  /\ Windows \subseteq Nat
  /\ Texts \subseteq Seq(Chars)
  /\ Labels \subseteq Nat \cup {Raw}
  /\ Indent < SizeMod
  /\ \A t \in Texts : Len(t) + CommonWidth < SizeMod

VARIABLES
  tty,          \* is stdin a terminal; the width of the one at stdout
  maxColumns,   \* Printer::maxColumns_
  pc,           \* where split() stands
  text, label,  \* the value being printed and the length of its name
  width,        \* the argument of split()
  start, len,   \* its locals
  at,           \* lf or space
  parts         \* positions

vars == <<tty, maxColumns, pc, text, label, width, start, len, at, parts>>

Smaller(a, b)  == IF a < b THEN a ELSE b
Plus(a, b)     == IF a + b < SizeMod THEN a + b ELSE a + b - SizeMod
MinusSigned(a, b) == a - b        \* mutant: the difference does not wrap
Minus(a, b)    == IF b <= a THEN a - b ELSE SizeMod + a - b
CharAt(k)      == text[k + 1]
IsBlank(k)     == CharAt(k) = "space"    \* mutant: a line feed is no space
IsSpace(k)     == CharAt(k) # "ink"      \* isspace() of a line feed holds, too
Line           == [pos : Nat, len : Nat]
Part(pos, n)   == [pos |-> pos, len |-> n]

-----------------------------------------------------------------------------
(* The constructor calls setFormat(Table), which looks at the terminal. *)
Columns(t) ==
  IF t.stdin /\ t.stdout # NotATty THEN Smaller(t.stdout, CommonWidth)
                                   ELSE CommonWidth

Init ==
  /\ tty \in [stdin : BOOLEAN, stdout : Windows \cup {NotATty}]
  /\ maxColumns = Columns(tty)
  /\ pc = "idle" /\ text = <<>> /\ label = Raw
  /\ width = 0 /\ start = 0 /\ len = 0 /\ at = 0 /\ parts = <<>>

(* printParametersText() calls split(), which divides by the width first:  *)
(* by zero, some processors trap and others go on.  A named parameter      *)
(* without a value is not split.                                           *)
\* mutant: the colon is forgotten
WidthNoColon(l) == IF l = Raw THEN maxColumns ELSE Minus(maxColumns, NameWidth)

Width(l) == IF l = Raw THEN maxColumns ELSE Minus(maxColumns, Indent)

PrintParam(t, l) ==
  /\ pc = "idle"
  /\ l # Raw => t # <<>>
  /\ text' = t /\ label' = l
  /\ width' = Width(l)
  /\ pc' = "turn" \/ (width' = 0 /\ pc' = "crashed")
  /\ UNCHANGED <<tty, maxColumns, start, len, at, parts>>

(* A turn begins: the longest line that may start here. *)
Measure ==
  /\ pc = "turn" /\ start < Len(text)
  /\ len' = IF Plus(start, width) > Len(text) THEN Len(text) - start ELSE width
  /\ at' = start
  /\ pc' = "feed"
  /\ UNCHANGED <<tty, maxColumns, text, label, width, start, parts>>

(* The search for a line feed in it. *)
ScanFeed ==
  /\ pc = "feed" /\ at < Plus(start, len) /\ CharAt(at) # "feed"
  /\ at' = at + 1
  /\ UNCHANGED <<tty, maxColumns, pc, text, label, width, start, len, parts>>

FoundFeed ==
  /\ pc = "feed" /\ at < Plus(start, len) /\ CharAt(at) = "feed"
  /\ len' = at - start
  /\ pc' = "take"
  /\ UNCHANGED <<tty, maxColumns, text, label, width, start, at, parts>>

(* A full line that is not the last one looks back for a space. *)
NoFeed ==
  /\ pc = "feed" /\ at >= Plus(start, len)
  /\ IF len = width /\ Plus(start, len) < Len(text)
       THEN pc' = "space" /\ at' = Plus(start, len)
       ELSE pc' = "take" /\ UNCHANGED at
  /\ UNCHANGED <<tty, maxColumns, text, label, width, start, len, parts>>

ScanSpace ==
  /\ pc = "space" /\ at # start /\ at < Len(text) /\ ~IsSpace(at)
  /\ at' = Minus(at, 1)
  /\ UNCHANGED <<tty, maxColumns, pc, text, label, width, start, len, parts>>

(* The search has left the text: the rest is undefined. *)
StraySpace ==
  /\ pc = "space" /\ at # start /\ at >= Len(text)
  /\ pc' = "crashed"
  /\ UNCHANGED <<tty, maxColumns, text, label, width, start, len, at, parts>>

(* The line is broken at the space unless it is too far back. *)
\* mutant: the space stays in the line
FoundSpaceKept ==
  /\ pc = "space"
  /\ at = start \/ (at < Len(text) /\ IsSpace(at))
  /\ len' = IF at > start + width \div 2 THEN at - start + 1 ELSE len
  /\ pc' = "take"
  /\ UNCHANGED <<tty, maxColumns, text, label, width, start, at, parts>>

\* mutant: the space found is not used
FoundSpaceUnused ==
  /\ pc = "space"
  /\ at = start \/ (at < Len(text) /\ IsSpace(at))
  /\ pc' = "take"
  /\ UNCHANGED <<tty, maxColumns, text, label, width, start, len, at, parts>>

FoundSpace ==
  /\ pc = "space"
  /\ at = start \/ (at < Len(text) /\ IsSpace(at))
  /\ len' = IF at > start + width \div 2 THEN at - start ELSE len
  /\ pc' = "take"
  /\ UNCHANGED <<tty, maxColumns, text, label, width, start, at, parts>>

\* mutant: the character that ended the line is always dropped
TakeAndDrop ==
  /\ pc = "take" /\ Len(parts) < MaxParts
  /\ parts' = Append(parts, Part(start, len))
  /\ start' = Smaller(Plus(start, len + 1), Len(text))
  /\ pc' = "skip"
  /\ UNCHANGED <<tty, maxColumns, text, label, width, len, at>>

Take ==
  /\ pc = "take" /\ Len(parts) < MaxParts
  /\ parts' = Append(parts, Part(start, len))
  /\ start' = Plus(start, len)
  /\ pc' = "skip"
  /\ UNCHANGED <<tty, maxColumns, text, label, width, len, at>>

SkipSpace ==
  /\ pc = "skip" /\ start < Len(text) /\ IsSpace(start)
  /\ start' = start + 1
  /\ UNCHANGED <<tty, maxColumns, pc, text, label, width, len, at, parts>>

NextTurn ==
  /\ pc = "skip"
  /\ start < Len(text) => ~IsSpace(start)
  /\ pc' = "turn"
  /\ UNCHANGED <<tty, maxColumns, text, label, width, start, len, at, parts>>

Finish ==
  /\ pc = "turn" /\ start >= Len(text)
  /\ parts' = IF parts = <<>> THEN <<Part(0, 0)>> ELSE parts
  /\ pc' = "done"
  /\ UNCHANGED <<tty, maxColumns, text, label, width, start, len, at>>

Split ==
  \/ Measure \/ ScanFeed \/ FoundFeed \/ NoFeed
  \/ ScanSpace \/ StraySpace \/ FoundSpace
  \/ Take \/ SkipSpace \/ NextTurn \/ Finish

Next == (\E t \in Texts, l \in Labels : PrintParam(t, l)) \/ Split

Spec == Init /\ [][Next]_vars

(* A single thread that keeps running. *)
FairSpec == Spec /\ WF_vars(Split)

(* The lines printParametersText() prints: the first one behind the name,  *)
(* the others indented; substr() stops at the end of the value.            *)
FirstIndent ==
  (IF label = 0 THEN 1 ELSE label + 1)
    + (IF NameWidth > label THEN NameWidth - label ELSE 0)

LineLen(part) ==
  Smaller(part.len, Len(text) - part.pos)
    + IF label = Raw THEN 0 ELSE IF part.pos = 0 THEN FirstIndent ELSE Indent

-----------------------------------------------------------------------------
(* The columns are enough for what is printed: the width has not wrapped   *)
(* and is not zero.                                                        *)
RoomFor(columns) == IF label = Raw THEN columns > 0 ELSE columns > Indent

Roomy == RoomFor(maxColumns)

End(p) == p.pos + p.len

TypeOK ==
  /\ maxColumns \in 0 .. CommonWidth
  /\ pc \in {"idle", "turn", "feed", "space", "take", "skip", "done", "crashed"}
  /\ text \in Texts \cup {<<>>} /\ label \in Labels \cup {Raw}
  /\ width \in 0 .. SizeMod - 1 /\ start \in 0 .. SizeMod - 1
  /\ len \in 0 .. SizeMod - 1 /\ at \in 0 .. SizeMod - 1
  /\ parts \in Seq(Line)

(* The lines are disjoint pieces of the value in its order, none longer    *)
(* than the width asked for, and split() never reads outside the value.    *)
PartsInOrder ==
  pc # "idle" /\ Roomy =>
    /\ pc # "crashed"
    /\ start <= Len(text)
    /\ \A k \in DOMAIN parts : /\ parts[k].len <= width
                               /\ End(parts[k]) <= start
    /\ \A k \in 1 .. Len(parts) - 1 : End(parts[k]) <= parts[k + 1].pos

(* Nothing is lost: a character that is in no line is white space.         *)
OnlySpaceIsLost ==
  pc # "idle" /\ Roomy =>
    \A j \in 0 .. start - 1 :
      CharAt(j) = "ink" =>
        \E k \in DOMAIN parts : parts[k].pos <= j /\ j < End(parts[k])

(* No line holds a line feed.                                             *)
FeedsBreakLines ==
  pc # "idle" /\ Roomy =>
    \A k \in DOMAIN parts : \A j \in parts[k].pos .. End(parts[k]) - 1 :
      CharAt(j) # "feed"

(* A word is cut in two only if it covers the second half of the line.     *)
WordsAreKept ==
  pc # "idle" /\ Roomy =>
    \A k \in DOMAIN parts :
      LET p == parts[k]
      IN  End(p) < Len(text) /\ ~IsSpace(End(p)) =>
            /\ p.len = width
            /\ \A j \in p.pos + width \div 2 + 1 .. End(p) : ~IsSpace(j)

(* How many characters of a name do not fit its columns. *)
Overhang(p) == IF p.pos = 0 /\ label > NameWidth THEN label - NameWidth ELSE 0

(* Where there is room, a line of output holds no line feed and fits the   *)
(* common width; if stdin and stdout are both terminals it fits the one at *)
(* stdout, too.  Only a name that is longer than its columns pushes the    *)
(* first line over the edge, by as many characters as it has too many, and *)
(* no other line.  This is less than the comments promise: a terminal at   *)
(* stdout has no say when stdin is none (setFormat() claims to look at     *)
(* stdout), and maxColumns_ is not the maximum size of every line, as      *)
(* printer.hpp calls it.                                                   *)
RoomyLinesFit ==
  pc # "idle" /\ Roomy =>
    /\ FeedsBreakLines
    /\ \A k \in DOMAIN parts :
         LET p == parts[k]
         IN  /\ LineLen(p) <= CommonWidth + Overhang(p)
             /\ tty.stdin /\ tty.stdout # NotATty =>
                  LineLen(p) <= tty.stdout + Overhang(p)

(* On such a window, split() ends. *)
SplitEnds == pc = "turn" /\ Roomy ~> pc = "done"
=============================================================================

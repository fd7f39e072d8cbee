---------------------------- MODULE Wrap_proofs ----------------------------
(***************************************************************************)
(* Proofs about Wrap for every width of line, of name and of window, every *)
(* text, and every size of size_t that holds a text and a line.            *)
(*                                                                         *)
(* The safety properties follow from one inductive invariant, IInv.  They  *)
(* speak of the lines already cut; IInv adds what the loops of split()     *)
(* know of the line being cut (Cut).                                       *)
(***************************************************************************)
EXTENDS Wrap, TLAPS

(* What is known of a call to split() on any window. *)
Call ==
  /\ parts = <<>> => start = 0
  /\ pc = "idle"  => parts = <<>>
  /\ pc = "skip"  => parts # <<>>
  /\ pc = "feed"  => start <= at /\ start < Len(text)
  /\ pc # "idle"  => text \in Texts /\ label \in Labels /\ width = Width(label)

(* A line of n characters cut at pos splits a word only if it has to.      *)
KeepsWord(pos, n) ==
  pos + n < Len(text) /\ ~IsSpace(pos + n) =>
    /\ n = width
    /\ \A j \in pos + width \div 2 + 1 .. pos + n : ~IsSpace(j)

NoFeedIn(a, b) == \A j \in a .. b - 1 : CharAt(j) # "feed"

(* What is known of the line being cut, on a window with room. *)
Cut ==
  pc # "idle" /\ Roomy =>
    /\ pc \in {"feed", "space", "take"} =>
         start < Len(text) /\ len <= width /\ start + len <= Len(text)
    /\ pc \in {"feed", "space"} => start <= at /\ at <= start + len
    /\ pc = "feed" =>
         /\ len = width \/ start + len = Len(text)
         /\ NoFeedIn(start, at)
    /\ pc = "space" =>
         /\ len = width /\ start + len < Len(text)
         /\ NoFeedIn(start, start + len)
         /\ \A j \in at + 1 .. start + len : ~IsSpace(j)
    /\ pc = "take" =>
         /\ NoFeedIn(start, start + len)
         /\ KeepsWord(start, len)

IInv ==
  /\ TypeOK /\ Call /\ Cut
  /\ PartsInOrder /\ OnlySpaceIsLost /\ FeedsBreakLines /\ WordsAreKept

-----------------------------------------------------------------------------
(* The width and the texts leave room in size_t.                           *)
LEMMA Sizes ==
  ASSUME TypeOK, pc # "idle" => text \in Texts
  PROVE  /\ CommonWidth \in Nat /\ NameWidth \in Nat /\ SizeMod \in Nat
         /\ Indent = NameWidth + 1 /\ Indent < SizeMod
         /\ Len(text) \in Nat
         /\ pc # "idle" => Len(text) + CommonWidth < SizeMod
<1>1. text \in Seq(Chars)
  <2>1. <<>> \in Seq(Chars)
    OBVIOUS
  <2>2. text \in Texts \/ text = <<>>
    BY DEF TypeOK
  <2> QED BY <2>1, <2>2, WrapAssumption
<1> QED BY <1>1, WrapAssumption DEF Indent

LEMMA RoomyWidth ==
  ASSUME IInv, pc # "idle", Roomy
  PROVE  /\ width \in 1 .. CommonWidth
         /\ label # Raw => width = maxColumns - Indent
         /\ label = Raw => width = maxColumns
BY Sizes DEF IInv, TypeOK, Call, Width, Roomy, RoomFor, Minus

(* Sums of positions in the text and of widths do not wrap. *)
LEMMA NoCarry ==
  ASSUME IInv, pc # "idle", NEW a \in Nat, NEW b \in Nat,
         a <= Len(text), b <= CommonWidth
  PROVE  Plus(a, b) = a + b
BY Sizes DEF IInv, Call, Plus

(* The line being cut lies in the text. *)
LEMMA LineInText ==
  ASSUME IInv, Roomy, pc \in {"feed", "space", "take"}
  PROVE  /\ Len(text) \in Nat /\ SizeMod \in Nat /\ Len(text) < SizeMod
         /\ width \in Nat /\ width # 0
         /\ start \in Nat /\ len \in Nat /\ at \in Nat
         /\ start < Len(text) /\ len <= width /\ start + len <= Len(text)
         /\ Plus(start, len) = start + len
<1>1. /\ Len(text) \in Nat /\ SizeMod \in Nat /\ CommonWidth \in Nat
      /\ Len(text) + CommonWidth < SizeMod
      /\ start \in Nat /\ len \in Nat /\ at \in Nat
  BY Sizes DEF IInv, TypeOK, Call
<1>2. width \in 1 .. CommonWidth
  BY RoomyWidth
<1>3. start < Len(text) /\ len <= width /\ start + len <= Len(text)
  BY DEF IInv, Cut
<1>4. Plus(start, len) = start + len
  BY <1>1, <1>2, <1>3, NoCarry
<1> QED BY <1>1, <1>2, <1>3, <1>4

LEMMA Wraps ==
  ASSUME SizeMod \in Nat, NEW a \in 0 .. SizeMod - 1, NEW b \in 0 .. SizeMod - 1
  PROVE  Plus(a, b) \in 0 .. SizeMod - 1 /\ Minus(a, b) \in 0 .. SizeMod - 1
BY DEF Plus, Minus

-----------------------------------------------------------------------------
LEMMA InitIInv == Init => IInv
<1> SUFFICES ASSUME Init PROVE IInv
  OBVIOUS
<1>1. maxColumns \in 0 .. CommonWidth
  <2>1. tty.stdout \in Windows \cup {NotATty}
    BY DEF Init
  <2>2. tty.stdout # NotATty => tty.stdout \in Nat
    BY <2>1, WrapAssumption
  <2> QED BY <2>2, WrapAssumption DEF Init, Columns, Smaller
<1>2. TypeOK
  BY <1>1, WrapAssumption DEF Init, TypeOK, Indent
<1> QED BY <1>2 DEF Init, IInv, Call, Cut, PartsInOrder, OnlySpaceIsLost,
                    FeedsBreakLines, WordsAreKept

-----------------------------------------------------------------------------
(* A call begins: no line is cut yet.                                      *)
LEMMA CallIInv ==
  ASSUME IInv, NEW t \in Texts, NEW l \in Labels, PrintParam(t, l)
  PROVE  IInv'
<1> USE DEF PrintParam
<1>1. parts = <<>> /\ start = 0
  BY DEF IInv, Call
<1>2. /\ maxColumns \in Nat /\ maxColumns < SizeMod
      /\ SizeMod \in Nat /\ Indent \in Nat /\ Indent < SizeMod
  <2>1. t \in Seq(Chars) /\ Len(t) + CommonWidth < SizeMod
    BY WrapAssumption
  <2>2. Len(t) \in Nat
    BY <2>1
  <2> QED BY <2>1, <2>2, WrapAssumption DEF IInv, TypeOK, Indent
<1>3. width' \in 0 .. SizeMod - 1 /\ (Roomy' => width' # 0)
  BY <1>2 DEF Width, Roomy, RoomFor, Minus
<1>4. pc' \in {"turn", "crashed"} /\ (Roomy' => pc' = "turn")
  BY <1>3
<1>5. TypeOK'
  BY <1>3, <1>4 DEF IInv, TypeOK
<1>6. Call'
  BY <1>1, <1>4 DEF Call, Width
<1>7. Cut'
  BY <1>4 DEF Cut
<1>8. text' \in Seq(Chars) /\ Len(text') \in Nat
  BY WrapAssumption
<1>9. PartsInOrder' /\ OnlySpaceIsLost' /\ FeedsBreakLines' /\ WordsAreKept'
  BY <1>1, <1>4, <1>8
  DEF PartsInOrder, OnlySpaceIsLost, FeedsBreakLines, WordsAreKept
<1> QED BY <1>5, <1>6, <1>7, <1>9 DEF IInv

(* The steps between two lines leave those already cut as they are.        *)
LEMMA LinesStay ==
  ASSUME IInv, pc # "idle", pc' # "idle", Roomy' => pc' # "crashed",
         UNCHANGED <<maxColumns, text, label, width, start, parts>>
  PROVE  /\ PartsInOrder' /\ OnlySpaceIsLost'
         /\ FeedsBreakLines' /\ WordsAreKept'
<1>1. Roomy' <=> Roomy
  BY DEF Roomy, RoomFor
<1>2. PartsInOrder'
  BY <1>1 DEF IInv, PartsInOrder, End
<1>3. OnlySpaceIsLost'
  BY <1>1 DEF IInv, OnlySpaceIsLost, End, CharAt
<1>4. FeedsBreakLines'
  BY <1>1 DEF IInv, FeedsBreakLines, End, CharAt
<1>5. WordsAreKept'
  BY <1>1 DEF IInv, WordsAreKept, End, CharAt, IsSpace
<1> QED BY <1>2, <1>3, <1>4, <1>5

LEMMA MeasureIInv ==
  ASSUME IInv, Measure
  PROVE  IInv'
<1> USE DEF Measure
<1>1. /\ SizeMod \in Nat /\ Len(text) \in Nat /\ Len(text) < SizeMod
      /\ start \in Nat /\ width \in Nat /\ start < Len(text)
  BY Sizes DEF IInv, TypeOK, Call
<1>2. TypeOK'
  BY <1>1 DEF IInv, TypeOK
<1>3. Call'
  BY <1>1 DEF IInv, Call, Width
<1>4. Roomy' <=> Roomy
  BY DEF Roomy, RoomFor
<1>5. Cut'
  <2> SUFFICES ASSUME Roomy PROVE Cut'
    BY <1>4 DEF Cut
  <2>1. Plus(start, width) = start + width
    BY <1>1, NoCarry, RoomyWidth
  <2>2. /\ len' \in Nat /\ len' <= width /\ start + len' <= Len(text)
        /\ len' = width \/ start + len' = Len(text)
    BY <1>1, <2>1
  <2>3. NoFeedIn(start, start)
    BY <1>1 DEF NoFeedIn
  <2>4. NoFeedIn(start, at)'
    BY <2>3 DEF NoFeedIn, CharAt
  <2> QED BY <1>1, <2>2, <2>4 DEF Cut
<1>6. PartsInOrder' /\ OnlySpaceIsLost' /\ FeedsBreakLines' /\ WordsAreKept'
  BY LinesStay
<1> QED BY <1>2, <1>3, <1>5, <1>6 DEF IInv

LEMMA ScanFeedIInv ==
  ASSUME IInv, ScanFeed
  PROVE  IInv'
<1> USE DEF ScanFeed
<1>1. /\ SizeMod \in Nat /\ Len(text) \in Nat /\ Len(text) < SizeMod
      /\ start \in Nat /\ len \in Nat /\ at \in Nat
      /\ Plus(start, len) \in 0 .. SizeMod - 1
  BY Sizes, Wraps DEF IInv, TypeOK, Call
<1>2. TypeOK'
  BY <1>1 DEF IInv, TypeOK
<1>3. Call'
  BY <1>1 DEF IInv, Call, Width
<1>4. Roomy' <=> Roomy
  BY DEF Roomy, RoomFor
<1>5. Cut'
  <2> SUFFICES ASSUME Roomy PROVE Cut'
    BY <1>4 DEF Cut
  <2>1. /\ start <= at /\ start < Len(text) /\ len <= width
        /\ start + len <= Len(text)
        /\ len = width \/ start + len = Len(text)
        /\ NoFeedIn(start, at)
    BY DEF IInv, Cut
  <2>2. Plus(start, len) = start + len
    BY LineInText
  <2>3. NoFeedIn(start, at)'
    BY <1>1, <2>1 DEF NoFeedIn, CharAt
  <2> QED BY <1>1, <2>1, <2>2, <2>3 DEF Cut
<1>6. PartsInOrder' /\ OnlySpaceIsLost' /\ FeedsBreakLines' /\ WordsAreKept'
  BY LinesStay
<1> QED BY <1>2, <1>3, <1>5, <1>6 DEF IInv

LEMMA FoundFeedIInv ==
  ASSUME IInv, FoundFeed
  PROVE  IInv'
<1> USE DEF FoundFeed
<1>1. /\ SizeMod \in Nat /\ Len(text) \in Nat
      /\ start \in Nat /\ len \in Nat /\ at \in Nat /\ at < SizeMod
      /\ start <= at
  BY Sizes DEF IInv, TypeOK, Call
<1>2. TypeOK'
  BY <1>1 DEF IInv, TypeOK
<1>3. Call'
  BY DEF IInv, Call, Width
<1>4. Roomy' <=> Roomy
  BY DEF Roomy, RoomFor
<1>5. Cut'
  <2> SUFFICES ASSUME Roomy PROVE Cut'
    BY <1>4 DEF Cut
  <2>1. /\ start < Len(text) /\ len <= width /\ start + len <= Len(text)
        /\ NoFeedIn(start, at)
    BY DEF IInv, Cut
  <2>2. Plus(start, len) = start + len /\ width \in Nat
    BY LineInText
  <2>3. start + len' = at /\ len' <= len
    BY <1>1, <2>2
  <2>4. NoFeedIn(start, start + len)'
    BY <2>1, <2>3 DEF NoFeedIn, CharAt
  <2>5. KeepsWord(start, len)'
    BY <2>3 DEF KeepsWord, IsSpace, CharAt
  <2> QED BY <1>1, <2>1, <2>2, <2>3, <2>4, <2>5 DEF Cut
<1>6. PartsInOrder' /\ OnlySpaceIsLost' /\ FeedsBreakLines' /\ WordsAreKept'
  BY LinesStay
<1> QED BY <1>2, <1>3, <1>5, <1>6 DEF IInv

LEMMA NoFeedIInv ==
  ASSUME IInv, NoFeed
  PROVE  IInv'
<1> USE DEF NoFeed
<1>1. /\ pc' \in {"space", "take"} /\ at' \in 0 .. SizeMod - 1
      /\ SizeMod \in Nat /\ Len(text) \in Nat
  BY Sizes, Wraps DEF IInv, TypeOK, Call
<1>2. TypeOK'
  BY <1>1 DEF IInv, TypeOK
<1>3. Call'
  BY <1>1 DEF IInv, Call, Width
<1>4. Roomy' <=> Roomy
  BY DEF Roomy, RoomFor
<1>5. Cut'
  <2> SUFFICES ASSUME Roomy PROVE Cut'
    BY <1>4 DEF Cut
  <2>1. /\ Len(text) \in Nat /\ width \in Nat
        /\ start \in Nat /\ len \in Nat /\ at \in Nat
        /\ start < Len(text) /\ len <= width /\ start + len <= Len(text)
        /\ Plus(start, len) = start + len
    BY LineInText
  <2>2. /\ start <= at /\ at <= start + len
        /\ len = width \/ start + len = Len(text)
        /\ NoFeedIn(start, at)
    BY DEF IInv, Cut
  <2>3. at = start + len /\ NoFeedIn(start, start + len)
    BY <2>1, <2>2
  <2>4. NoFeedIn(start, start + len)'
    BY <2>3 DEF NoFeedIn, CharAt
  <2>5. CASE len = width /\ start + len < Len(text)
    <3>1. pc' = "space" /\ at' = start + len
      BY <2>1, <2>5
    <3>2. \A j \in at' + 1 .. start + len : ~IsSpace(j)'
      BY <2>1, <3>1
    <3> QED BY <2>1, <2>4, <2>5, <3>1, <3>2 DEF Cut
  <2>6. CASE ~(len = width /\ start + len < Len(text))
    <3>1. pc' = "take" /\ start + len = Len(text)
      BY <2>1, <2>2, <2>6
    <3>2. KeepsWord(start, len)'
      BY <2>1, <3>1 DEF KeepsWord
    <3> QED BY <2>1, <2>4, <3>1, <3>2 DEF Cut
  <2> QED BY <2>5, <2>6
<1>6. PartsInOrder' /\ OnlySpaceIsLost' /\ FeedsBreakLines' /\ WordsAreKept'
  BY <1>1, LinesStay
<1> QED BY <1>2, <1>3, <1>5, <1>6 DEF IInv

LEMMA ScanSpaceIInv ==
  ASSUME IInv, ScanSpace
  PROVE  IInv'
<1> USE DEF ScanSpace
<1>1. SizeMod \in Nat /\ at \in 0 .. SizeMod - 1 /\ at' \in 0 .. SizeMod - 1
  <2>1. SizeMod \in Nat /\ at \in 0 .. SizeMod - 1 /\ Len(text) \in Nat
    BY Sizes DEF IInv, TypeOK, Call
  <2>2. CASE at = 0
    BY <2>1, <2>2 DEF Minus
  <2>3. CASE at # 0
    BY <2>1, <2>3 DEF Minus
  <2> QED BY <2>1, <2>2, <2>3
<1>2. TypeOK'
  BY <1>1 DEF IInv, TypeOK
<1>3. Call'
  BY DEF IInv, Call, Width
<1>4. Roomy' <=> Roomy
  BY DEF Roomy, RoomFor
<1>5. Cut'
  <2> SUFFICES ASSUME Roomy PROVE Cut'
    BY <1>4 DEF Cut
  <2>1. /\ Len(text) \in Nat /\ width \in Nat
        /\ start \in Nat /\ len \in Nat /\ at \in Nat
        /\ start < Len(text) /\ len <= width /\ start + len <= Len(text)
    BY LineInText
  <2>2. /\ start <= at /\ at <= start + len
        /\ len = width /\ start + len < Len(text)
        /\ NoFeedIn(start, start + len)
        /\ \A j \in at + 1 .. start + len : ~IsSpace(j)
    BY DEF IInv, Cut
  <2>3. at' = at - 1 /\ start <= at' /\ at' <= start + len
    BY <2>1, <2>2 DEF Minus
  <2>4. NoFeedIn(start, start + len)'
    BY <2>2 DEF NoFeedIn, CharAt
  <2>5. \A j \in at' + 1 .. start + len : ~IsSpace(j)
    BY <2>1, <2>2, <2>3
  <2>6. (\A j \in at + 1 .. start + len : ~IsSpace(j))'
    BY <2>5 DEF IsSpace, CharAt
  <2> QED BY <2>1, <2>2, <2>3, <2>4, <2>6 DEF Cut
<1>6. PartsInOrder' /\ OnlySpaceIsLost' /\ FeedsBreakLines' /\ WordsAreKept'
  BY LinesStay
<1> QED BY <1>2, <1>3, <1>5, <1>6 DEF IInv

(* On a window with room, the search for a space stays in the text. *)
LEMMA StraySpaceIInv ==
  ASSUME IInv, StraySpace
  PROVE  IInv'
<1> USE DEF StraySpace
<1>1. ~Roomy
  <2> SUFFICES ASSUME Roomy PROVE FALSE
    OBVIOUS
  <2>1. Len(text) \in Nat /\ start \in Nat /\ len \in Nat /\ at \in Nat
    BY LineInText
  <2>2. at <= start + len /\ start + len < Len(text)
    BY DEF IInv, Cut
  <2> QED BY <2>1, <2>2
<1>2. ~Roomy'
  BY <1>1 DEF Roomy, RoomFor
<1>3. TypeOK'
  BY DEF IInv, TypeOK
<1>4. Call'
  BY DEF IInv, Call, Width
<1> QED BY <1>2, <1>3, <1>4, LinesStay DEF IInv, Cut

LEMMA FoundSpaceIInv ==
  ASSUME IInv, FoundSpace
  PROVE  IInv'
<1> USE DEF FoundSpace
<1>1. /\ SizeMod \in Nat /\ width \in Nat /\ start \in Nat
      /\ len \in 0 .. SizeMod - 1 /\ at \in 0 .. SizeMod - 1
  BY Sizes DEF IInv, TypeOK, Call
<1>2. len' \in 0 .. SizeMod - 1
  <2>1. width \div 2 \in Nat
    BY <1>1
  <2> QED BY <1>1, <2>1
<1>3. TypeOK'
  BY <1>2 DEF IInv, TypeOK
<1>4. Call'
  BY DEF IInv, Call, Width
<1>5. Roomy' <=> Roomy
  BY DEF Roomy, RoomFor
<1>6. Cut'
  <2> SUFFICES ASSUME Roomy PROVE Cut'
    BY <1>5 DEF Cut
  <2> DEFINE half == width \div 2
  <2>1. /\ Len(text) \in Nat /\ width \in Nat /\ width # 0 /\ half \in Nat
        /\ start \in Nat /\ len \in Nat /\ at \in Nat
        /\ start < Len(text) /\ len <= width /\ start + len <= Len(text)
    BY LineInText
  <2>2. /\ start <= at /\ at <= start + len
        /\ len = width /\ start + len < Len(text)
        /\ NoFeedIn(start, start + len)
        /\ \A j \in at + 1 .. start + len : ~IsSpace(j)
    BY DEF IInv, Cut
  <2> HIDE DEF half
  <2>3. CASE at > start + half
    <3>1. len' = at - start /\ start + len' = at /\ len' \in Nat /\ len' <= len
      BY <2>1, <2>2, <2>3 DEF half
    <3>2. at # start
      BY <2>1, <2>3
    <3>3. IsSpace(at)
      BY <3>2
    <3>4. NoFeedIn(start, at)
      BY <2>1, <2>2 DEF NoFeedIn
    <3>5. NoFeedIn(start, start + len)'
      BY <3>1, <3>4 DEF NoFeedIn, CharAt
    <3>6. KeepsWord(start, len)'
      BY <3>1, <3>3 DEF KeepsWord, IsSpace, CharAt
    <3> QED BY <2>1, <3>1, <3>5, <3>6 DEF Cut
  <2>4. CASE ~(at > start + half)
    <3>1. len' = len
      BY <2>4 DEF half
    <3>2. NoFeedIn(start, start + len)'
      BY <2>2, <3>1 DEF NoFeedIn, CharAt
    <3>3. \A j \in start + half + 1 .. start + len : ~IsSpace(j)
      BY <2>1, <2>2, <2>4
    <3>4. KeepsWord(start, len)
      BY <2>2, <3>3 DEF KeepsWord, half
    <3>5. KeepsWord(start, len)'
      BY <3>1, <3>4 DEF KeepsWord, IsSpace, CharAt
    <3> QED BY <2>1, <2>2, <3>1, <3>2, <3>5 DEF Cut
  <2> QED BY <2>3, <2>4
<1>7. PartsInOrder' /\ OnlySpaceIsLost' /\ FeedsBreakLines' /\ WordsAreKept'
  BY LinesStay
<1> QED BY <1>3, <1>4, <1>6, <1>7 DEF IInv

-----------------------------------------------------------------------------
(* What it means that the lines cut so far are followed by one more.       *)
LEMMA OneMore ==
  ASSUME TypeOK, NEW p \in Line, parts' = Append(parts, p)
  PROVE  /\ parts' \in Seq(Line) /\ parts' # <<>>
         /\ Len(parts) \in Nat /\ Len(parts') = Len(parts) + 1
         /\ DOMAIN parts = 1 .. Len(parts)
         /\ DOMAIN parts' = 1 .. Len(parts) + 1
         /\ \A k \in DOMAIN parts : parts'[k] = parts[k]
         /\ parts'[Len(parts) + 1] = p
<1>1. parts \in Seq(Line)
  BY DEF TypeOK
<1> QED BY <1>1

LEMMA TakeIInv ==
  ASSUME IInv, Take
  PROVE  IInv'
<1> USE DEF Take
<1> DEFINE p == Part(start, len)
<1> DEFINE n == Len(parts)
<1>1. /\ SizeMod \in Nat /\ start \in 0 .. SizeMod - 1 /\ len \in 0 .. SizeMod - 1
      /\ Plus(start, len) \in 0 .. SizeMod - 1
  BY Sizes, Wraps DEF IInv, TypeOK, Call
<1>2. p \in Line /\ p.pos = start /\ p.len = len
  BY <1>1 DEF Part, Line
<1>3. End(p) = start + len
  BY <1>2 DEF End
<1>4. /\ parts' \in Seq(Line) /\ parts' # <<>>
      /\ n \in Nat /\ Len(parts') = n + 1
      /\ DOMAIN parts = 1 .. n /\ DOMAIN parts' = 1 .. n + 1
      /\ \A k \in 1 .. n : parts'[k] = parts[k] /\ parts[k] \in Line
      /\ parts'[n + 1] = p
  <2>1. parts' = Append(parts, p) /\ parts \in Seq(Line)
    BY DEF IInv, TypeOK
  <2> HIDE DEF p
  <2> QED BY <2>1, <1>2, OneMore DEF IInv
<1> HIDE DEF p, n
<1>5. TypeOK'
  BY <1>1, <1>4 DEF IInv, TypeOK
<1>6. Call'
  BY <1>4 DEF IInv, Call, Width
<1>7. Cut'
  BY DEF Cut
<1>8. Roomy' <=> Roomy
  BY DEF Roomy, RoomFor
<1>9. ASSUME Roomy
      PROVE  PartsInOrder' /\ OnlySpaceIsLost' /\ FeedsBreakLines' /\ WordsAreKept'
  <2>1. /\ Len(text) \in Nat /\ width \in Nat
        /\ start \in Nat /\ len \in Nat
        /\ len <= width /\ start + len <= Len(text)
        /\ start' = start + len
    BY <1>9, LineInText
  <2>2. NoFeedIn(start, start + len) /\ KeepsWord(start, len)
    BY <1>9 DEF IInv, Cut
  <2>3. PartsInOrder'
    <3>1. /\ \A k \in 1 .. n : parts[k].len <= width /\ End(parts[k]) <= start
          /\ \A k \in 1 .. n - 1 : End(parts[k]) <= parts[k + 1].pos
      BY <1>4, <1>9 DEF IInv, PartsInOrder, n
    <3>2. \A k \in 1 .. n : End(parts[k]) \in Nat
      BY <1>4 DEF End, Line
    <3>3. ASSUME NEW k \in 1 .. n + 1
          PROVE  parts'[k].len <= width /\ End(parts'[k]) <= start'
      <4>1. CASE k = n + 1
        BY <4>1, <1>2, <1>3, <1>4, <2>1
      <4>2. CASE k # n + 1
        <5>1. k \in 1 .. n
          BY <4>2, <1>4
        <5> QED BY <5>1, <1>4, <2>1, <3>1, <3>2
      <4> QED BY <4>1, <4>2
    <3>4. ASSUME NEW k \in 1 .. n
          PROVE  End(parts'[k]) <= parts'[k + 1].pos
      <4>1. CASE k = n
        BY <4>1, <1>2, <1>4, <3>1
      <4>2. CASE k # n
        <5>1. k \in 1 .. n - 1 /\ k + 1 \in 1 .. n
          BY <4>2, <1>4
        <5> QED BY <5>1, <1>4, <3>1
      <4> QED BY <4>1, <4>2
    <3> QED BY <1>4, <2>1, <3>3, <3>4 DEF PartsInOrder, End
  <2>4. OnlySpaceIsLost'
    <3> SUFFICES ASSUME NEW j \in 0 .. start' - 1, CharAt(j) = "ink"
                 PROVE  \E k \in DOMAIN parts' :
                          parts'[k].pos <= j /\ j < End(parts'[k])
      BY DEF OnlySpaceIsLost, CharAt, End
    <3>1. CASE j < start
      <4>1. PICK k \in 1 .. n : parts[k].pos <= j /\ j < End(parts[k])
        BY <2>1, <3>1, <1>4, <1>9 DEF IInv, OnlySpaceIsLost
      <4> QED BY <4>1, <1>4
    <3>2. CASE j >= start
      <4>1. parts'[n + 1].pos <= j /\ j < End(parts'[n + 1])
        BY <3>2, <2>1, <1>2, <1>3, <1>4
      <4> QED BY <4>1, <1>4
    <3> QED BY <2>1, <3>1, <3>2
  <2>5. FeedsBreakLines'
    <3> SUFFICES ASSUME NEW k \in 1 .. n + 1,
                        NEW j \in parts'[k].pos .. End(parts'[k]) - 1
                 PROVE  CharAt(j) # "feed"
      BY <1>4 DEF FeedsBreakLines, CharAt, End
    <3>1. CASE k = n + 1
      BY <3>1, <2>2, <1>2, <1>3, <1>4 DEF NoFeedIn
    <3>2. CASE k # n + 1
      <4>1. k \in 1 .. n
        BY <3>2, <1>4
      <4> QED BY <4>1, <1>4, <1>9 DEF IInv, FeedsBreakLines
    <3> QED BY <3>1, <3>2
  <2>6. WordsAreKept'
    <3> SUFFICES ASSUME NEW k \in 1 .. n + 1,
                        End(parts'[k]) < Len(text), ~IsSpace(End(parts'[k]))
                 PROVE  /\ parts'[k].len = width
                        /\ \A j \in parts'[k].pos + width \div 2 + 1 .. End(parts'[k]) :
                             ~IsSpace(j)
      BY <1>4 DEF WordsAreKept, IsSpace, CharAt, End
    <3>1. CASE k = n + 1
      BY <3>1, <2>2, <1>2, <1>3, <1>4 DEF KeepsWord
    <3>2. CASE k # n + 1
      <4>1. k \in 1 .. n
        BY <3>2, <1>4
      <4> QED BY <4>1, <1>4, <1>9 DEF IInv, WordsAreKept
    <3> QED BY <3>1, <3>2
  <2> QED BY <2>3, <2>4, <2>5, <2>6
<1>10. ASSUME ~Roomy
       PROVE  PartsInOrder' /\ OnlySpaceIsLost' /\ FeedsBreakLines' /\ WordsAreKept'
  BY <1>8, <1>10 DEF PartsInOrder, OnlySpaceIsLost, FeedsBreakLines, WordsAreKept
<1> QED BY <1>5, <1>6, <1>7, <1>9, <1>10 DEF IInv

LEMMA SkipSpaceIInv ==
  ASSUME IInv, SkipSpace
  PROVE  IInv'
<1> USE DEF SkipSpace
<1>1. /\ SizeMod \in Nat /\ Len(text) \in Nat /\ Len(text) < SizeMod
      /\ CommonWidth \in Nat /\ start \in Nat
  BY Sizes DEF IInv, TypeOK, Call
<1>2. TypeOK'
  BY <1>1 DEF IInv, TypeOK
<1>3. Call'
  BY DEF IInv, Call, Width
<1>4. Cut'
  BY DEF Cut
<1>5. Roomy' <=> Roomy
  BY DEF Roomy, RoomFor
<1>6. PartsInOrder'
  <2>1. \A k \in DOMAIN parts : End(parts[k]) \in Nat
    <3>1. \A k \in DOMAIN parts : parts[k] \in Line
      BY DEF IInv, TypeOK
    <3> QED BY <3>1 DEF End, Line
  <2> QED BY <1>1, <1>5, <2>1 DEF IInv, PartsInOrder, End
<1>7. OnlySpaceIsLost'
  <2>1. CharAt(start) # "ink"
    BY DEF IsSpace
  <2>2. \A j \in 0 .. start : j = start \/ j \in 0 .. start - 1
    BY <1>1
  <2> QED BY <1>1, <1>5, <2>1, <2>2 DEF IInv, OnlySpaceIsLost, End, CharAt
<1>8. FeedsBreakLines'
  BY <1>5 DEF IInv, FeedsBreakLines, End, CharAt
<1>9. WordsAreKept'
  BY <1>5 DEF IInv, WordsAreKept, End, CharAt, IsSpace
<1> QED BY <1>2, <1>3, <1>4, <1>6, <1>7, <1>8, <1>9 DEF IInv

LEMMA NextTurnIInv ==
  ASSUME IInv, NextTurn
  PROVE  IInv'
<1> USE DEF NextTurn
<1>1. TypeOK'
  BY DEF IInv, TypeOK
<1>2. Call'
  BY DEF IInv, Call, Width
<1>3. Cut'
  BY DEF Cut
<1> QED BY <1>1, <1>2, <1>3, LinesStay DEF IInv

(* The empty line that stands for a text without lines is of an empty text. *)
LEMMA FinishIInv ==
  ASSUME IInv, Finish
  PROVE  IInv'
<1> USE DEF Finish
<1>1. CASE parts # <<>>
  <2>1. parts' = parts
    BY <1>1
  <2>2. TypeOK'
    BY <2>1 DEF IInv, TypeOK
  <2>3. Call' /\ Cut'
    BY <2>1 DEF IInv, Call, Cut, Width
  <2> QED BY <2>1, <2>2, <2>3, LinesStay DEF IInv
<1>2. CASE parts = <<>>
  <2> DEFINE p == Part(0, 0)
  <2>1. parts' = <<p>> /\ p \in Line /\ p.pos = 0 /\ p.len = 0
    BY <1>2 DEF Part, Line
  <2> HIDE DEF p
  <2>2. /\ parts' \in Seq(Line)
        /\ DOMAIN parts' = 1 .. 1 /\ Len(parts') = 1 /\ parts'[1] = p
    <3>1. /\ <<p>> \in Seq(Line) /\ DOMAIN <<p>> = 1 .. 1
          /\ Len(<<p>>) = 1 /\ <<p>>[1] = p
      BY <2>1
    <3>2. parts' = <<p>>
      BY <2>1
    <3> QED BY ONLY <3>1, <3>2
  <2>3. /\ start = 0 /\ Len(text) \in Nat /\ Len(text) = 0
        /\ pc # "idle" /\ pc' = "done" /\ start' = 0
    BY <1>2, Sizes DEF IInv, TypeOK, Call
  <2>4. End(p) = 0
    BY <2>1 DEF End
  <2>5. TypeOK'
    BY <2>2 DEF IInv, TypeOK
  <2>6. Call' /\ Cut'
    BY <2>2, <2>3 DEF IInv, Call, Cut, Width
  <2>7. Roomy' => Roomy /\ width \in Nat
    BY <2>3, RoomyWidth DEF Roomy, RoomFor
  <2>8. PartsInOrder'
    BY <2>1, <2>2, <2>3, <2>4, <2>7 DEF PartsInOrder, End
  <2>9. OnlySpaceIsLost'
    BY <2>3 DEF OnlySpaceIsLost
  <2>10. FeedsBreakLines'
    BY <2>1, <2>2, <2>4 DEF FeedsBreakLines, End
  <2>11. WordsAreKept'
    BY <2>1, <2>2, <2>3, <2>4 DEF WordsAreKept, End
  <2> QED BY <2>5, <2>6, <2>8, <2>9, <2>10, <2>11 DEF IInv
<1> QED BY <1>1, <1>2

LEMMA StutterIInv == IInv /\ UNCHANGED vars => IInv'
<1> SUFFICES ASSUME IInv, UNCHANGED vars PROVE IInv'
  OBVIOUS
<1> USE DEF vars
<1>1. Roomy' <=> Roomy
  BY DEF Roomy, RoomFor
<1>2. TypeOK'
  BY DEF IInv, TypeOK
<1>3. Call'
  BY DEF IInv, Call, Width
<1>4. Cut'
  BY <1>1 DEF IInv, Cut, NoFeedIn, KeepsWord, IsSpace, CharAt
<1>5. CASE pc = "idle"
  BY <1>2, <1>3, <1>4, <1>5
  DEF IInv, PartsInOrder, OnlySpaceIsLost, FeedsBreakLines, WordsAreKept
<1>6. CASE pc # "idle"
  <2>1. Roomy => pc # "crashed"
    BY <1>6 DEF IInv, PartsInOrder
  <2> QED BY <1>1, <1>2, <1>3, <1>4, <1>6, <2>1, LinesStay DEF IInv
<1> QED BY <1>5, <1>6

-----------------------------------------------------------------------------
(* The inductive invariant holds in every behaviour. *)
THEOREM Invariance == Spec => []IInv
<1>1. IInv /\ [Next]_vars => IInv'
  <2> SUFFICES ASSUME IInv, [Next]_vars PROVE IInv'
    OBVIOUS
  <2>1. ASSUME NEW t \in Texts, NEW l \in Labels, PrintParam(t, l) PROVE IInv'
    BY <2>1, CallIInv
  <2>2. CASE Measure     BY <2>2, MeasureIInv
  <2>3. CASE ScanFeed    BY <2>3, ScanFeedIInv
  <2>4. CASE FoundFeed   BY <2>4, FoundFeedIInv
  <2>5. CASE NoFeed      BY <2>5, NoFeedIInv
  <2>6. CASE ScanSpace   BY <2>6, ScanSpaceIInv
  <2>7. CASE StraySpace  BY <2>7, StraySpaceIInv
  <2>8. CASE FoundSpace  BY <2>8, FoundSpaceIInv
  <2>9. CASE Take        BY <2>9, TakeIInv
  <2>10. CASE SkipSpace  BY <2>10, SkipSpaceIInv
  <2>11. CASE NextTurn   BY <2>11, NextTurnIInv
  <2>12. CASE Finish     BY <2>12, FinishIInv
  <2>13. CASE UNCHANGED vars  BY <2>13, StutterIInv
  <2> QED BY <2>1, <2>2, <2>3, <2>4, <2>5, <2>6, <2>7, <2>8, <2>9, <2>10,
             <2>11, <2>12, <2>13 DEF Next, Split
<1> QED BY InitIInv, <1>1, PTL DEF Spec

(* Positions and lengths stay in size_t, on any window. *)
THEOREM TypesHold == Spec => []TypeOK
<1>1. IInv => TypeOK
  BY DEF IInv
<1> QED BY <1>1, Invariance, PTL

(* On a window with room, split() cuts disjoint pieces in order, none      *)
(* longer than the width, and reads nothing outside the value.             *)
THEOREM LinesInOrder == Spec => []PartsInOrder
<1>1. IInv => PartsInOrder
  BY DEF IInv
<1> QED BY <1>1, Invariance, PTL

(* There, only white space is lost between the lines. *)
THEOREM NothingLost == Spec => []OnlySpaceIsLost
<1>1. IInv => OnlySpaceIsLost
  BY DEF IInv
<1> QED BY <1>1, Invariance, PTL

(* There, no line holds a line feed. *)
THEOREM LinesAreLines == Spec => []FeedsBreakLines
<1>1. IInv => FeedsBreakLines
  BY DEF IInv
<1> QED BY <1>1, Invariance, PTL

(* There, a word is cut only where it covers the second half of a line. *)
THEOREM WordsStayWhole == Spec => []WordsAreKept
<1>1. IInv => WordsAreKept
  BY DEF IInv
<1> QED BY <1>1, Invariance, PTL

(* The width is that of the window, or the common one. *)
WidthTaken == tty.stdout \in Windows \cup {NotATty} /\ maxColumns = Columns(tty)

LEMMA WidthStays == Spec => []WidthTaken
<1>1. Init => WidthTaken
  BY DEF Init, WidthTaken
<1>2. WidthTaken /\ [Next]_vars => WidthTaken'
  <2> SUFFICES ASSUME WidthTaken, [Next]_vars PROVE WidthTaken'
    OBVIOUS
  <2>1. UNCHANGED <<tty, maxColumns>>
    BY DEF Next, Split, vars, PrintParam, Measure, ScanFeed, FoundFeed, NoFeed,
           ScanSpace, StraySpace, FoundSpace, Take, SkipSpace, NextTurn, Finish
  <2> QED BY <2>1 DEF WidthTaken, Columns
<1> QED BY <1>1, <1>2, PTL DEF Spec

LEMMA ColumnsFit ==
  ASSUME WidthTaken
  PROVE  /\ CommonWidth \in Nat /\ maxColumns <= CommonWidth
         /\ tty.stdin /\ tty.stdout # NotATty =>
              tty.stdout \in Nat /\ maxColumns <= tty.stdout
<1>1. tty.stdout # NotATty => tty.stdout \in Nat
  BY WrapAssumption DEF WidthTaken
<1> QED BY <1>1, WrapAssumption DEF WidthTaken, Columns, Smaller

(* There, every line with its indent fits the common width, and the        *)
(* terminal at stdout if stdin is one, too, but for a first line behind a  *)
(* name that is too long.                                                  *)
THEOREM LinesFit == Spec => []RoomyLinesFit
<1>1. IInv /\ WidthTaken => RoomyLinesFit
  <2> SUFFICES ASSUME IInv, WidthTaken, pc # "idle", Roomy,
                      NEW k \in DOMAIN parts
               PROVE  /\ LineLen(parts[k]) <= CommonWidth + Overhang(parts[k])
                      /\ tty.stdin /\ tty.stdout # NotATty =>
                           LineLen(parts[k]) <= tty.stdout + Overhang(parts[k])
    BY DEF RoomyLinesFit, IInv
  <2>1. /\ parts[k].len \in Nat /\ parts[k].pos \in Nat
        /\ maxColumns \in Nat /\ Len(text) \in Nat
        /\ NameWidth \in Nat /\ Indent = NameWidth + 1
    <3>1. parts[k] \in Line
      BY DEF IInv, TypeOK
    <3> QED BY <3>1, Sizes DEF IInv, TypeOK, Call, Line
  <2>2. parts[k].len <= width /\ width \in Nat
    BY RoomyWidth DEF IInv, PartsInOrder
  <2>3. /\ CommonWidth \in Nat /\ maxColumns <= CommonWidth
        /\ tty.stdin /\ tty.stdout # NotATty =>
             tty.stdout \in Nat /\ maxColumns <= tty.stdout
    BY ColumnsFit
  <2>4. label \in Nat \cup {Raw}
    BY WrapAssumption DEF IInv, Call
  <2>5. LineLen(parts[k]) <= maxColumns + Overhang(parts[k])
    <3>1. CASE label = Raw
      <4>1. Overhang(parts[k]) \in Nat
        BY <2>1, <2>4 DEF Raw, Overhang
      <4>2. LineLen(parts[k]) <= maxColumns /\ LineLen(parts[k]) \in Int
        BY <2>1, <2>2, <3>1, RoomyWidth DEF LineLen, Smaller
      <4> QED BY <2>1, <4>1, <4>2
    <3>2. CASE label # Raw
      <4>1. label \in Nat /\ width = maxColumns - Indent
        BY <2>4, <3>2, RoomyWidth
      <4>2. FirstIndent = IF label > NameWidth THEN Indent + (label - NameWidth)
                                               ELSE Indent
        BY <2>1, <4>1 DEF FirstIndent
      <4>3. LineLen(parts[k]) =
              Smaller(parts[k].len, Len(text) - parts[k].pos)
                + IF parts[k].pos = 0 THEN FirstIndent ELSE Indent
        BY <3>2 DEF LineLen
      <4> QED BY <2>1, <2>2, <4>1, <4>2, <4>3 DEF Smaller, Overhang
    <3> QED BY <3>1, <3>2
  <2>6. Overhang(parts[k]) \in Nat
    BY <2>1, <2>4 DEF Raw, Overhang
  <2>7. LineLen(parts[k]) \in Int
    <3>1. label = Raw \/ FirstIndent \in Int
      BY <2>1, <2>4 DEF FirstIndent
    <3> QED BY <2>1, <3>1 DEF LineLen, Smaller
  <2> QED BY <2>1, <2>3, <2>5, <2>6, <2>7
<1> QED BY <1>1, Invariance, WidthStays, PTL
=============================================================================
